------------------------ MODULE StreamOffsets_proof ------------------------
(***************************************************************************)
(* What a restart from a checkpoint skips is bounded, and what it repeats, *)
(* for every topic, size of batch and buffer, number of workers, parsing   *)
(* calls and crashes; and the offsets of a worker advance.                 *)
(***************************************************************************)
EXTENDS StreamOffsets, FiniteSetTheorems, FunctionTheorems, SequenceTheorems,
        WellFoundedInduction, TLAPS

---------------------------------------------------------------------------
(* The invariant                                                           *)

OffsetsOf(w) == {NoOffsets} \cup [PartsOf(w) -> Nat]
BatchesOf(w) ==
  [msgs : Seq(PartsOf(w) \X Nat), saw : OffsetsOf(w), snap : OffsetsOf(w)]

(* What the slots hold together: offsets of some partitions.               *)
IsOffsets(o) == DOMAIN o \subseteq Partitions /\ \A p \in DOMAIN o : o[p] \in Nat

Shapes ==
  /\ conf \in Confs
  /\ wpc \in [Workers -> {"down", "restored", "run"}]
  /\ next \in [Partitions -> Nat] /\ off \in [Partitions -> Nat]
  /\ DOMAIN fetch = Workers /\ DOMAIN raw = Workers
  /\ DOMAIN pipe = Workers /\ DOMAIN hand = Workers
  /\ DOMAIN ops = Workers /\ DOMAIN slot = Workers
  /\ gstep \in Nat /\ lastSaved \in Nat /\ crashes \in Nat
  /\ spc \in {"idle", "offsets", "file", "vars"}
  /\ DOMAIN saving = {"step", "off"} /\ saving.step \in Nat /\ IsOffsets(saving.off)
  /\ ckpt = NoCkpt \/ (DOMAIN ckpt = {"step", "model"} /\ ckpt.step \in Nat)
  /\ DOMAIN file \subseteq Nat /\ \A n \in DOMAIN file : IsOffsets(file[n])

Typed(w) ==
  /\ fetch[w] = <<>> \/ fetch[w] \in PartsOf(w) \X Nat
  /\ raw[w] \in Seq(PartsOf(w) \X Nat)
  /\ pipe[w] \in Seq(BatchesOf(w))
  /\ hand[w] \in Seq(BatchesOf(w)) /\ Len(hand[w]) <= 1
  /\ ops[w] \subseteq {"assign", "apply"} /\ (ops[w] = {} <=> hand[w] = <<>>)
  /\ slot[w] \in OffsetsOf(w)

(* A process that is not in its loop holds nothing.                        *)
Emptied(w) ==
  wpc[w] # "run" =>
    /\ fetch[w] = <<>> /\ raw[w] = <<>> /\ pipe[w] = <<>> /\ hand[w] = <<>> /\ ops[w] = {}

(* The sizes of buffers and batches, and the window of the parallel map.   *)
Sized(w) ==
  /\ Len(raw[w]) < conf.shuffle
  /\ \A i \in DOMAIN pipe[w] :
       /\ Len(pipe[w][i].msgs) <= BatchSize
       /\ ~Parsed(pipe[w][i]) => Len(pipe[w]) - i < conf.parallel
  /\ \A i \in DOMAIN hand[w] : Len(hand[w][i].msgs) <= BatchSize

(* Offsets do not run ahead of what is read.                               *)
Behind(w) ==
  /\ \A p \in PartsOf(w) : off[p] <= next[p]
  /\ \A m \in ToSet(raw[w]) : m[2] < next[m[1]]
  /\ \A i \in DOMAIN pipe[w] : \A m \in ToSet(pipe[w][i].msgs) : m[2] < next[m[1]]

(* Nobody is in the loop, and nothing is being saved, without the chief.   *)
ChiefRuns ==
  wpc[Chief] # "run" =>
    /\ \A w \in Workers : wpc[w] # "run" /\ slot[w] = NoOffsets
    /\ spc = "idle"

(* The saves of a session, and what is on disk.                            *)
Saves ==
  /\ spc # "idle" => saving.step = lastSaved /\ hand[Chief] = <<>>
  /\ wpc[Chief] = "run" => ckpt.step <= lastSaved /\ ckpt.model \subseteq model
  /\ ckpt # NoCkpt => ckpt.step \in DOMAIN file
  /\ Resaving => model \subseteq ckpt.model \cup early
  /\ spc = "vars" => saving.step \in DOMAIN file /\ file[saving.step] = saving.off

(* At most n elements.                                                     *)
AtMost(S, n) == IsFiniteSet(S) /\ Cardinality(S) <= n

(* What one session of w may lose, and all of them up to the last crash.   *)
LossOf(w) == Unsettled(w) + conf.shuffle - 1
LostBefore(w) == crashes * LossOf(w)

(* What may be lost when a batch is parsed.                                *)
Ahead(w) == LostBefore(w) + (conf.parallel - 1) * BatchSize + conf.shuffle - 1

(* Who is down has lost what it had in hand; it has crashed, or has never  *)
(* saved an offset.                                                        *)
LostBySlot(w) == IF wpc[w] = "down" THEN LostBefore(w) ELSE Ahead(w)
LostBySave(w) == IF wpc[w] = "down" THEN LostBefore(w) ELSE LostBefore(w) + LossOf(w)

(* The messages that the variables are trained on, or will be after the    *)
(* chief is back.                                                          *)
Known == early \cup (IF wpc[Chief] = "run" THEN model ELSE ckpt.model)

InHand(w) == UNION {ToSet(hand[w][i].msgs) : i \in DOMAIN hand[w]}
InPipe(w, k) == UNION {ToSet(pipe[w][i].msgs) : i \in {j \in DOMAIN pipe[w] : j <= k}}
InFlight(w) == ToSet(raw[w]) \cup InPipe(w, Len(pipe[w])) \cup InHand(w)

(* Once a train op has applied its batch, that is in the variables.        *)
Applied(w) == "apply" \notin ops[w] => InHand(w) \subseteq Known

(* What is lost when a worker has read so far, when the offsets of a batch *)
(* in its pipeline, in hand or in its slot get saved, or are being saved,  *)
(* and what a restart now would lose.                                      *)
LostRead(w) ==
  wpc[w] # "down" => AtMost(Before(w, next) \ (Known \cup InFlight(w)), LostBefore(w))

LostPipe(w) ==
  \A i \in DOMAIN pipe[w] :
    AtMost(Before(w, pipe[w][i].snap) \ (Known \cup InHand(w) \cup InPipe(w, i)), Ahead(w))

LostHand(w) ==
  \A i \in DOMAIN hand[w] :
    AtMost(Before(w, hand[w][i].snap) \ (Known \cup InHand(w)), Ahead(w))

LostSlot(w) == AtMost(Before(w, slot[w]) \ (Known \cup InHand(w)), LostBySlot(w))

LostSaving(w) ==
  spc \in {"file", "vars"} =>
    /\ AtMost(Before(w, saving.off) \ Known, LostBySave(w))
    /\ saving.step = ckpt.step =>
         AtMost(Before(w, saving.off) \ (ckpt.model \cup early), LostBySave(w))

LostSaved(w) ==
  ckpt.step \in DOMAIN file =>
    AtMost(Before(w, file[ckpt.step]) \ (ckpt.model \cup early), LostBySave(w))

InOrder(w) == Typed(w) /\ Emptied(w) /\ Sized(w) /\ Behind(w) /\ Applied(w)
LossesLive(w) == LostRead(w) /\ LostPipe(w) /\ LostHand(w) /\ LostSlot(w)
LossesSaved(w) == LostSaving(w) /\ LostSaved(w)

StreamInv ==
  /\ Shapes /\ ChiefRuns /\ Saves
  /\ \A w \in Workers : InOrder(w) /\ LossesLive(w) /\ LossesSaved(w)

---------------------------------------------------------------------------
(* Numbers, sets and sequences                                             *)

(* The workers are counted, and every partition has one.                   *)
LEMMA WorkersNumbered ==
  /\ NumWorkers \in Nat \ {0} /\ Chief \in Workers /\ NumPartition \in Nat
  /\ BatchSize \in Nat \ {0} /\ StartAt \in Nat
  /\ \A p \in Partitions : p \in Nat /\ p % NumWorkers \in Workers
  /\ \A w \in Workers : PartsOf(w) \subseteq Partitions
<1>1. NumWorkers \in Nat
  BY FS_CardinalityType, ClusterAssumption DEF NumWorkers
<1>2. Chief \in Workers /\ Workers = 0..(NumWorkers - 1)
  BY ClusterAssumption, StreamAssumption
<1>3. NumWorkers > 0
  BY <1>1, <1>2, ClusterAssumption
<1>4. \A p \in Nat : p % NumWorkers \in 0..(NumWorkers - 1)
  BY <1>1, <1>3
<1>5. Partitions \subseteq Nat
  BY StreamAssumption DEF Partitions
<1>6. NumPartition \in Nat /\ BatchSize \in Nat \ {0} /\ StartAt \in Nat
  BY StreamAssumption
<1> QED
  BY <1>1, <1>2, <1>3, <1>4, <1>5, <1>6 DEF PartsOf

(* The numbers of the settings.                                            *)
LEMMA Settings ==
  ASSUME conf \in Confs
  PROVE  /\ conf.shuffle \in Nat \ {0} /\ conf.parallel \in Nat \ {0}
         /\ conf.input \in {"kafka", "datahub"}
         /\ \A p \in Partitions : End(p) \in Nat
<1>1. conf \in ConfType
  BY StreamAssumption
<1>2. conf.msgs \in [1..NumPartition -> Nat]
  BY <1>1 DEF ConfType
<1>3. \A p \in Partitions : p + 1 \in 1..NumPartition
  BY WorkersNumbered DEF Partitions
<1>4. \A p \in Partitions : conf.msgs[p + 1] \in Nat
  BY <1>2, <1>3
<1> QED
  BY <1>1, <1>4 DEF ConfType, End

(* One worker's losses add up: those before a batch is parsed, and the     *)
(* batch in hand of a worker that is not the chief.                        *)
LEMMA LossNumbers ==
  ASSUME conf \in Confs, crashes \in Nat, NEW w \in Workers
  PROVE  /\ LossOf(w) \in Nat /\ LostBefore(w) \in Nat /\ Ahead(w) \in Nat
         /\ (conf.parallel - 1) * BatchSize \in Nat
         /\ LostBefore(w) <= Ahead(w)
         /\ Ahead(w) + (IF w = Chief THEN 0 ELSE BatchSize) = LostBefore(w) + LossOf(w)
         /\ LostBySlot(w) \in Nat /\ LostBySave(w) \in Nat
         /\ (crashes + 1) * LossOf(w) = LostBefore(w) + LossOf(w)
<1> DEFINE extra == IF w = Chief THEN 0 ELSE 1
<1>1. /\ conf.shuffle \in Nat \ {0} /\ conf.parallel \in Nat \ {0} /\ BatchSize \in Nat \ {0}
      /\ extra \in {0, 1}
  BY Settings, WorkersNumbered
<1>2. ASSUME NEW a \in Nat, NEW b \in Nat
      PROVE  a * b \in Nat /\ (a + 1) * b = a * b + b
  OBVIOUS
<1>3. conf.parallel - 1 \in Nat
  BY <1>1
<1>4. (conf.parallel - 1) * BatchSize \in Nat
      /\ (conf.parallel - 1 + 1) * BatchSize = (conf.parallel - 1) * BatchSize + BatchSize
  BY <1>1, <1>2, <1>3
<1>5. Unsettled(w) = (conf.parallel - 1) * BatchSize + (IF w = Chief THEN 0 ELSE BatchSize)
  <2>1. CASE w = Chief
    BY <2>1, <1>1, <1>3 DEF Unsettled
  <2>2. CASE w # Chief
    BY <2>2, <1>1, <1>3, <1>4 DEF Unsettled
  <2> QED
    BY <2>1, <2>2
<1>6. LossOf(w) = (conf.parallel - 1) * BatchSize + (IF w = Chief THEN 0 ELSE BatchSize)
                    + conf.shuffle - 1
  BY <1>5 DEF LossOf
<1>7. LossOf(w) \in Nat
  <2>1. conf.shuffle - 1 \in Nat /\ (IF w = Chief THEN 0 ELSE BatchSize) \in Nat
    BY <1>1
  <2> DEFINE a == (conf.parallel - 1) * BatchSize
             b == IF w = Chief THEN 0 ELSE BatchSize
  <2>2. a \in Nat /\ b \in Nat /\ LossOf(w) = a + b + conf.shuffle - 1
    BY <1>4, <1>6, <2>1
  <2> HIDE DEF a, b
  <2> QED
    BY <1>1, <2>2
<1>8. crashes * LossOf(w) \in Nat
      /\ (crashes + 1) * LossOf(w) = crashes * LossOf(w) + LossOf(w)
  BY <1>2, <1>7
<1> HIDE DEF extra
<1>9. PICK a \in Nat : a = (conf.parallel - 1) * BatchSize
  BY <1>4
<1>10. PICK l \in Nat : l = LostBefore(w)
  BY <1>8 DEF LostBefore
<1>11. Ahead(w) = l + a + conf.shuffle - 1
  BY <1>9, <1>10 DEF Ahead
<1>12. LossOf(w) = a + (IF w = Chief THEN 0 ELSE BatchSize) + conf.shuffle - 1
  BY <1>6, <1>9
<1>13. Ahead(w) \in Nat /\ l <= Ahead(w)
  BY <1>1, <1>11
<1>14. Ahead(w) + (IF w = Chief THEN 0 ELSE BatchSize) = l + LossOf(w)
  BY <1>1, <1>11, <1>12
<1>15. LostBySlot(w) \in Nat /\ LostBySave(w) \in Nat
  BY <1>7, <1>10, <1>13 DEF LostBySlot, LostBySave
<1> QED
  BY <1>4, <1>7, <1>8, <1>10, <1>13, <1>14, <1>15 DEF LostBefore

(* Fewer elements, and a larger bound.                                     *)
LEMMA AtMostLess ==
  ASSUME NEW S, NEW T, NEW m \in Int, NEW n \in Int, AtMost(S, m), T \subseteq S, m <= n
  PROVE  AtMost(T, n)
<1>1. IsFiniteSet(T) /\ Cardinality(T) <= Cardinality(S)
  BY FS_Subset DEF AtMost
<1>2. Cardinality(T) \in Nat /\ Cardinality(S) \in Nat
  BY <1>1, FS_CardinalityType DEF AtMost
<1> QED
  BY <1>1, <1>2 DEF AtMost

(* Elements of two sets.                                                   *)
LEMMA AtMostBoth ==
  ASSUME NEW S, NEW T, NEW U, NEW m \in Int, NEW n \in Int, AtMost(S, m), AtMost(T, n),
         U \subseteq S \cup T
  PROVE  AtMost(U, m + n)
<1>1. IsFiniteSet(S \cup T)
      /\ Cardinality(S \cup T) = Cardinality(S) + Cardinality(T) - Cardinality(S \cap T)
  BY FS_Union DEF AtMost
<1>2. IsFiniteSet(S \cap T)
  BY FS_Subset, S \cap T \in SUBSET S DEF AtMost
<1>3. Cardinality(S) \in Nat /\ Cardinality(T) \in Nat /\ Cardinality(S \cap T) \in Nat
  BY <1>2, FS_CardinalityType DEF AtMost
<1>4. AtMost(S \cup T, m + n)
  BY <1>1, <1>3 DEF AtMost
<1> QED
  BY <1>4, AtMostLess

(* No elements.                                                            *)
LEMMA AtMostNone ==
  ASSUME NEW n \in Nat
  PROVE  AtMost({}, n)
BY FS_EmptySet DEF AtMost

(* A sequence has no more elements than its length.                        *)
LEMMA AtMostLen ==
  ASSUME NEW S, NEW s \in Seq(S)
  PROVE  AtMost(ToSet(s), Len(s))
<1>1. Len(s) \in Nat /\ s \in [1..Len(s) -> S] /\ DOMAIN s = 1..Len(s)
  BY LenProperties
<1>2. s \in Surjection(1..Len(s), ToSet(s))
  BY <1>1 DEF Surjection, ToSet
<1>3. IsFiniteSet(1..Len(s)) /\ Cardinality(1..Len(s)) = Len(s)
  BY <1>1, FS_Interval
<1> QED
  BY <1>2, <1>3, FS_Surjection DEF AtMost

(* The messages of the batches after the i-th.                             *)
Later(q, i) == UNION {ToSet(q[j].msgs) : j \in {j \in DOMAIN q : j > i}}

(* They are no more than fit in k batches, when k batches come after.      *)
LEMMA AtMostBatches ==
  ASSUME NEW S, NEW i \in Nat, NEW k \in Nat,
         NEW q, NEW n \in Nat, DOMAIN q = 1..n, n - i <= k,
         \A j \in 1..n : q[j].msgs \in Seq(S) /\ Len(q[j].msgs) <= BatchSize
  PROVE  AtMost(Later(q, i), k * BatchSize)
<1> DEFINE U == UNION {ToSet(q[j].msgs) : j \in {j \in DOMAIN q : j > i}}
           D == (1..k) \X (1..BatchSize)
<1>1. BatchSize \in Nat /\ k * BatchSize \in Nat
  BY WorkersNumbered
<1>2. IsFiniteSet(D) /\ Cardinality(D) = k * BatchSize
  <2>1. IsFiniteSet(1..k) /\ Cardinality(1..k) = k
    BY FS_Interval
  <2>2. IsFiniteSet(1..BatchSize) /\ Cardinality(1..BatchSize) = BatchSize
    BY <1>1, FS_Interval
  <2> QED
    <3>1. /\ IsFiniteSet((1..k) \X (1..BatchSize))
          /\ Cardinality((1..k) \X (1..BatchSize)) = Cardinality(1..k) * Cardinality(1..BatchSize)
      BY <2>1, <2>2, FS_Product, Zenon
    <3> QED
      BY <2>1, <2>2, <3>1
<1>3. CASE U = {}
  BY <1>1, <1>3, AtMostNone DEF Later
<1>4. CASE U # {}
  <2>1. PICK u : u \in U
    BY <1>4
  <2> DEFINE Is(x) == i + x[1] \in 1..n /\ x[2] <= Len(q[i + x[1]].msgs)
             f == [x \in D |-> IF Is(x) THEN q[i + x[1]].msgs[x[2]] ELSE u]
  <2>2. ASSUME NEW x \in D
        PROVE  f[x] \in U
    <3>1. CASE Is(x)
      <4>1. i + x[1] \in 1..n /\ i + x[1] > i /\ f[x] = q[i + x[1]].msgs[x[2]]
        BY <3>1
      <4>2. q[i + x[1]].msgs \in Seq(S) /\ x[2] \in 1..Len(q[i + x[1]].msgs)
        BY <3>1, <4>1, LenProperties, <1>1
      <4>3. f[x] \in ToSet(q[i + x[1]].msgs)
        BY <4>1, <4>2, LenProperties DEF ToSet
      <4> QED
        BY <4>1, <4>3
    <3>2. CASE ~Is(x)
      BY <3>2, <2>1
    <3> QED
      BY <3>1, <3>2
  <2>3. ASSUME NEW m \in U
        PROVE  \E x \in D : f[x] = m
    <3>1. PICK j \in DOMAIN q : j > i /\ m \in ToSet(q[j].msgs)
      OBVIOUS
    <3>2. q[j].msgs \in Seq(S) /\ Len(q[j].msgs) \in Nat /\ Len(q[j].msgs) <= BatchSize
      BY <3>1, LenProperties
    <3>3. PICK a \in 1..Len(q[j].msgs) : m = q[j].msgs[a]
      BY <3>1, <3>2, LenProperties DEF ToSet
    <3>4. j \in 1..n /\ j - i \in 1..k /\ a \in 1..BatchSize /\ i + (j - i) = j
      <4>1. j \in 1..n /\ j > i
        BY <3>1
      <4>2. j - i \in 1..k /\ i + (j - i) = j
        BY <4>1
      <4>3. a \in 1..BatchSize
        BY <1>1, <3>2, <3>3
      <4> QED
        BY <4>1, <4>2, <4>3
    <3>5. <<j - i, a>> \in D /\ Is(<<j - i, a>>)
      BY <3>3, <3>4
    <3>6. f[<<j - i, a>>] = m
      BY <3>3, <3>4, <3>5
    <3> QED
      BY <3>5, <3>6
  <2>4. f \in [D -> U] /\ \A m \in U : \E x \in D : f[x] = m
    BY <2>2, <2>3
  <2> HIDE DEF U, D, f, Is
  <2>5. f \in Surjection(D, U)
    BY <2>4 DEF Surjection
  <2> QED
    BY <1>2, <2>5, FS_Surjection DEF AtMost, U, Later
<1> QED
  BY <1>3, <1>4

(* A set of naturals that is not empty has a least element, and one below  *)
(* a bound has a greatest.                                                 *)
LEMMA LeastOf ==
  ASSUME NEW S, S \subseteq Nat, S # {}
  PROVE  Min(S) \in S /\ \A x \in S : Min(S) <= x
<1> DEFINE R == OpToRel(<, Nat)
<1>1. IsWellFoundedOn(R, Nat)
  BY NatLessThanWellFounded
<1>2. \A x, y \in Nat : x < y => <<x, y>> \in R
  BY DEF OpToRel
<1> HIDE DEF R
<1>3. PICK x \in S : \A y \in S : ~(<<y, x>> \in R)
  BY <1>1, WFMin
<1>4. \A y \in S : x <= y
  <2> SUFFICES ASSUME NEW y \in S PROVE x <= y
    OBVIOUS
  <2>1. x \in Nat /\ y \in Nat /\ ~(y < x)
    BY <1>2, <1>3
  <2> QED
    BY <2>1
<1>5. x = Min(S) \/ (Min(S) \in S /\ \A y \in S : Min(S) <= y)
  BY <1>4 DEF Min
<1> QED
  BY <1>4, <1>5

(* The largest number of a finite set of numbers is in it.                 *)
LEMMA GreatestOf ==
  ASSUME NEW n \in Nat, NEW S, S \subseteq 0..n, S # {}
  PROVE  Max(S) \in S /\ \A x \in S : Max(S) >= x
<1> DEFINE T == {k \in Nat : n - k \in S}
<1>1. PICK v : v \in S
  OBVIOUS
<1>2. n - v \in Nat /\ n - (n - v) = v
  BY <1>1
<1>3. n - v \in T /\ T \subseteq Nat
  BY <1>1, <1>2
<1>4. Min(T) \in T /\ \A l \in T : Min(T) <= l
  BY <1>3, LeastOf
<1>5. n - Min(T) \in S /\ Min(T) \in Nat
  BY <1>4
<1>6. ASSUME NEW x \in S
      PROVE  n - Min(T) >= x
  <2>1. n - x \in Nat /\ n - (n - x) = x /\ x \in Nat
    OBVIOUS
  <2>2. n - x \in T
    BY <2>1
  <2> QED
    BY <1>4, <1>5, <2>1, <2>2
<1> HIDE DEF T
<1> QED
  BY <1>5, <1>6 DEF Max

(* The messages before some offsets.                                       *)
LEMMA BeforeIs ==
  ASSUME NEW w, NEW o, \A p \in PartsOf(w) \cap DOMAIN o : o[p] \in Nat, NEW m
  PROVE  m \in Before(w, o) <=>
           \E p \in PartsOf(w) \cap DOMAIN o, i \in Nat : m = <<p, i>> /\ StartAt <= i /\ i < o[p]
<1>1. m \in Before(w, o) <=>
        \E p \in PartsOf(w) \cap DOMAIN o : \E i \in StartAt..(o[p] - 1) : m = <<p, i>>
  BY DEF Before
<1>2. ASSUME NEW p \in PartsOf(w) \cap DOMAIN o, NEW i
      PROVE  i \in StartAt..(o[p] - 1) <=> i \in Nat /\ StartAt <= i /\ i < o[p]
  BY WorkersNumbered
<1> QED
  BY <1>1, <1>2

(* Offsets of no partition, lower ones, and those of the same values.      *)
LEMMA BeforeNone ==
  ASSUME NEW w
  PROVE  Before(w, NoOffsets) = {}
<1>1. DOMAIN NoOffsets = {}
  BY DEF NoOffsets
<1> QED
  BY <1>1 DEF Before

(* Earlier offsets have fewer messages before them.                        *)
LEMMA BeforeLess ==
  ASSUME NEW w, NEW o, NEW n,
         \A p \in PartsOf(w) \cap DOMAIN o :
           p \in DOMAIN n /\ o[p] \in Nat /\ o[p] <= n[p],
         \A p \in PartsOf(w) \cap DOMAIN n : n[p] \in Nat
  PROVE  Before(w, o) \subseteq Before(w, n)
<1> SUFFICES ASSUME NEW m \in Before(w, o) PROVE m \in Before(w, n)
  OBVIOUS
<1>1. PICK p \in PartsOf(w) \cap DOMAIN o, i \in Nat : m = <<p, i>> /\ StartAt <= i /\ i < o[p]
  BY BeforeIs
<1>2. p \in PartsOf(w) \cap DOMAIN n /\ i < n[p]
  BY <1>1
<1> QED
  BY <1>1, <1>2, BeforeIs

---------------------------------------------------------------------------
(* Types                                                                   *)

(* The offsets of one worker are offsets of its partitions.                *)
LEMMA OffsetsAre ==
  ASSUME NEW w \in Workers, NEW o \in OffsetsOf(w)
  PROVE  /\ DOMAIN o \subseteq PartsOf(w) /\ \A p \in DOMAIN o : o[p] \in Nat
         /\ IsOffsets(o)
<1>1. CASE o = NoOffsets
  <2>1. DOMAIN o = {}
    BY <1>1 DEF NoOffsets
  <2> QED
    BY <2>1 DEF IsOffsets
<1>2. CASE o \in [PartsOf(w) -> Nat]
  BY <1>2, WorkersNumbered DEF IsOffsets
<1> QED
  BY <1>1, <1>2 DEF OffsetsOf

(* The elements of a sequence, and the batches of one.                     *)
LEMMA MessageIs ==
  ASSUME NEW S, NEW s \in Seq(S), NEW m \in ToSet(s)
  PROVE  m \in S
BY ElementOfSeq, LenProperties DEF ToSet

(* A batch of a pipeline has messages and offsets of its worker.           *)
LEMMA BatchIs ==
  ASSUME NEW w, NEW q \in Seq(BatchesOf(w)), NEW i \in DOMAIN q
  PROVE  /\ DOMAIN q = 1..Len(q) /\ Len(q) \in Nat /\ i \in 1..Len(q)
         /\ q[i] \in BatchesOf(w)
         /\ q[i].msgs \in Seq(PartsOf(w) \X Nat) /\ Len(q[i].msgs) \in Nat
         /\ ToSet(q[i].msgs) \subseteq PartsOf(w) \X Nat
         /\ q[i].saw \in OffsetsOf(w) /\ q[i].snap \in OffsetsOf(w)
<1>1. DOMAIN q = 1..Len(q) /\ Len(q) \in Nat
  BY LenProperties
<1>2. q[i] \in BatchesOf(w)
  BY <1>1, ElementOfSeq
<1>3. /\ q[i].msgs \in Seq(PartsOf(w) \X Nat)
      /\ q[i].saw \in OffsetsOf(w) /\ q[i].snap \in OffsetsOf(w)
  BY <1>2 DEF BatchesOf
<1>4. Len(q[i].msgs) \in Nat /\ \A m \in ToSet(q[i].msgs) : m \in PartsOf(w) \X Nat
  BY <1>3, LenProperties, MessageIs
<1> QED
  BY <1>1, <1>2, <1>3, <1>4

(* What the shuffle buffer gives comes from it.                            *)
LEMMA Removed ==
  ASSUME NEW S, NEW s \in Seq(S), NEW i \in 1..Len(s)
  PROVE  /\ RemoveAt(s, i) \in Seq(S) /\ Len(RemoveAt(s, i)) = Len(s) - 1
         /\ s[i] \in S
         /\ ToSet(s) = ToSet(RemoveAt(s, i)) \cup {s[i]}
<1> DEFINE a == SubSeq(s, 1, i - 1)
           b == SubSeq(s, i + 1, Len(s))
<1>1. Len(s) \in Nat /\ DOMAIN s = 1..Len(s) /\ \A j \in 1..Len(s) : s[j] \in S
  BY LenProperties, ElementOfSeq
<1>2. a \in Seq(S) /\ Len(a) = i - 1 /\ \A j \in 1..(i - 1) : a[j] = s[j]
  BY <1>1, SubSeqProperties
<1>3. b \in Seq(S) /\ Len(b) = Len(s) - i /\ \A j \in 1..(Len(s) - i) : b[j] = s[i + j]
  <2>1. i + 1 \in Int /\ Len(s) \in Int /\ \A j \in (i + 1)..Len(s) : s[j] \in S
    BY <1>1
  <2>2. /\ b \in Seq(S) /\ Len(b) = IF i + 1 <= Len(s) THEN Len(s) - (i + 1) + 1 ELSE 0
        /\ \A j \in 1..(Len(s) - (i + 1) + 1) : b[j] = s[i + 1 + j - 1]
    BY <2>1, SubSeqProperties
  <2> HIDE DEF b
  <2>3. \A j \in 1..(Len(s) - i) : j \in 1..(Len(s) - (i + 1) + 1) /\ i + 1 + j - 1 = i + j
    BY <1>1
  <2>4. Len(b) = Len(s) - i
    <3>1. CASE i + 1 <= Len(s)
      BY <3>1, <1>1, <2>2
    <3>2. CASE i = Len(s)
      BY <3>2, <1>1, <2>2
    <3>3. PICK l \in Nat : l = Len(s) /\ i \in 1..l
      BY <1>1
    <3>4. i + 1 <= l \/ i = l
      BY <3>3
    <3> QED
      BY <3>1, <3>2, <3>3, <3>4
  <2> QED
    BY <2>2, <2>3, <2>4
<1> HIDE DEF a, b
<1>4. /\ a \o b \in Seq(S) /\ Len(a \o b) = Len(a) + Len(b)
      /\ \A j \in 1..(Len(a) + Len(b)) : (a \o b)[j] = IF j <= Len(a) THEN a[j] ELSE b[j - Len(a)]
  BY <1>2, <1>3, ConcatProperties
<1>5. Len(a \o b) = Len(s) - 1 /\ DOMAIN (a \o b) = 1..(Len(s) - 1)
  <2>1. Len(a \o b) = Len(s) - 1
    BY <1>1, <1>2, <1>3, <1>4
  <2> QED
    BY <2>1, <1>4, LenProperties
<1>6. ASSUME NEW j \in 1..(Len(s) - 1)
      PROVE  (a \o b)[j] = IF j < i THEN s[j] ELSE s[j + 1]
  <2>1. j \in 1..(Len(a) + Len(b))
    BY <1>1, <1>2, <1>3
  <2>2. CASE j < i
    BY <2>1, <2>2, <1>1, <1>2, <1>4
  <2>3. CASE j >= i
    <3>1. (a \o b)[j] = b[j - (i - 1)]
      BY <2>1, <2>3, <1>1, <1>2, <1>4
    <3>2. j - (i - 1) \in 1..(Len(s) - i) /\ i + (j - (i - 1)) = j + 1
      BY <2>3, <1>1
    <3> QED
      BY <3>1, <3>2, <2>3, <1>3
  <2>4. j < i \/ j >= i
    BY <1>1
  <2> QED
    BY <2>2, <2>3, <2>4
<1>7. ToSet(a \o b) \cup {s[i]} \subseteq ToSet(s)
  <2>1. ASSUME NEW j \in 1..(Len(s) - 1)
        PROVE  (a \o b)[j] \in ToSet(s)
    <3>1. j \in 1..Len(s) /\ j + 1 \in 1..Len(s)
      BY <1>1
    <3> QED
      BY <3>1, <1>1, <1>6 DEF ToSet
  <2>2. s[i] \in ToSet(s)
    BY <1>1 DEF ToSet
  <2> QED
    BY <2>1, <2>2, <1>5 DEF ToSet
<1>8. ASSUME NEW j \in 1..Len(s), j # i
      PROVE  s[j] \in ToSet(a \o b)
  <2>1. CASE j < i
    <3>1. j \in 1..(Len(s) - 1)
      BY <2>1, <1>1
    <3>2. (a \o b)[j] = s[j]
      BY <2>1, <3>1, <1>6
    <3> QED
      BY <3>1, <3>2, <1>5 DEF ToSet
  <2>2. CASE j > i
    <3>1. j - 1 \in 1..(Len(s) - 1) /\ ~(j - 1 < i) /\ j - 1 + 1 = j
      BY <2>2, <1>1
    <3>2. (a \o b)[j - 1] = s[j]
      BY <3>1, <1>6
    <3> QED
      BY <3>1, <3>2, <1>5 DEF ToSet
  <2> QED
    BY <2>1, <2>2, <1>8
<1>9. ToSet(s) \subseteq ToSet(a \o b) \cup {s[i]}
  BY <1>1, <1>8 DEF ToSet
<1> QED
  BY <1>1, <1>4, <1>5, <1>7, <1>9 DEF RemoveAt, a, b

(* A sequence with one more element.                                       *)
LEMMA Appended ==
  ASSUME NEW S, NEW s \in Seq(S), NEW e \in S
  PROVE  /\ Append(s, e) \in Seq(S) /\ Len(Append(s, e)) = Len(s) + 1
         /\ DOMAIN Append(s, e) = 1..(Len(s) + 1) /\ Len(s) \in Nat
         /\ \A i \in 1..Len(s) : Append(s, e)[i] = s[i]
         /\ Append(s, e)[Len(s) + 1] = e
         /\ ToSet(Append(s, e)) = ToSet(s) \cup {e}
<1>1. /\ Append(s, e) \in Seq(S) /\ Len(Append(s, e)) = Len(s) + 1
      /\ \A i \in 1..Len(s) : Append(s, e)[i] = s[i]
      /\ Append(s, e)[Len(s) + 1] = e
  BY AppendProperties
<1>2. Len(s) \in Nat /\ DOMAIN s = 1..Len(s) /\ DOMAIN Append(s, e) = 1..(Len(s) + 1)
  BY <1>1, LenProperties
<1>3. \A i \in 1..(Len(s) + 1) : i \in 1..Len(s) \/ i = Len(s) + 1
  BY <1>2
<1>4. \A i \in 1..Len(s) : i \in 1..(Len(s) + 1)
  BY <1>2
<1>5. Len(s) + 1 \in 1..(Len(s) + 1)
  BY <1>2
<1>6. ToSet(Append(s, e)) = ToSet(s) \cup {e}
  BY <1>1, <1>2, <1>3, <1>4, <1>5 DEF ToSet
<1> QED
  BY <1>1, <1>2, <1>6

(* The rest of a sequence.                                                 *)
LEMMA TailIs ==
  ASSUME NEW S, NEW s \in Seq(S), s # <<>>
  PROVE  /\ Head(s) = s[1] /\ s[1] \in S /\ Tail(s) \in Seq(S) /\ Len(s) \in Nat \ {0}
         /\ Len(Tail(s)) = Len(s) - 1 /\ DOMAIN s = 1..Len(s)
         /\ DOMAIN Tail(s) = 1..(Len(s) - 1)
         /\ \A i \in 1..(Len(s) - 1) : Tail(s)[i] = s[i + 1]
<1>1. /\ Head(s) \in S /\ Tail(s) \in Seq(S) /\ Len(Tail(s)) = Len(s) - 1
      /\ \A i \in 1..Len(Tail(s)) : Tail(s)[i] = s[i + 1]
  BY HeadTailProperties
<1>2. Len(s) \in Nat \ {0}
  BY EmptySeq
<1>3. DOMAIN s = 1..Len(s) /\ DOMAIN Tail(s) = 1..(Len(s) - 1)
  BY <1>1, LenProperties
<1>4. Head(s) = s[1] /\ s[1] \in S
  BY <1>2, ElementOfSeq
<1> QED
  BY <1>1, <1>2, <1>3, <1>4

---------------------------------------------------------------------------
(* What stays                                                              *)

(* The bounds of the losses grow, by what one session may lose at a crash. *)
LEMMA Bounds ==
  ASSUME conf \in Confs, crashes \in Nat, conf' = conf, NEW w \in Workers,
         crashes' = crashes \/ crashes' = crashes + 1
  PROVE  /\ LostBefore(w)' \in Nat /\ Ahead(w)' \in Nat
         /\ LostBySlot(w)' \in Nat /\ LostBySave(w)' \in Nat
         /\ LostBefore(w) <= LostBefore(w)' /\ Ahead(w) <= Ahead(w)'
         /\ crashes' = crashes + 1 => LostBefore(w)' = LostBefore(w) + LossOf(w)
         /\ wpc'[w] = wpc[w] \/ (wpc'[w] = "restored" /\ wpc[w] = "down")
               \/ (wpc'[w] = "run" /\ wpc[w] = "restored")
            => LostBySlot(w) <= LostBySlot(w)' /\ LostBySave(w) <= LostBySave(w)'
         /\ crashes' = crashes + 1 => LostBySave(w) <= LostBySave(w)'
<1>1. /\ LossOf(w) \in Nat /\ LostBefore(w) \in Nat /\ Ahead(w) \in Nat
      /\ LostBefore(w) <= Ahead(w)
      /\ (crashes + 1) * LossOf(w) = LostBefore(w) + LossOf(w)
  BY LossNumbers
<1>2. LossOf(w)' = LossOf(w)
  BY DEF LossOf, Unsettled
<1>3. LostBefore(w)' = LostBefore(w) \/ LostBefore(w)' = LostBefore(w) + LossOf(w)
  BY <1>1, <1>2 DEF LostBefore
<1>4. crashes' = crashes + 1 => LostBefore(w)' = LostBefore(w) + LossOf(w)
  BY <1>1, <1>2 DEF LostBefore
<1>5. Ahead(w)' = LostBefore(w)' + (conf.parallel - 1) * BatchSize + conf.shuffle - 1
      /\ Ahead(w) = LostBefore(w) + (conf.parallel - 1) * BatchSize + conf.shuffle - 1
  BY DEF Ahead
<1>6. PICK a \in Nat : a = (conf.parallel - 1) * BatchSize
  BY LossNumbers
<1>7. conf.shuffle \in Nat \ {0}
  BY Settings
<1>8. LostBefore(w)' \in Nat /\ LostBefore(w) <= LostBefore(w)'
  BY <1>1, <1>3
<1>9. Ahead(w)' \in Nat /\ Ahead(w) <= Ahead(w)' /\ LostBefore(w)' <= Ahead(w)'
  BY <1>1, <1>5, <1>6, <1>7, <1>8
<1>10. LostBySlot(w)' = (IF wpc'[w] = "down" THEN LostBefore(w)' ELSE Ahead(w)')
       /\ LostBySlot(w) = (IF wpc[w] = "down" THEN LostBefore(w) ELSE Ahead(w))
  BY DEF LostBySlot
<1>11. LostBySave(w)' = (IF wpc'[w] = "down" THEN LostBefore(w)' ELSE LostBefore(w)' + LossOf(w))
       /\ LostBySave(w) = (IF wpc[w] = "down" THEN LostBefore(w) ELSE LostBefore(w) + LossOf(w))
  BY <1>2 DEF LostBySave
<1> HIDE DEF LostBefore, Ahead, LossOf
<1>12. LostBySlot(w)' \in Nat /\ LostBySave(w)' \in Nat
  BY <1>1, <1>8, <1>9, <1>10, <1>11
<1>13. ASSUME wpc'[w] = wpc[w] \/ (wpc'[w] = "restored" /\ wpc[w] = "down")
                \/ (wpc'[w] = "run" /\ wpc[w] = "restored")
       PROVE  LostBySlot(w) <= LostBySlot(w)' /\ LostBySave(w) <= LostBySave(w)'
  BY <1>1, <1>8, <1>9, <1>10, <1>11, <1>13
<1>14. ASSUME crashes' = crashes + 1
       PROVE  LostBySave(w) <= LostBySave(w)'
  BY <1>1, <1>4, <1>11, <1>14
<1> QED
  BY <1>4, <1>8, <1>9, <1>12, <1>13, <1>14

(* What a worker has, but for what is saved.                               *)
Same(w) ==
  /\ wpc'[w] = wpc[w] /\ fetch'[w] = fetch[w] /\ raw'[w] = raw[w]
  /\ pipe'[w] = pipe[w] /\ hand'[w] = hand[w] /\ ops'[w] = ops[w] /\ slot'[w] = slot[w]
  /\ \A p \in PartsOf(w) : next'[p] = next[p] /\ off'[p] = off[p]

(* Nothing is lost of a worker that has taken no step: what the variables  *)
(* know only grows.                                                        *)
LEMMA Stays ==
  ASSUME Shapes, Shapes', conf' = conf, crashes' = crashes \/ crashes' = crashes + 1,
         Known \subseteq Known', NEW w \in Workers, Same(w), InOrder(w), LossesLive(w)
  PROVE  InOrder(w)' /\ LossesLive(w)'
<1>1. Typed(w)' /\ Emptied(w)' /\ Sized(w)'
  BY DEF Same, InOrder, Typed, Emptied, Sized
<1>2. Behind(w)'
  <2>1. \A p \in PartsOf(w) : off'[p] <= next'[p]
    BY DEF Same, InOrder, Behind
  <2>2. ASSUME NEW m \in ToSet(raw[w])
        PROVE  m[2] < next'[m[1]]
    <3>1. m \in PartsOf(w) \X Nat
      BY MessageIs DEF InOrder, Typed
    <3> QED
      BY <3>1 DEF Same, InOrder, Behind
  <2>3. ASSUME NEW i \in DOMAIN pipe[w], NEW m \in ToSet(pipe[w][i].msgs)
        PROVE  m[2] < next'[m[1]]
    <3>1. m \in PartsOf(w) \X Nat
      BY BatchIs DEF InOrder, Typed
    <3> QED
      BY <3>1 DEF Same, InOrder, Behind
  <2> QED
    BY <2>1, <2>2, <2>3 DEF Same, Behind
<1>3. /\ InHand(w)' = InHand(w) /\ InFlight(w)' = InFlight(w)
      /\ \A i \in DOMAIN pipe[w] : InPipe(w, i)' = InPipe(w, i)
  BY DEF Same, InHand, InFlight, InPipe
<1>4. Applied(w)'
  BY <1>3 DEF Same, InOrder, Applied
<1>5. /\ LostBefore(w) \in Nat /\ LostBefore(w)' \in Nat /\ LostBefore(w) <= LostBefore(w)'
      /\ Ahead(w) \in Nat /\ Ahead(w)' \in Nat /\ Ahead(w) <= Ahead(w)'
      /\ LostBySlot(w) \in Nat /\ LostBySlot(w)' \in Nat /\ LostBySlot(w) <= LostBySlot(w)'
  BY Bounds, LossNumbers DEF Shapes, Same
<1>6. LostRead(w)'
  <2>1. Before(w, next') = Before(w, next)
    <3>1. DOMAIN next = Partitions /\ DOMAIN next' = Partitions
      BY DEF Shapes
    <3> QED
      BY <3>1 DEF Same, Before
  <2>2. CASE wpc[w] = "down"
    BY <2>2 DEF Same, LostRead
  <2>3. CASE wpc[w] # "down"
    <3>1. AtMost(Before(w, next) \ (Known \cup InFlight(w)), LostBefore(w))
      BY <2>3 DEF LossesLive, LostRead
    <3>2. Before(w, next') \ (Known' \cup InFlight(w)') \subseteq Before(w, next) \ (Known \cup InFlight(w))
      BY <1>3, <2>1
    <3>3. AtMost(Before(w, next') \ (Known' \cup InFlight(w)'), LostBefore(w)')
      BY <1>5, <3>1, <3>2, AtMostLess
    <3> QED
      BY <3>3 DEF LostRead
  <2> QED
    BY <2>2, <2>3
<1>7. LostPipe(w)'
  <2>1. ASSUME NEW i \in DOMAIN pipe[w]
        PROVE  AtMost(Before(w, pipe[w][i].snap) \ (Known' \cup InHand(w) \cup InPipe(w, i)), Ahead(w)')
    <3>1. AtMost(Before(w, pipe[w][i].snap) \ (Known \cup InHand(w) \cup InPipe(w, i)), Ahead(w))
      BY DEF LossesLive, LostPipe
    <3>2. Before(w, pipe[w][i].snap) \ (Known' \cup InHand(w) \cup InPipe(w, i))
            \subseteq Before(w, pipe[w][i].snap) \ (Known \cup InHand(w) \cup InPipe(w, i))
      OBVIOUS
    <3> QED
      BY <1>5, <3>1, <3>2, AtMostLess
  <2> QED
    BY <1>3, <2>1 DEF Same, LostPipe
<1>8. LostHand(w)'
  <2>1. ASSUME NEW i \in DOMAIN hand[w]
        PROVE  AtMost(Before(w, hand[w][i].snap) \ (Known' \cup InHand(w)), Ahead(w)')
    <3>1. AtMost(Before(w, hand[w][i].snap) \ (Known \cup InHand(w)), Ahead(w))
      BY DEF LossesLive, LostHand
    <3>2. Before(w, hand[w][i].snap) \ (Known' \cup InHand(w))
            \subseteq Before(w, hand[w][i].snap) \ (Known \cup InHand(w))
      OBVIOUS
    <3> QED
      BY <1>5, <3>1, <3>2, AtMostLess
  <2> QED
    BY <1>3, <2>1 DEF Same, LostHand
<1>9. LostSlot(w)'
  <2>1. AtMost(Before(w, slot[w]) \ (Known \cup InHand(w)), LostBySlot(w))
    BY DEF LossesLive, LostSlot
  <2>2. Before(w, slot[w]) \ (Known' \cup InHand(w)) \subseteq Before(w, slot[w]) \ (Known \cup InHand(w))
    OBVIOUS
  <2>3. AtMost(Before(w, slot[w]) \ (Known' \cup InHand(w)), LostBySlot(w)')
    BY <1>5, <2>1, <2>2, AtMostLess
  <2> QED
    BY <1>3, <2>3 DEF Same, LostSlot
<1> QED
  BY <1>1, <1>2, <1>4, <1>6, <1>7, <1>8, <1>9 DEF InOrder, LossesLive

(* What is saved of a worker stays as good when nothing is saved.          *)
LEMMA StaysSaved ==
  ASSUME Shapes, conf' = conf, crashes' = crashes \/ crashes' = crashes + 1,
         Known \subseteq Known', early \subseteq early', NEW w \in Workers,
         UNCHANGED <<spc, saving>> \/ spc' \in {"idle", "offsets"}, UNCHANGED diskVars,
         \/ crashes' = crashes + 1 \/ wpc'[w] = wpc[w]
         \/ wpc'[w] = "restored" /\ wpc[w] = "down"
         \/ wpc'[w] = "run" /\ wpc[w] = "restored",
         LossesSaved(w)
  PROVE  LossesSaved(w)'
<1>1. /\ LostBySave(w) \in Nat /\ LostBySave(w)' \in Nat /\ LostBySave(w) <= LostBySave(w)'
  BY Bounds, LossNumbers DEF Shapes
<1>2. LostSaved(w)'
  <2>1. SUFFICES ASSUME ckpt.step \in DOMAIN file
                 PROVE  AtMost(Before(w, file[ckpt.step]) \ (ckpt.model \cup early'), LostBySave(w)')
    BY DEF LostSaved, diskVars
  <2>2. AtMost(Before(w, file[ckpt.step]) \ (ckpt.model \cup early), LostBySave(w))
    BY <2>1 DEF LossesSaved, LostSaved
  <2>3. Before(w, file[ckpt.step]) \ (ckpt.model \cup early')
          \subseteq Before(w, file[ckpt.step]) \ (ckpt.model \cup early)
    OBVIOUS
  <2> QED
    BY <1>1, <2>2, <2>3, AtMostLess
<1>3. LostSaving(w)'
  <2>1. CASE spc' \in {"idle", "offsets"}
    BY <2>1 DEF LostSaving
  <2>2. CASE spc' \notin {"idle", "offsets"}
    <3>1. SUFFICES ASSUME spc \in {"file", "vars"}
                   PROVE  /\ AtMost(Before(w, saving.off) \ Known', LostBySave(w)')
                          /\ saving.step = ckpt.step =>
                               AtMost(Before(w, saving.off) \ (ckpt.model \cup early'), LostBySave(w)')
      BY <2>2 DEF LostSaving, diskVars
    <3>2. /\ AtMost(Before(w, saving.off) \ Known, LostBySave(w))
          /\ saving.step = ckpt.step =>
               AtMost(Before(w, saving.off) \ (ckpt.model \cup early), LostBySave(w))
      BY <3>1 DEF LossesSaved, LostSaving
    <3>3. /\ Before(w, saving.off) \ Known' \subseteq Before(w, saving.off) \ Known
          /\ Before(w, saving.off) \ (ckpt.model \cup early')
               \subseteq Before(w, saving.off) \ (ckpt.model \cup early)
      OBVIOUS
    <3>4. AtMost(Before(w, saving.off) \ Known', LostBySave(w)')
      BY <1>1, <3>2, <3>3, AtMostLess
    <3>5. ASSUME saving.step = ckpt.step
          PROVE  AtMost(Before(w, saving.off) \ (ckpt.model \cup early'), LostBySave(w)')
      BY <1>1, <3>2, <3>3, <3>5, AtMostLess
    <3> QED
      BY <3>4, <3>5
  <2> QED
    BY <2>1, <2>2
<1> QED
  BY <1>2, <1>3 DEF LossesSaved

(* A worker has one batch in hand, or none.                                *)
LEMMA HandIs ==
  ASSUME NEW w, InOrder(w)
  PROVE  \/ hand[w] = <<>> /\ InHand(w) = {} /\ ops[w] = {}
         \/ /\ DOMAIN hand[w] = {1} /\ InHand(w) = ToSet(hand[w][1].msgs)
            /\ wpc[w] = "run" /\ hand[w][1] \in BatchesOf(w)
<1>1. /\ Len(hand[w]) \in Nat /\ DOMAIN hand[w] = 1..Len(hand[w]) /\ Len(hand[w]) <= 1
      /\ hand[w] \in Seq(BatchesOf(w))
  BY LenProperties DEF InOrder, Typed
<1>2. CASE Len(hand[w]) = 0
  <2>1. hand[w] = <<>>
    BY <1>1, <1>2, EmptySeq
  <2> QED
    BY <1>1, <2>1 DEF InHand, InOrder, Typed
<1>3. CASE Len(hand[w]) = 1
  <2>1. DOMAIN hand[w] = {1}
    BY <1>1, <1>3
  <2>2. hand[w] # <<>>
    BY <2>1
  <2>3. InHand(w) = ToSet(hand[w][1].msgs)
    BY <2>1 DEF InHand
  <2> QED
    BY <1>1, <2>1, <2>2, <2>3, BatchIs DEF InOrder, Emptied
<1>4. \A n \in Nat : n <= 1 => n = 0 \/ n = 1
  OBVIOUS
<1>5. Len(hand[w]) = 0 \/ Len(hand[w]) = 1
  BY <1>1, <1>4, Zenon
<1> QED
  BY <1>2, <1>3, <1>5

(* A worker has one batch in hand at most.                                 *)
LEMMA HandSmall ==
  ASSUME StreamInv, NEW w \in Workers
  PROVE  AtMost(InHand(w), BatchSize)
<1>1. InOrder(w)
  BY DEF StreamInv
<1>2. CASE InHand(w) = {}
  BY <1>2, AtMostNone, WorkersNumbered
<1>3. CASE DOMAIN hand[w] = {1} /\ InHand(w) = ToSet(hand[w][1].msgs)
  <2>1. /\ hand[w][1].msgs \in Seq(PartsOf(w) \X Nat) /\ Len(hand[w][1].msgs) \in Nat
        /\ Len(hand[w][1].msgs) <= BatchSize
    BY <1>1, <1>3, BatchIs DEF InOrder, Typed, Sized
  <2>2. AtMost(ToSet(hand[w][1].msgs), Len(hand[w][1].msgs))
    BY <2>1, AtMostLen
  <2> QED
    BY <1>3, <2>1, <2>2, AtMostLess, WorkersNumbered
<1> QED
  BY <1>1, <1>2, <1>3, HandIs

(* No two workers have the same partition.                                 *)
LEMMA OwnParts ==
  ASSUME NEW v, NEW w, v # w, NEW p \in PartsOf(w)
  PROVE  p \notin PartsOf(v) /\ p \in Partitions /\ p % NumWorkers = w
BY DEF PartsOf

(* A step of one worker in its loop, that saves nothing.                   *)
LEMMA OneWorker ==
  ASSUME StreamInv, NEW v \in Workers, wpc[v] = "run", Shapes',
         UNCHANGED <<conf, wpc, saveVars, diskVars, crashes>>,
         Known \subseteq Known', early \subseteq early',
         \A w \in Workers \ {v} : Same(w),
         InOrder(v)', LossesLive(v)', Saves'
  PROVE  StreamInv'
<1>1. ChiefRuns'
  BY DEF StreamInv, ChiefRuns
<1>2. ASSUME NEW w \in Workers
      PROVE  InOrder(w)' /\ LossesLive(w)'
  <2>1. CASE w = v
    BY <2>1
  <2>2. CASE w # v
    BY <2>2, Stays DEF StreamInv
  <2> QED
    BY <2>1, <2>2
<1>3. ASSUME NEW w \in Workers
      PROVE  LossesSaved(w)'
  BY StaysSaved DEF StreamInv, saveVars
<1> QED
  BY <1>1, <1>2, <1>3 DEF StreamInv

(* Nothing more is saved and the variables do not change.                  *)
LEMMA SavesStay ==
  ASSUME Saves, UNCHANGED <<saveVars, diskVars, model, early>>,
         wpc'[Chief] = "run" => wpc[Chief] = "run",
         spc # "idle" => hand'[Chief] = hand[Chief]
  PROVE  Saves'
<1>1. Resaving' <=> Resaving
  BY DEF saveVars, diskVars, Resaving
<1> QED
  BY <1>1 DEF Saves, saveVars, diskVars

---------------------------------------------------------------------------
(* Start, restart and crash                                                *)

(* A worker that restarts takes its offsets from the checkpoint's file, or *)
(* the configured ones: it has lost what LostSaved says.                   *)
LEMMA RestoreKeeps ==
  ASSUME StreamInv, NEW v \in Workers, Restore(v)
  PROVE  StreamInv'
<1> DEFINE o == file[ckpt.step]
<1>1. /\ wpc[v] = "down" /\ wpc' = [wpc EXCEPT ![v] = "restored"]
      /\ off' = [p \in Partitions |-> IF p \in PartsOf(v) THEN StartOffset(p) ELSE off[p]]
      /\ next' = [p \in Partitions |-> IF p \in PartsOf(v) THEN off'[p] ELSE next[p]]
      /\ UNCHANGED <<conf, fetch, raw, pipe, hand, ops, model, gstep, slot, spc, saving,
                     lastSaved, ckpt, file, done, early, crashes>>
  BY DEF Restore, pipeVars, psVars, saveVars, diskVars, pastVars
<1>2. /\ wpc \in [Workers -> {"down", "restored", "run"}]
      /\ next \in [Partitions -> Nat] /\ off \in [Partitions -> Nat]
      /\ \A n \in DOMAIN file : IsOffsets(file[n])
      /\ PartsOf(v) \subseteq Partitions /\ StartAt \in Nat /\ Shapes /\ conf \in Confs
  BY WorkersNumbered DEF StreamInv, Shapes
<1>3. ASSUME NEW p \in PartsOf(v)
      PROVE  /\ StartOffset(p) \in Nat
             /\ StartOffset(p) > StartAt =>
                  ckpt.step \in DOMAIN file /\ p \in DOMAIN o /\ StartOffset(p) = o[p]
  <2>1. CASE ckpt.step \notin DOMAIN file
    BY <1>2, <2>1 DEF StartOffset
  <2>2. CASE ckpt.step \in DOMAIN file
    <3>1. StartOffset(p) = StartOf(p, o) /\ (p \in DOMAIN o => o[p] \in Nat)
      BY <1>2, <2>2 DEF StartOffset, IsOffsets
    <3> HIDE DEF o
    <3>2. CASE conf.input = "kafka" /\ p \in DOMAIN o
      BY <1>2, <2>2, <3>1, <3>2 DEF StartOf
    <3>3. CASE conf.input = "kafka" /\ p \notin DOMAIN o
      BY <1>2, <2>2, <3>1, <3>3 DEF StartOf
    <3>4. CASE conf.input # "kafka" /\ p \in DOMAIN o /\ o[p] > StartAt
      BY <1>2, <2>2, <3>1, <3>4 DEF StartOf
    <3>5. CASE conf.input # "kafka" /\ ~(p \in DOMAIN o /\ o[p] > StartAt)
      BY <1>2, <2>2, <3>1, <3>5 DEF StartOf
    <3> QED
      BY <3>2, <3>3, <3>4, <3>5
  <2> QED
    BY <2>1, <2>2
<1>4. \A p \in PartsOf(v) : off'[p] = StartOffset(p) /\ next'[p] = StartOffset(p)
  BY <1>1, <1>2
<1>5. next' \in [Partitions -> Nat] /\ off' \in [Partitions -> Nat]
  <2>1. \A p \in Partitions : off'[p] \in Nat
    BY <1>1, <1>2, <1>3
  <2>2. \A p \in Partitions : next'[p] \in Nat
    BY <1>1, <1>2, <2>1
  <2> QED
    BY <1>1, <2>1, <2>2
<1>6. Shapes'
  <2>1. wpc' \in [Workers -> {"down", "restored", "run"}]
    BY <1>1, <1>2
  <2> QED
    BY <1>1, <1>2, <1>5, <2>1 DEF Shapes
<1>7. /\ Known' = Known /\ wpc'[v] = "restored"
      /\ \A w \in Workers \ {v} : wpc'[w] = wpc[w]
  BY <1>1, <1>2, WorkersNumbered DEF Known
<1>8. ASSUME NEW w \in Workers, w # v
      PROVE  InOrder(w)' /\ LossesLive(w)'
  <2>1. \A p \in PartsOf(w) : next'[p] = next[p] /\ off'[p] = off[p]
    BY <1>1, <1>8, OwnParts
  <2>2. Same(w)
    BY <1>1, <1>7, <1>8, <2>1 DEF Same
  <2> QED
    BY <1>1, <1>2, <1>6, <1>7, <2>2, Stays DEF StreamInv
<1>9. ChiefRuns'
  BY <1>1, <1>2, <1>7, WorkersNumbered DEF StreamInv, ChiefRuns
<1>10. Saves'
  <2>1. wpc'[Chief] = "run" => wpc[Chief] = "run"
    BY <1>1, <1>7, WorkersNumbered
  <2> QED
    BY <1>1, <2>1, SavesStay DEF StreamInv, saveVars, diskVars
<1>11. InOrder(v)'
  <2>1. InOrder(v) /\ Emptied(v) /\ raw[v] = <<>> /\ pipe[v] = <<>>
    BY <1>1 DEF StreamInv, InOrder, Emptied
  <2>2. Typed(v)' /\ Sized(v)' /\ Emptied(v)'
    BY <1>1, <1>7, <2>1 DEF InOrder, Typed, Sized, Emptied
  <2>3. Behind(v)'
    <3>1. ToSet(raw'[v]) = {} /\ DOMAIN pipe'[v] = {}
      BY <1>1, <2>1 DEF ToSet
    <3> QED
      BY <1>3, <1>4, <3>1 DEF Behind
  <2>4. Applied(v)'
    BY <1>1, <1>7, <2>1 DEF InOrder, Applied, InHand
  <2> QED
    BY <2>2, <2>3, <2>4 DEF InOrder
<1>12. LossesLive(v)'
  <2>1. LossesLive(v) /\ Emptied(v) /\ pipe[v] = <<>> /\ hand[v] = <<>>
    BY <1>1 DEF StreamInv, InOrder, Emptied
  <2>2. LostPipe(v)' /\ LostHand(v)'
    BY <1>1, <2>1 DEF LostPipe, LostHand
  <2>3. /\ LostBySlot(v) \in Nat /\ LostBySlot(v)' \in Nat /\ LostBySlot(v) <= LostBySlot(v)'
        /\ LostBefore(v)' = LostBefore(v) /\ LostBefore(v) \in Nat
    <3>1. LostBefore(v)' = LostBefore(v)
      BY <1>1 DEF LostBefore, LossOf, Unsettled
    <3> QED
      BY <1>1, <1>2, <1>7, <3>1, Bounds, LossNumbers DEF Shapes
  <2>4. LostSlot(v)'
    <3>1. AtMost(Before(v, slot[v]) \ (Known \cup InHand(v)), LostBySlot(v)')
      BY <2>1, <2>3, AtMostLess DEF LossesLive, LostSlot
    <3> QED
      BY <1>1, <1>7, <3>1 DEF LostSlot, InHand
  <2>5. AtMost(Before(v, next') \ (Known \cup InFlight(v)'), LostBefore(v))
    <3>1. CASE ckpt.step \in DOMAIN file
      <4>1. AtMost(Before(v, o) \ (ckpt.model \cup early), LostBefore(v))
        BY <1>1, <3>1 DEF StreamInv, LossesSaved, LostSaved, LostBySave
      <4>2. Before(v, next') \subseteq Before(v, o)
        <5> SUFFICES ASSUME NEW m \in Before(v, next') PROVE m \in Before(v, o)
          OBVIOUS
        <5>1. PICK p \in PartsOf(v) \cap DOMAIN next', i \in Nat :
                m = <<p, i>> /\ StartAt <= i /\ i < next'[p]
          BY <1>2, <1>5, BeforeIs
        <5>2. next'[p] = StartOffset(p) /\ StartOffset(p) \in Nat
          BY <1>3, <1>4
        <5>3. StartOffset(p) > StartAt
          BY <1>2, <5>1, <5>2
        <5>4. p \in DOMAIN o /\ i < o[p]
          BY <1>3, <5>1, <5>2, <5>3
        <5>5. \A q \in DOMAIN o : o[q] \in Nat
          BY <1>2, <3>1 DEF IsOffsets
        <5> QED
          BY <5>1, <5>4, <5>5, BeforeIs
      <4>3. ckpt.model \cup early \subseteq Known
        BY DEF StreamInv, Saves, Known
      <4>4. Before(v, next') \ (Known \cup InFlight(v)') \subseteq Before(v, o) \ (ckpt.model \cup early)
        BY <4>2, <4>3
      <4> QED
        BY <2>3, <4>1, <4>4, AtMostLess
    <3>2. CASE ckpt.step \notin DOMAIN file
      <4>1. ASSUME NEW m \in Before(v, next')
            PROVE  FALSE
        <5>1. PICK p \in PartsOf(v) \cap DOMAIN next', i \in Nat :
                m = <<p, i>> /\ StartAt <= i /\ i < next'[p]
          BY <1>2, <1>5, <4>1, BeforeIs
        <5>2. next'[p] = StartOffset(p) /\ StartOffset(p) \in Nat
          BY <1>3, <1>4
        <5>3. StartOffset(p) > StartAt
          BY <1>2, <5>1, <5>2
        <5> QED
          BY <1>3, <3>2, <5>3
      <4>2. Before(v, next') \ (Known \cup InFlight(v)') = {}
        BY <4>1
      <4> QED
        BY <2>3, <4>2, AtMostNone
    <3> QED
      BY <3>1, <3>2
  <2>6. LostRead(v)'
    BY <1>7, <2>3, <2>5 DEF LostRead
  <2> QED
    BY <2>2, <2>4, <2>6 DEF LossesLive
<1>13. ASSUME NEW w \in Workers
       PROVE  LossesSaved(w)'
  BY <1>1, <1>2, <1>7, StaysSaved DEF StreamInv, diskVars
<1> QED
  BY <1>6, <1>8, <1>9, <1>10, <1>11, <1>12, <1>13 DEF StreamInv

(* Joining the chief's session changes nothing else.                       *)
LEMMA WorkerSessionKeeps ==
  ASSUME StreamInv, NEW v \in Workers, WorkerSession(v)
  PROVE  StreamInv'
<1>1. /\ v # Chief /\ wpc[v] = "restored" /\ wpc[Chief] = "run"
      /\ wpc' = [wpc EXCEPT ![v] = "run"]
      /\ UNCHANGED <<conf, next, off, fetch, raw, pipe, hand, ops, model, gstep, slot, spc, saving,
                     lastSaved, ckpt, file, done, early, crashes>>
  BY DEF WorkerSession, readVars, pipeVars, psVars, saveVars, diskVars, pastVars
<1>2. wpc \in [Workers -> {"down", "restored", "run"}] /\ Chief \in Workers
  BY WorkersNumbered DEF StreamInv, Shapes
<1>3. wpc'[v] = "run" /\ wpc'[Chief] = "run" /\ \A w \in Workers \ {v} : wpc'[w] = wpc[w]
  BY <1>1, <1>2
<1>4. Shapes'
  BY <1>1, <1>2 DEF StreamInv, Shapes
<1>5. Known' = Known
  BY <1>1, <1>3 DEF Known
<1>6. ASSUME NEW w \in Workers, w # v
      PROVE  InOrder(w)' /\ LossesLive(w)'
  <2>1. Same(w)
    BY <1>1, <1>3, <1>6 DEF Same
  <2> QED
    BY <1>1, <1>4, <1>5, <2>1, Stays DEF StreamInv
<1>7. ChiefRuns' /\ Saves'
  BY <1>1, <1>3, SavesStay DEF StreamInv, ChiefRuns, saveVars, diskVars
<1>8. InOrder(v)'
  <2>1. Typed(v)' /\ Sized(v)' /\ Emptied(v)' /\ Behind(v)'
    BY <1>1, <1>3 DEF StreamInv, InOrder, Typed, Sized, Emptied, Behind
  <2>2. Applied(v)'
    BY <1>1, <1>5 DEF StreamInv, InOrder, Applied, InHand
  <2> QED
    BY <2>1, <2>2 DEF InOrder
<1>9. LossesLive(v)'
  <2>1. /\ Ahead(v)' = Ahead(v) /\ LostBefore(v)' = LostBefore(v)
        /\ InHand(v)' = InHand(v) /\ InFlight(v)' = InFlight(v)
        /\ \A i \in DOMAIN pipe[v] : InPipe(v, i)' = InPipe(v, i)
    BY <1>1 DEF Ahead, LostBefore, LossOf, Unsettled, InHand, InFlight, InPipe
  <2>2. LostBySlot(v)' = LostBySlot(v)
    BY <1>1, <1>3, <2>1 DEF LostBySlot
  <2>3. LostPipe(v)' /\ LostHand(v)' /\ LostSlot(v)'
    BY <1>1, <1>5, <2>1, <2>2 DEF StreamInv, LossesLive, LostPipe, LostHand, LostSlot
  <2>4. LostRead(v)'
    BY <1>1, <1>3, <1>5, <2>1 DEF StreamInv, LossesLive, LostRead
  <2> QED
    BY <2>3, <2>4 DEF LossesLive
<1>10. ASSUME NEW w \in Workers
       PROVE  LossesSaved(w)'
  BY <1>1, <1>3, <1>5, StaysSaved DEF StreamInv, Shapes, diskVars
<1> QED
  BY <1>4, <1>6, <1>7, <1>8, <1>9, <1>10 DEF StreamInv

(* The chief goes back to the variables of the checkpoint, with empty      *)
(* slots; what is known is what it was when the job was down.              *)
LEMMA ChiefSessionKeeps ==
  ASSUME StreamInv, ChiefSession
  PROVE  StreamInv'
<1>1. /\ wpc[Chief] = "restored" /\ wpc' = [wpc EXCEPT ![Chief] = "run"]
      /\ model' = ckpt.model /\ gstep' = (IF ckpt = NoCkpt THEN 0 ELSE ckpt.step)
      /\ slot' = [w \in Workers |-> NoOffsets] /\ spc' = "offsets" /\ lastSaved' = gstep'
      /\ saving' = [NoSave EXCEPT !.step = gstep']
      /\ UNCHANGED <<conf, next, off, fetch, raw, pipe, hand, ops, ckpt, file, done, early, crashes>>
  BY DEF ChiefSession, readVars, pipeVars, diskVars, pastVars
<1>2. wpc \in [Workers -> {"down", "restored", "run"}] /\ Chief \in Workers /\ Shapes
  BY WorkersNumbered DEF StreamInv, Shapes
<1>3. /\ wpc'[Chief] = "run" /\ \A w \in Workers \ {Chief} : wpc'[w] = wpc[w]
      /\ \A w \in Workers : wpc[w] # "run"
  BY <1>1, <1>2 DEF StreamInv, ChiefRuns
<1>4. gstep' \in Nat /\ ckpt.step <= gstep'
  <2>1. CASE ckpt = NoCkpt
    BY <1>1, <2>1 DEF NoCkpt
  <2>2. CASE ckpt # NoCkpt
    BY <1>1, <1>2, <2>2 DEF Shapes
  <2> QED
    BY <2>1, <2>2
<1>5. saving' = [step |-> gstep', off |-> NoOffsets] /\ IsOffsets(NoOffsets)
  <2>1. DOMAIN NoOffsets = {}
    BY DEF NoOffsets
  <2> QED
    BY <1>1, <2>1 DEF NoSave, IsOffsets
<1>6. Shapes'
  <2>1. wpc' \in [Workers -> {"down", "restored", "run"}] /\ DOMAIN slot' = Workers
    BY <1>1, <1>2
  <2>2. DOMAIN saving' = {"step", "off"} /\ saving'.step \in Nat /\ IsOffsets(saving'.off)
    BY <1>4, <1>5
  <2> QED
    BY <1>1, <1>2, <1>4, <2>1, <2>2 DEF Shapes
<1>7. Known' = Known
  BY <1>1, <1>3 DEF Known
<1>8. ASSUME NEW w \in Workers
      PROVE  InOrder(w)' /\ LossesLive(w)'
  <2>1. /\ fetch'[w] = <<>> /\ raw'[w] = <<>> /\ pipe'[w] = <<>> /\ hand'[w] = <<>> /\ ops'[w] = {}
        /\ InOrder(w) /\ LossesLive(w)
    BY <1>1, <1>3 DEF StreamInv, InOrder, Emptied
  <2>2. slot'[w] = NoOffsets
    BY <1>1
  <2>3. Typed(w)' /\ Sized(w)' /\ Emptied(w)' /\ Behind(w)'
    BY <1>1, <1>3, <2>1, <2>2 DEF InOrder, Typed, Sized, Emptied, Behind, OffsetsOf
  <2>4. Applied(w)'
    BY <1>1, <1>7, <2>1 DEF InOrder, Applied, InHand
  <2>5. /\ LostBefore(w)' = LostBefore(w) /\ InFlight(w)' = InFlight(w)
    BY <1>1 DEF LostBefore, LossOf, Unsettled, InHand, InFlight, InPipe
  <2>6. LostPipe(w)' /\ LostHand(w)'
    BY <2>1 DEF LostPipe, LostHand
  <2>7. LostSlot(w)'
    <3>1. Before(w, slot'[w]) \ (Known' \cup InHand(w)') = {} /\ LostBySlot(w)' \in Nat
      BY <1>1, <1>2, <2>2, BeforeNone, Bounds DEF Shapes
    <3> QED
      BY <3>1, AtMostNone DEF LostSlot
  <2>8. wpc'[w] # "down" => wpc[w] # "down"
    BY <1>1, <1>3
  <2>9. LostRead(w)'
    BY <1>1, <1>7, <2>1, <2>5, <2>8 DEF LossesLive, LostRead
  <2> QED
    BY <2>3, <2>4, <2>6, <2>7, <2>9 DEF InOrder, LossesLive
<1>9. ChiefRuns'
  BY <1>3 DEF ChiefRuns
<1>10. Saves'
  <2>1. saving'.step = lastSaved' /\ hand'[Chief] = <<>>
    BY <1>1, <1>2, <1>3, <1>5 DEF StreamInv, InOrder, Emptied
  <2>2. ckpt' # NoCkpt => ckpt'.step \in DOMAIN file'
    BY <1>1 DEF StreamInv, Saves
  <2> QED
    BY <1>1, <1>4, <2>1, <2>2 DEF Saves
<1>11. ASSUME NEW w \in Workers
       PROVE  LossesSaved(w)'
  <2>1. wpc'[w] = wpc[w] \/ (wpc'[w] = "run" /\ wpc[w] = "restored")
    BY <1>1, <1>3
  <2> QED
    BY <1>1, <1>2, <1>7, <2>1, StaysSaved DEF StreamInv, Shapes, diskVars
<1> QED
  BY <1>6, <1>8, <1>9, <1>10, <1>11 DEF StreamInv

(* A process is gone, with what it had read.                               *)
LEMMA DeadIs ==
  ASSUME StreamInv, NEW ws \in SUBSET Workers, Dead(ws), conf' = conf, NEW w \in ws,
         \/ slot'[w] = NoOffsets
         \/ slot'[w] = slot[w] /\ w # Chief /\ Known \subseteq Known'
  PROVE  InOrder(w)' /\ LossesLive(w)'
<1>1. /\ wpc'[w] = "down" /\ fetch'[w] = <<>> /\ raw'[w] = <<>> /\ pipe'[w] = <<>> /\ hand'[w] = <<>>
      /\ ops'[w] = {} /\ crashes' = crashes + 1 /\ w \in Workers
      /\ \A p \in PartsOf(w) : next'[p] = StartAt /\ off'[p] = StartAt
  BY OwnParts DEF Dead, PartsOf
<1>2. conf.shuffle \in Nat \ {0} /\ conf \in Confs /\ crashes \in Nat /\ StartAt \in Nat
  BY Settings, WorkersNumbered DEF StreamInv, Shapes
<1>3. InOrder(w) /\ LossesLive(w)
  BY <1>1 DEF StreamInv
<1>4. Typed(w)' /\ Sized(w)' /\ Emptied(w)' /\ Behind(w)'
  <2>1. Typed(w)' /\ Emptied(w)'
    BY <1>1, <1>3 DEF InOrder, Typed, Emptied, OffsetsOf
  <2>2. Sized(w)'
    BY <1>1, <1>2 DEF Sized
  <2>3. ToSet(raw'[w]) = {} /\ DOMAIN pipe'[w] = {}
    BY <1>1 DEF ToSet
  <2>4. Behind(w)'
    BY <1>1, <1>2, <2>3 DEF Behind
  <2> QED
    BY <2>1, <2>2, <2>4
<1>5. InHand(w)' = {} /\ Applied(w)'
  BY <1>1 DEF InHand, Applied
<1>6. LostRead(w)' /\ LostPipe(w)' /\ LostHand(w)'
  BY <1>1 DEF LostRead, LostPipe, LostHand
<1>7. LostSlot(w)'
  <2>1. /\ LostBySlot(w)' = LostBefore(w) + LossOf(w) /\ LostBySlot(w)' \in Nat
        /\ LostBefore(w) \in Nat /\ LossOf(w) \in Nat /\ Ahead(w) \in Nat
        /\ LostBefore(w) <= Ahead(w) /\ LostBySlot(w) \in {LostBefore(w), Ahead(w)}
        /\ Ahead(w) + (IF w = Chief THEN 0 ELSE BatchSize) = LostBefore(w) + LossOf(w)
    BY <1>1, <1>2, LossNumbers, Bounds DEF LostBySlot
  <2>2. CASE slot'[w] = NoOffsets
    BY <1>5, <2>1, <2>2, BeforeNone, AtMostNone DEF LostSlot
  <2>3. CASE slot'[w] = slot[w] /\ w # Chief /\ Known \subseteq Known'
    <3>1. AtMost(Before(w, slot[w]) \ (Known \cup InHand(w)), LostBySlot(w))
      BY <1>3 DEF LossesLive, LostSlot
    <3>2. AtMost(InHand(w), BatchSize)
      BY <1>1, HandSmall
    <3>3. BatchSize \in Nat /\ LostBySlot(w) \in Nat /\ LostBySlot(w) + BatchSize <= LostBySlot(w)'
      BY <2>1, <2>3, WorkersNumbered
    <3>4. AtMost(Before(w, slot[w]) \ Known, LostBySlot(w) + BatchSize)
      BY <3>1, <3>2, <3>3, AtMostBoth
    <3>5. Before(w, slot'[w]) \ (Known' \cup InHand(w)') \subseteq Before(w, slot[w]) \ Known
      BY <2>3
    <3>6. AtMost(Before(w, slot'[w]) \ (Known' \cup InHand(w)'), LostBySlot(w)')
      BY <2>1, <3>3, <3>4, <3>5, AtMostLess
    <3> QED
      BY <3>6 DEF LostSlot
  <2> QED
    BY <2>2, <2>3
<1> QED
  BY <1>4, <1>5, <1>6, <1>7 DEF InOrder, LossesLive

(* A worker dies: what it had in hand may be lost, and the crash pays for  *)
(* it.                                                                     *)
LEMMA WorkerCrashKeeps ==
  ASSUME StreamInv, NEW v \in Workers, WorkerCrash(v)
  PROVE  StreamInv'
<1>1. /\ v # Chief /\ wpc[v] = "run" /\ Dead({v})
      /\ UNCHANGED <<conf, model, gstep, slot, spc, saving, lastSaved, ckpt, file, early>>
  BY DEF WorkerCrash, psVars, saveVars, diskVars
<1>2. /\ wpc \in [Workers -> {"down", "restored", "run"}] /\ Chief \in Workers /\ Shapes
      /\ next \in [Partitions -> Nat] /\ off \in [Partitions -> Nat] /\ crashes \in Nat
      /\ StartAt \in Nat
  BY WorkersNumbered DEF StreamInv, Shapes
<1>3. /\ wpc' = [w \in Workers |-> IF w \in {v} THEN "down" ELSE wpc[w]]
      /\ next' = [p \in Partitions |-> IF p % NumWorkers \in {v} THEN StartAt ELSE next[p]]
      /\ off' = [p \in Partitions |-> IF p % NumWorkers \in {v} THEN StartAt ELSE off[p]]
      /\ fetch' = [w \in Workers |-> IF w \in {v} THEN <<>> ELSE fetch[w]]
      /\ raw' = [w \in Workers |-> IF w \in {v} THEN <<>> ELSE raw[w]]
      /\ pipe' = [w \in Workers |-> IF w \in {v} THEN <<>> ELSE pipe[w]]
      /\ hand' = [w \in Workers |-> IF w \in {v} THEN <<>> ELSE hand[w]]
      /\ ops' = [w \in Workers |-> IF w \in {v} THEN {} ELSE ops[w]]
      /\ crashes' = crashes + 1
  BY <1>1 DEF Dead
<1>4. wpc'[v] = "down" /\ \A w \in Workers \ {v} : wpc'[w] = wpc[w]
  BY <1>2, <1>3
<1>5. wpc'[Chief] = wpc[Chief] /\ Known' = Known
  BY <1>1, <1>2, <1>4 DEF Known
<1>6. Shapes'
  <2>1. /\ wpc' \in [Workers -> {"down", "restored", "run"}]
        /\ next' \in [Partitions -> Nat] /\ off' \in [Partitions -> Nat]
    BY <1>2, <1>3
  <2>2. /\ DOMAIN fetch' = Workers /\ DOMAIN raw' = Workers /\ DOMAIN pipe' = Workers
        /\ DOMAIN hand' = Workers /\ DOMAIN ops' = Workers /\ crashes' \in Nat
    BY <1>2, <1>3
  <2> QED
    BY <1>1, <1>2, <2>1, <2>2 DEF Shapes
<1>7. ASSUME NEW w \in Workers
      PROVE  InOrder(w)' /\ LossesLive(w)'
  <2>1. CASE w = v
    BY <1>1, <1>5, <2>1, DeadIs
  <2>2. CASE w # v
    <3>1. \A p \in PartsOf(w) : next'[p] = next[p] /\ off'[p] = off[p]
      BY <1>3, <2>2, OwnParts
    <3>2. Same(w)
      BY <1>1, <1>3, <2>2, <3>1 DEF Same
    <3> QED
      BY <1>1, <1>2, <1>3, <1>5, <1>6, <3>2, Stays DEF StreamInv
  <2> QED
    BY <2>1, <2>2
<1>8. ChiefRuns'
  BY <1>1, <1>4, <1>5, <1>2 DEF StreamInv, ChiefRuns
<1>9. Saves'
  <2>1. hand'[Chief] = hand[Chief]
    BY <1>1, <1>2, <1>3
  <2> QED
    BY <1>1, <1>5, <2>1, SavesStay DEF StreamInv, saveVars, diskVars
<1>10. ASSUME NEW w \in Workers
       PROVE  LossesSaved(w)'
  BY <1>1, <1>2, <1>3, <1>5, StaysSaved DEF StreamInv, diskVars
<1> QED
  BY <1>6, <1>7, <1>8, <1>9, <1>10 DEF StreamInv

(* The job dies: what is known goes back to the checkpoint, and the slots  *)
(* are empty.                                                              *)
LEMMA JobCrashKeeps ==
  ASSUME StreamInv, JobCrash
  PROVE  StreamInv'
<1>1. /\ wpc[Chief] = "run" /\ Dead(Workers)
      /\ model' = {} /\ gstep' = 0 /\ slot' = [w \in Workers |-> NoOffsets]
      /\ spc' = "idle" /\ saving' = NoSave /\ lastSaved' = 0
      /\ UNCHANGED <<conf, ckpt, file, early>>
  BY DEF JobCrash, diskVars
<1>2. Chief \in Workers /\ Shapes /\ crashes \in Nat /\ StartAt \in Nat
      /\ \A p \in Partitions : p % NumWorkers \in Workers
  BY WorkersNumbered DEF StreamInv, Shapes
<1>3. /\ wpc' = [w \in Workers |-> IF w \in Workers THEN "down" ELSE wpc[w]]
      /\ next' = [p \in Partitions |-> IF p % NumWorkers \in Workers THEN StartAt ELSE next[p]]
      /\ off' = [p \in Partitions |-> IF p % NumWorkers \in Workers THEN StartAt ELSE off[p]]
      /\ fetch' = [w \in Workers |-> IF w \in Workers THEN <<>> ELSE fetch[w]]
      /\ raw' = [w \in Workers |-> IF w \in Workers THEN <<>> ELSE raw[w]]
      /\ pipe' = [w \in Workers |-> IF w \in Workers THEN <<>> ELSE pipe[w]]
      /\ hand' = [w \in Workers |-> IF w \in Workers THEN <<>> ELSE hand[w]]
      /\ ops' = [w \in Workers |-> IF w \in Workers THEN {} ELSE ops[w]]
      /\ crashes' = crashes + 1
  BY <1>1 DEF Dead
<1>4. \A w \in Workers : wpc'[w] = "down" /\ slot'[w] = NoOffsets
  BY <1>1, <1>3
<1>6. Shapes'
  <2>1. /\ wpc' \in [Workers -> {"down", "restored", "run"}]
        /\ next' \in [Partitions -> Nat] /\ off' \in [Partitions -> Nat]
    BY <1>2, <1>3
  <2>2. /\ DOMAIN fetch' = Workers /\ DOMAIN raw' = Workers /\ DOMAIN pipe' = Workers
        /\ DOMAIN hand' = Workers /\ DOMAIN ops' = Workers /\ crashes' \in Nat
        /\ DOMAIN slot' = Workers
    BY <1>1, <1>2, <1>3
  <2>3. DOMAIN saving' = {"step", "off"} /\ saving'.step \in Nat /\ IsOffsets(saving'.off)
    <3>1. DOMAIN NoOffsets = {}
      BY DEF NoOffsets
    <3> QED
      BY <1>1, <3>1 DEF NoSave, IsOffsets
  <2> QED
    BY <1>1, <1>2, <2>1, <2>2, <2>3 DEF Shapes
<1>7. ASSUME NEW w \in Workers
      PROVE  InOrder(w)' /\ LossesLive(w)'
  BY <1>1, <1>4, DeadIs
<1>8. ChiefRuns'
  BY <1>1, <1>4 DEF ChiefRuns
<1>9. Saves'
  <2>1. ckpt' # NoCkpt => ckpt'.step \in DOMAIN file'
    BY <1>1 DEF StreamInv, Saves
  <2>2. ~Resaving'
    BY <1>1 DEF Resaving
  <2> QED
    BY <1>1, <1>2, <1>4, <2>1, <2>2 DEF Saves
<1>10. ASSUME NEW w \in Workers
       PROVE  LossesSaved(w)'
  <2>1. LostBySave(w) \in Nat /\ LostBySave(w)' \in Nat /\ LostBySave(w) <= LostBySave(w)'
    BY <1>1, <1>2, <1>3, Bounds, LossNumbers DEF Shapes
  <2>2. LostSaved(w)'
    <3>1. ckpt.step \in DOMAIN file =>
            AtMost(Before(w, file[ckpt.step]) \ (ckpt.model \cup early), LostBySave(w)')
      BY <2>1, AtMostLess DEF StreamInv, LossesSaved, LostSaved
    <3> QED
      BY <1>1, <3>1 DEF LostSaved
  <2>3. LostSaving(w)'
    BY <1>1 DEF LostSaving
  <2> QED
    BY <2>2, <2>3 DEF LossesSaved
<1> QED
  BY <1>6, <1>7, <1>8, <1>9, <1>10 DEF StreamInv

---------------------------------------------------------------------------
(* Saving                                                                  *)

(* Saving takes nothing from the workers.                                  *)
LEMMA SaveStays ==
  ASSUME StreamInv, Shapes',
         UNCHANGED <<conf, wpc, readVars, pipeVars, psVars, early, crashes>>,
         Known' = Known, NEW w \in Workers
  PROVE  InOrder(w)' /\ LossesLive(w)'
<1>1. Same(w)
  BY DEF Same, readVars, pipeVars, psVars
<1> QED
  BY <1>1, Stays DEF StreamInv

(* A save begins under a step that is no earlier than the checkpoint's.    *)
LEMMA SaveBeginKeeps ==
  ASSUME StreamInv, SaveBegin
  PROVE  StreamInv'
<1>1. /\ wpc[Chief] = "run" /\ hand[Chief] = <<>> /\ gstep >= lastSaved + SaveSteps
      /\ spc' = "offsets" /\ lastSaved' = gstep /\ saving' = [NoSave EXCEPT !.step = gstep]
      /\ UNCHANGED <<conf, wpc, next, off, fetch, raw, pipe, hand, ops, model, gstep, slot, ckpt, file,
                     done, early, crashes>>
  BY DEF SaveBegin, Running, readVars, pipeVars, psVars, diskVars, pastVars
<1>2. Shapes /\ gstep \in Nat /\ lastSaved \in Nat /\ SaveSteps \in Nat \ {0}
  BY StreamAssumption DEF StreamInv, Shapes
<1>3. ckpt.step <= lastSaved /\ ckpt.step \in Int
  <2>1. ckpt.step \in Int
    BY <1>2 DEF Shapes, NoCkpt
  <2> QED
    BY <1>1, <2>1 DEF StreamInv, Saves
<1>4. ckpt.step < gstep
  BY <1>1, <1>2, <1>3
<1>5. saving' = [step |-> gstep, off |-> NoOffsets]
  BY <1>1 DEF NoSave
<1>6. Shapes'
  <2>1. IsOffsets(NoOffsets)
    <3>1. DOMAIN NoOffsets = {}
      BY DEF NoOffsets
    <3> QED
      BY <3>1 DEF IsOffsets
  <2>2. DOMAIN saving' = {"step", "off"} /\ saving'.step \in Nat /\ IsOffsets(saving'.off)
    BY <1>2, <1>5, <2>1
  <2> QED
    BY <1>1, <1>2, <2>2 DEF Shapes
<1>7. Known' = Known
  BY <1>1 DEF Known
<1>8. Saves'
  <2>1. ~Resaving'
    BY <1>1, <1>3, <1>4, <1>5 DEF Resaving
  <2>2. ckpt'.step <= lastSaved' /\ ckpt'.model \subseteq model'
    BY <1>1, <1>3, <1>4, <1>2 DEF StreamInv, Saves
  <2>3. saving'.step = lastSaved' /\ hand'[Chief] = <<>> /\ spc' # "vars"
    BY <1>1, <1>5
  <2> QED
    BY <1>1, <2>1, <2>2, <2>3 DEF StreamInv, Saves
<1>9. ChiefRuns'
  BY <1>1 DEF ChiefRuns
<1>10. ASSUME NEW w \in Workers
       PROVE  InOrder(w)' /\ LossesLive(w)'
  BY <1>1, <1>6, <1>7, SaveStays DEF readVars, pipeVars, psVars
<1>11. ASSUME NEW w \in Workers
       PROVE  LossesSaved(w)'
  BY <1>1, <1>2, <1>7, StaysSaved DEF StreamInv, diskVars
<1> QED
  BY <1>6, <1>8, <1>9, <1>10, <1>11 DEF StreamInv

(* The merged offsets say of a worker what its slot says.                  *)
LEMMA MergedIs ==
  ASSUME StreamInv
  PROVE  /\ IsOffsets(Merged)
         /\ \A w \in Workers : Before(w, Merged) = Before(w, slot[w])
<1>1. ASSUME NEW w \in Workers
      PROVE  /\ DOMAIN slot[w] \subseteq PartsOf(w) /\ DOMAIN slot[w] \subseteq Partitions
             /\ \A p \in DOMAIN slot[w] : slot[w][p] \in Nat
  BY OffsetsAre, WorkersNumbered DEF StreamInv, InOrder, Typed
<1> DEFINE D == UNION {DOMAIN slot[w] : w \in Workers}
           owner(p) == CHOOSE w \in Workers : p \in DOMAIN slot[w]
<1>2. Merged = [p \in D |-> slot[owner(p)][p]]
  BY DEF Merged
<1>3. ASSUME NEW w \in Workers, NEW p \in DOMAIN slot[w]
      PROVE  p \in D /\ owner(p) = w
  <2>1. owner(p) \in Workers /\ p \in DOMAIN slot[owner(p)]
    OBVIOUS
  <2> HIDE DEF owner
  <2>2. p \in PartsOf(w) /\ p \in PartsOf(owner(p))
    BY <1>1, <2>1
  <2> QED
    BY <2>2, OwnParts
<1> HIDE DEF owner
<1>4. DOMAIN Merged = D /\ \A w \in Workers : \A p \in DOMAIN slot[w] : Merged[p] = slot[w][p]
  BY <1>2, <1>3
<1>5. IsOffsets(Merged)
  BY <1>1, <1>4 DEF IsOffsets
<1>6. ASSUME NEW w \in Workers
      PROVE  PartsOf(w) \cap DOMAIN Merged = PartsOf(w) \cap DOMAIN slot[w]
  <2>1. ASSUME NEW p \in PartsOf(w), p \in D
        PROVE  p \in DOMAIN slot[w]
    <3>1. PICK u \in Workers : p \in DOMAIN slot[u]
      BY <2>1
    <3>2. p \in PartsOf(u)
      BY <1>1, <3>1
    <3> QED
      BY <3>1, <3>2, OwnParts
  <2> QED
    BY <1>4, <2>1
<1>7. ASSUME NEW w \in Workers
      PROVE  Before(w, Merged) = Before(w, slot[w])
  <2>1. \A p \in PartsOf(w) \cap DOMAIN slot[w] : Merged[p] = slot[w][p]
    BY <1>4
  <2> HIDE DEF D
  <2> QED
    BY <1>6, <2>1 DEF Before
<1> QED
  BY <1>5, <1>7

(* What a save reads of the slots loses no more than they do, with what is *)
(* in hand; in a new session what is trained on meanwhile is early.        *)
LEMMA ReadOffsetsKeeps ==
  ASSUME StreamInv, ReadOffsets
  PROVE  StreamInv'
<1>1. /\ spc = "offsets" /\ spc' = "file" /\ saving' = [saving EXCEPT !.off = Merged]
      /\ UNCHANGED <<conf, wpc, next, off, fetch, raw, pipe, hand, ops, model, gstep, slot, lastSaved,
                     ckpt, file, done, early, crashes>>
  BY DEF ReadOffsets, readVars, pipeVars, psVars, diskVars, pastVars
<1>2. Shapes /\ DOMAIN saving = {"step", "off"} /\ saving.step \in Nat
  BY DEF StreamInv, Shapes
<1>3. IsOffsets(Merged) /\ \A w \in Workers : Before(w, Merged) = Before(w, slot[w])
  BY MergedIs
<1>4. DOMAIN saving' = {"step", "off"} /\ saving'.step = saving.step /\ saving'.off = Merged
  BY <1>1, <1>2
<1>5. Shapes'
  BY <1>1, <1>2, <1>3, <1>4 DEF Shapes
<1>6. Known' = Known /\ wpc[Chief] = "run" /\ Known = early \cup model
  BY <1>1 DEF StreamInv, ChiefRuns, Known
<1>7. Saves' /\ ChiefRuns'
  BY <1>1, <1>4, <1>6 DEF StreamInv, Saves, ChiefRuns, Resaving
<1>8. ASSUME NEW w \in Workers
      PROVE  InOrder(w)' /\ LossesLive(w)'
  BY <1>1, <1>5, <1>6, SaveStays DEF readVars, pipeVars, psVars
<1>9. ASSUME NEW w \in Workers
      PROVE  LossesSaved(w)'
  <2>1. /\ LostBySave(w) \in Nat /\ LostBySlot(w) \in Nat /\ BatchSize \in Nat
        /\ LostBySave(w)' = LostBySave(w)
    BY <1>1, <1>2, LossNumbers, WorkersNumbered
       DEF Shapes, LostBySave, LostBefore, LossOf, Unsettled
  <2>2. AtMost(Before(w, slot[w]) \ (Known \cup InHand(w)), LostBySlot(w)) /\ InOrder(w)
    BY DEF StreamInv, LossesLive, LostSlot
  <2>3. AtMost(Before(w, slot[w]) \ Known, LostBySave(w))
    <3>1. CASE w = Chief \/ wpc[w] # "run"
      <4>1. InHand(w) = {}
        BY <1>1, <2>2, <3>1, HandIs DEF StreamInv, Saves, InOrder, Emptied, InHand
      <4>2. LostBySlot(w) <= LostBySave(w)
        <5>1. /\ LostBefore(w) \in Nat /\ Ahead(w) \in Nat /\ LossOf(w) \in Nat
              /\ Ahead(w) + (IF w = Chief THEN 0 ELSE BatchSize) = LostBefore(w) + LossOf(w)
          BY <1>2, LossNumbers DEF Shapes
        <5>2. Ahead(w) <= LostBefore(w) + LossOf(w)
          BY <5>1, <2>1
        <5> QED
          BY <5>1, <5>2 DEF LostBySlot, LostBySave
      <4> QED
        BY <2>1, <2>2, <4>1, <4>2, AtMostLess
    <3>2. CASE w # Chief /\ wpc[w] = "run"
      <4>1. LostBySlot(w) + BatchSize = LostBySave(w)
        BY <1>2, <3>2, LossNumbers DEF Shapes, LostBySlot, LostBySave
      <4>2. AtMost(InHand(w), BatchSize)
        BY HandSmall
      <4>3. Before(w, slot[w]) \ Known \subseteq (Before(w, slot[w]) \ (Known \cup InHand(w))) \cup InHand(w)
        OBVIOUS
      <4> QED
        BY <2>1, <2>2, <4>1, <4>2, <4>3, AtMostBoth
    <3> QED
      BY <3>1, <3>2
  <2>4. LostSaving(w)'
    <3>1. AtMost(Before(w, saving'.off) \ Known', LostBySave(w)')
      BY <1>3, <1>4, <1>6, <2>1, <2>3
    <3>2. ASSUME saving.step = ckpt.step
          PROVE  AtMost(Before(w, Merged) \ (ckpt.model \cup early), LostBySave(w))
      <4>1. Known \subseteq ckpt.model \cup early
        BY <1>1, <1>6, <3>2 DEF StreamInv, Saves, Resaving
      <4>2. Before(w, Merged) \ (ckpt.model \cup early) \subseteq Before(w, slot[w]) \ Known
        BY <1>3, <4>1
      <4> QED
        BY <2>1, <2>3, <4>2, AtMostLess
    <3> QED
      BY <1>1, <1>4, <2>1, <3>1, <3>2 DEF LostSaving
  <2>5. LostSaved(w)'
    BY <1>1, <2>1 DEF StreamInv, LossesSaved, LostSaved
  <2> QED
    BY <2>4, <2>5 DEF LossesSaved
<1> QED
  BY <1>5, <1>7, <1>8, <1>9 DEF StreamInv

(* The file gets what the save has read; it may be that of the checkpoint. *)
LEMMA WriteFileKeeps ==
  ASSUME StreamInv, WriteFile
  PROVE  StreamInv'
<1>1. /\ spc = "file" /\ spc' = "vars"
      /\ file' = [n \in DOMAIN file \cup {saving.step} |->
                    IF n = saving.step THEN saving.off ELSE file[n]]
      /\ UNCHANGED <<conf, wpc, next, off, fetch, raw, pipe, hand, ops, model, gstep, slot, saving,
                     lastSaved, ckpt, done, early, crashes>>
  BY DEF WriteFile, readVars, pipeVars, psVars, pastVars
<1>2. Shapes /\ saving.step \in Nat /\ IsOffsets(saving.off) /\ DOMAIN file \subseteq Nat
      /\ \A n \in DOMAIN file : IsOffsets(file[n])
  BY DEF StreamInv, Shapes
<1>3. /\ DOMAIN file' = DOMAIN file \cup {saving.step}
      /\ file'[saving.step] = saving.off
      /\ \A n \in DOMAIN file \ {saving.step} : file'[n] = file[n]
  BY <1>1
<1>4. Shapes'
  <2>1. DOMAIN file' \subseteq Nat /\ \A n \in DOMAIN file' : IsOffsets(file'[n])
    BY <1>2, <1>3
  <2> QED
    BY <1>1, <1>2, <2>1 DEF Shapes
<1>5. Known' = Known /\ wpc[Chief] = "run"
  BY <1>1 DEF StreamInv, ChiefRuns, Known
<1>6. Saves' /\ ChiefRuns'
  BY <1>1, <1>3, <1>5 DEF StreamInv, Saves, ChiefRuns, Resaving
<1>7. ASSUME NEW w \in Workers
      PROVE  InOrder(w)' /\ LossesLive(w)'
  BY <1>1, <1>4, <1>5, SaveStays DEF readVars, pipeVars, psVars
<1>8. ASSUME NEW w \in Workers
      PROVE  LossesSaved(w)'
  <2>1. LostBySave(w)' = LostBySave(w)
    BY <1>1 DEF LostBySave, LostBefore, LossOf, Unsettled
  <2>2. LossesSaved(w) /\ LostSaving(w)
    BY DEF StreamInv, LossesSaved
  <2>3. LostSaving(w)'
    BY <1>1, <1>5, <2>1, <2>2 DEF LostSaving
  <2>4. LostSaved(w)'
    <3>1. CASE ckpt.step = saving.step
      <4>1. AtMost(Before(w, saving.off) \ (ckpt.model \cup early), LostBySave(w))
        BY <1>1, <2>2, <3>1 DEF LostSaving
      <4>2. file'[ckpt.step] = saving.off
        BY <1>3, <3>1
      <4> QED
        BY <1>1, <2>1, <4>1, <4>2 DEF LostSaved
    <3>2. CASE ckpt.step # saving.step
      <4>1. ckpt.step \in DOMAIN file' => ckpt.step \in DOMAIN file /\ file'[ckpt.step] = file[ckpt.step]
        BY <1>3, <3>2
      <4> QED
        BY <1>1, <2>1, <2>2, <4>1 DEF LossesSaved, LostSaved
    <3> QED
      BY <3>1, <3>2
  <2> QED
    BY <2>3, <2>4 DEF LossesSaved
<1> QED
  BY <1>4, <1>6, <1>7, <1>8 DEF StreamInv

(* The variables are saved: they know at least what the save knew when it  *)
(* read the offsets.                                                       *)
LEMMA SaveVarsKeeps ==
  ASSUME StreamInv, SaveVars
  PROVE  StreamInv'
<1>1. /\ spc = "vars" /\ spc' = "idle" /\ ckpt' = [step |-> saving.step, model |-> model]
      /\ file' = [n \in {saving.step} \cap DOMAIN file |-> file[n]] /\ saving' = NoSave
      /\ UNCHANGED <<conf, wpc, next, off, fetch, raw, pipe, hand, ops, model, gstep, slot,
                     lastSaved, done, early, crashes>>
  BY DEF SaveVars, readVars, pipeVars, psVars
<1>2. Shapes /\ saving.step \in Nat /\ DOMAIN file \subseteq Nat /\ lastSaved \in Nat
      /\ \A n \in DOMAIN file : IsOffsets(file[n])
  BY DEF StreamInv, Shapes
<1>3. /\ wpc[Chief] = "run" /\ saving.step = lastSaved
      /\ saving.step \in DOMAIN file /\ file[saving.step] = saving.off
  BY <1>1 DEF StreamInv, ChiefRuns, Saves
<1>4. /\ DOMAIN file' = {saving.step} /\ file'[saving.step] = saving.off
      /\ ckpt'.step = saving.step /\ ckpt'.model = model /\ DOMAIN ckpt' = {"step", "model"}
  BY <1>1, <1>3
<1>5. Known' = Known /\ Known = early \cup model
  BY <1>1, <1>3 DEF Known
<1>6. Shapes'
  <2>1. DOMAIN file' \subseteq Nat /\ \A n \in DOMAIN file' : IsOffsets(file'[n])
    BY <1>2, <1>3, <1>4
  <2>2. DOMAIN saving' = {"step", "off"} /\ saving'.step \in Nat /\ IsOffsets(saving'.off)
    <3>1. DOMAIN NoOffsets = {}
      BY DEF NoOffsets
    <3> QED
      BY <1>1, <3>1 DEF NoSave, IsOffsets
  <2> QED
    BY <1>1, <1>2, <1>4, <2>1, <2>2 DEF Shapes
<1>7. ChiefRuns'
  BY <1>1, <1>3 DEF ChiefRuns
<1>8. Saves'
  <2>1. ckpt'.step <= lastSaved' /\ ckpt'.model \subseteq model' /\ ckpt'.step \in DOMAIN file'
    BY <1>1, <1>2, <1>3, <1>4
  <2>2. ~Resaving' /\ spc' = "idle"
    BY <1>1 DEF Resaving
  <2> QED
    BY <2>1, <2>2 DEF Saves
<1>9. ASSUME NEW w \in Workers
      PROVE  InOrder(w)' /\ LossesLive(w)'
  BY <1>1, <1>5, <1>6, SaveStays DEF readVars, pipeVars, psVars
<1>10. ASSUME NEW w \in Workers
       PROVE  LossesSaved(w)'
  <2>1. LostBySave(w)' = LostBySave(w)
    BY <1>1 DEF LostBySave, LostBefore, LossOf, Unsettled
  <2>2. AtMost(Before(w, saving.off) \ Known, LostBySave(w))
    BY <1>1 DEF StreamInv, LossesSaved, LostSaving
  <2>3. LostSaving(w)'
    BY <1>1 DEF LostSaving
  <2>4. model \cup early = Known
    BY <1>5
  <2>5. LostSaved(w)'
    BY <1>1, <1>4, <2>1, <2>2, <2>4 DEF LostSaved
  <2> QED
    BY <2>3, <2>5 DEF LossesSaved
<1> QED
  BY <1>6, <1>7, <1>8, <1>9, <1>10 DEF StreamInv

---------------------------------------------------------------------------
(* Training                                                                *)

(* Where the batches of a tail were.                                       *)
LEMMA TailPlaces ==
  ASSUME NEW n \in Nat
  PROVE  /\ \A i \in 1..n : i \in 0..n /\ i + 1 \in 1..(n + 1) /\ n - i = (n + 1) - (i + 1)
         /\ n \in 0..n /\ 0 \in 0..n /\ 1 \in 1..(n + 1)
OBVIOUS

(* The head of the pipeline becomes the batch in hand, with its losses.    *)
LEMMA NextBatchKeeps ==
  ASSUME StreamInv, NEW v \in Workers, NextBatch(v)
  PROVE  StreamInv'
<1>1. /\ wpc[v] = "run" /\ (v = Chief => spc = "idle") /\ hand[v] = <<>> /\ pipe[v] # <<>>
      /\ hand' = [hand EXCEPT ![v] = <<Head(pipe[v])>>]
      /\ pipe' = [pipe EXCEPT ![v] = Tail(pipe[v])]
      /\ ops' = [ops EXCEPT ![v] = {"assign", "apply"}]
      /\ UNCHANGED <<conf, wpc, next, off, fetch, raw, model, gstep, slot, spc, saving, lastSaved,
                     ckpt, file, done, early, crashes>>
  BY DEF NextBatch, Running, readVars, psVars, saveVars, diskVars, pastVars
<1>2. Shapes /\ InOrder(v) /\ LossesLive(v) /\ DOMAIN hand = Workers /\ DOMAIN pipe = Workers
      /\ DOMAIN ops = Workers /\ pipe[v] \in Seq(BatchesOf(v))
  BY DEF StreamInv, Shapes, InOrder, Typed
<1>3. PICK n \in Nat : n = Len(pipe[v]) - 1
  BY <1>1, <1>2, TailIs
<1>4. /\ Head(pipe[v]) = pipe[v][1] /\ pipe[v][1] \in BatchesOf(v)
      /\ Tail(pipe[v]) \in Seq(BatchesOf(v)) /\ Len(pipe[v]) = n + 1 /\ Len(Tail(pipe[v])) = n
      /\ DOMAIN pipe[v] = 1..(n + 1) /\ DOMAIN Tail(pipe[v]) = 1..n
      /\ \A i \in 1..n : Tail(pipe[v])[i] = pipe[v][i + 1]
      /\ n \in Nat
  BY <1>1, <1>2, <1>3, TailIs
<1>5. /\ hand'[v] = <<pipe[v][1]>> /\ ops'[v] = {"assign", "apply"}
      /\ pipe'[v] \in Seq(BatchesOf(v)) /\ Len(pipe'[v]) = n /\ DOMAIN pipe'[v] = 1..n
      /\ \A i \in 1..n : pipe'[v][i] = pipe[v][i + 1]
  BY <1>1, <1>2, <1>4
<1>6. Shapes'
  BY <1>1, <1>2 DEF Shapes
<1>7. Known' = Known
  BY <1>1 DEF Known
<1>8. \A w \in Workers \ {v} : Same(w)
  BY <1>1 DEF Same
<1>9. InHand(v) = {} /\ InHand(v)' = ToSet(pipe[v][1].msgs)
  <2>1. DOMAIN hand[v] = {} /\ DOMAIN hand'[v] = {1} /\ hand'[v][1] = pipe[v][1]
    BY <1>1, <1>5
  <2> QED
    BY <2>1 DEF InHand
<1>10. ASSUME NEW k \in 0..n
       PROVE  InHand(v)' \cup InPipe(v, k)' = InPipe(v, k + 1)
  <2>1. ASSUME NEW i \in DOMAIN pipe[v], i <= k + 1
        PROVE  ToSet(pipe[v][i].msgs) \subseteq InHand(v)' \cup InPipe(v, k)'
    <3>1. CASE i = 1
      BY <1>9, <3>1
    <3>2. CASE i # 1
      <4>1. i - 1 \in 1..n /\ i - 1 <= k /\ pipe'[v][i - 1] = pipe[v][i]
        <5>1. i - 1 \in 1..n /\ i - 1 <= k /\ (i - 1) + 1 = i
          BY <1>4, <2>1, <3>2
        <5> QED
          BY <1>5, <5>1
      <4> QED
        BY <1>5, <4>1 DEF InPipe
    <3> QED
      BY <3>1, <3>2
  <2>2. ASSUME NEW i \in DOMAIN pipe'[v], i <= k
        PROVE  ToSet(pipe'[v][i].msgs) \subseteq InPipe(v, k + 1)
    <3>1. i + 1 \in DOMAIN pipe[v] /\ i + 1 <= k + 1 /\ pipe'[v][i] = pipe[v][i + 1]
      <4>1. i \in 1..n
        BY <1>5
      <4>2. pipe'[v][i] = pipe[v][i + 1]
        BY <1>5, <4>1
      <4>3. i + 1 \in 1..(n + 1) /\ i + 1 <= k + 1
        BY <2>2, <4>1
      <4> QED
        BY <1>4, <4>2, <4>3
    <3> QED
      BY <3>1 DEF InPipe
  <2>3. ToSet(pipe[v][1].msgs) \subseteq InPipe(v, k + 1)
    <3>1. 1 \in DOMAIN pipe[v] /\ 1 <= k + 1
      BY <1>4
    <3> QED
      BY <3>1 DEF InPipe
  <2>4. InPipe(v, k + 1) \subseteq InHand(v)' \cup InPipe(v, k)'
    BY <2>1 DEF InPipe
  <2>5. InPipe(v, k)' \subseteq InPipe(v, k + 1)
    BY <2>2 DEF InPipe
  <2> QED
    BY <1>9, <2>3, <2>4, <2>5
<1>11. InOrder(v)'
  <2>1. Typed(v)'
    <3>1. <<pipe[v][1]>> \in Seq(BatchesOf(v)) /\ Len(<<pipe[v][1]>>) = 1 /\ <<pipe[v][1]>> # <<>>
      BY <1>4
    <3> QED
      BY <1>1, <1>2, <1>5, <3>1 DEF InOrder, Typed
  <2>2. Emptied(v)'
    BY <1>1 DEF Emptied
  <2>3. Sized(v)'
    <3>1. Len(raw'[v]) < conf'.shuffle
      BY <1>1, <1>2 DEF InOrder, Sized
    <3>2. ASSUME NEW i \in DOMAIN pipe'[v]
          PROVE  /\ Len(pipe'[v][i].msgs) <= BatchSize
                 /\ ~Parsed(pipe'[v][i]) => Len(pipe'[v]) - i < conf'.parallel
      <4>1. i \in 1..n /\ i + 1 \in DOMAIN pipe[v] /\ pipe'[v][i] = pipe[v][i + 1]
            /\ Len(pipe'[v]) - i = Len(pipe[v]) - (i + 1)
        <5>1. i \in 1..n
          BY <1>5
        <5> QED
          BY <1>4, <1>5, <5>1, TailPlaces, Zenon
      <4> QED
        BY <1>1, <1>2, <4>1 DEF InOrder, Sized
    <3>3. ASSUME NEW i \in DOMAIN hand'[v]
          PROVE  Len(hand'[v][i].msgs) <= BatchSize
      <4>1. i = 1 /\ hand'[v][i] = pipe[v][1] /\ 1 \in DOMAIN pipe[v]
        BY <1>4, <1>5
      <4> QED
        BY <1>2, <4>1 DEF InOrder, Sized
    <3> QED
      BY <3>1, <3>2, <3>3 DEF Sized
  <2>4. Behind(v)'
    <3>1. ASSUME NEW i \in DOMAIN pipe'[v], NEW m \in ToSet(pipe'[v][i].msgs)
          PROVE  m[2] < next[m[1]]
      <4>1. i + 1 \in DOMAIN pipe[v] /\ pipe'[v][i] = pipe[v][i + 1]
        <5>1. i \in 1..n
          BY <1>5
        <5>2. i + 1 \in 1..(n + 1)
          BY <5>1
        <5> QED
          BY <1>4, <1>5, <5>1, <5>2
      <4> QED
        BY <1>2, <4>1 DEF InOrder, Behind
    <3> QED
      BY <1>1, <1>2, <3>1 DEF InOrder, Behind
  <2>5. Applied(v)'
    BY <1>5 DEF Applied
  <2> QED
    BY <2>1, <2>2, <2>3, <2>4, <2>5 DEF InOrder
<1>12. Ahead(v)' = Ahead(v) /\ LostBefore(v)' = LostBefore(v) /\ LostBySlot(v)' = LostBySlot(v)
  BY <1>1 DEF Ahead, LostBefore, LossOf, Unsettled, LostBySlot
<1>13. LossesLive(v)'
  <2>1. LostRead(v)'
    <3>1. InHand(v)' \cup InPipe(v, n)' = InPipe(v, n + 1)
      BY <1>3, <1>10, TailPlaces
    <3>2. InFlight(v)' = ToSet(raw'[v]) \cup InPipe(v, n)' \cup InHand(v)'
          /\ InFlight(v) = ToSet(raw[v]) \cup InPipe(v, n + 1) \cup InHand(v)
      BY <1>4, <1>5 DEF InFlight
    <3>3. InFlight(v)' = InFlight(v)
      BY <1>1, <1>9, <3>1, <3>2
    <3> QED
      BY <1>1, <1>2, <1>7, <1>12, <3>3 DEF LossesLive, LostRead
  <2>2. LostPipe(v)'
    <3>1. ASSUME NEW i \in DOMAIN pipe'[v]
          PROVE  AtMost(Before(v, pipe'[v][i].snap) \ (Known' \cup InHand(v)' \cup InPipe(v, i)'), Ahead(v)')
      <4>1. i + 1 \in DOMAIN pipe[v] /\ pipe'[v][i] = pipe[v][i + 1] /\ i \in 0..n
        <5>1. i \in 1..n
          BY <1>5
        <5> QED
          BY <1>4, <1>5, <5>1, TailPlaces, Zenon
      <4>2. Known' \cup InHand(v)' \cup InPipe(v, i)' = Known \cup InHand(v) \cup InPipe(v, i + 1)
        BY <1>7, <1>9, <1>10, <4>1
      <4> QED
        BY <1>2, <1>12, <4>1, <4>2 DEF LossesLive, LostPipe
    <3> QED
      BY <3>1 DEF LostPipe
  <2>3. LostHand(v)'
    <3>1. 1 \in DOMAIN pipe[v] /\ 0 \in 0..n /\ DOMAIN hand'[v] = {1} /\ hand'[v][1] = pipe[v][1]
      BY <1>4, <1>5
    <3>2. InPipe(v, 0)' = {}
      <4>1. {j \in DOMAIN pipe'[v] : j <= 0} = {}
        BY <1>5
      <4> QED
        BY <4>1 DEF InPipe
    <3>3. Known' \cup InHand(v)' = Known \cup InHand(v) \cup InPipe(v, 1)
      BY <1>7, <1>9, <1>10, <3>1, <3>2
    <3>4. AtMost(Before(v, hand'[v][1].snap) \ (Known' \cup InHand(v)'), Ahead(v)')
      BY <1>2, <1>12, <3>1, <3>3 DEF LossesLive, LostPipe
    <3> QED
      BY <3>1, <3>4 DEF LostHand
  <2>4. LostSlot(v)'
    <3>1. AtMost(Before(v, slot[v]) \ (Known \cup InHand(v)), LostBySlot(v)) /\ LostBySlot(v) \in Nat
      BY <1>2, LossNumbers DEF LossesLive, LostSlot, Shapes
    <3>2. Before(v, slot'[v]) \ (Known' \cup InHand(v)') \subseteq Before(v, slot[v]) \ (Known \cup InHand(v))
      BY <1>1, <1>7, <1>9
    <3>3. AtMost(Before(v, slot'[v]) \ (Known' \cup InHand(v)'), LostBySlot(v)')
      BY <1>12, <3>1, <3>2, AtMostLess
    <3> QED
      BY <3>3 DEF LostSlot
  <2> QED
    BY <2>1, <2>2, <2>3, <2>4 DEF LossesLive
<1>14. Saves'
  <2>1. spc # "idle" => hand'[Chief] = hand[Chief]
    BY <1>1
  <2> QED
    BY <1>1, <2>1, SavesStay DEF StreamInv, saveVars, diskVars
<1> QED
  BY <1>1, <1>6, <1>7, <1>8, <1>11, <1>13, <1>14, OneWorker DEF saveVars, diskVars

(* A half of a train op: the batch stays in hand until both are done.      *)
LEMMA RanIs ==
  ASSUME StreamInv, NEW v \in Workers, NEW op, Ran(v, op), Known \subseteq Known'
  PROVE  /\ op \in ops[v] /\ ops'[v] = ops[v] \ {op} /\ wpc[v] = "run" /\ wpc[Chief] = "run"
         /\ DOMAIN hand[v] = {1} /\ hand[v][1] \in BatchesOf(v)
         /\ InHand(v) = ToSet(hand[v][1].msgs)
         /\ \A w \in Workers \ {v} : ops'[w] = ops[w] /\ hand'[w] = hand[w]
         /\ DOMAIN hand' = Workers /\ DOMAIN ops' = Workers
         /\ hand'[v] \in Seq(BatchesOf(v)) /\ Len(hand'[v]) <= 1
         /\ ops'[v] \subseteq {"assign", "apply"} /\ (ops'[v] = {} <=> hand'[v] = <<>>)
         /\ \A i \in DOMAIN hand'[v] : i \in DOMAIN hand[v] /\ hand'[v][i] = hand[v][i]
         /\ \/ hand'[v] = hand[v] /\ InHand(v)' = InHand(v)
            \/ hand'[v] = <<>> /\ InHand(v)' = {} /\ ops[v] = {op}
<1>1. /\ op \in ops[v] /\ ops' = [ops EXCEPT ![v] = ops[v] \ {op}]
      /\ hand' = [hand EXCEPT ![v] = IF ops[v] = {op} THEN <<>> ELSE hand[v]]
  BY DEF Ran
<1>2. InOrder(v) /\ DOMAIN ops = Workers /\ DOMAIN hand = Workers
  BY DEF StreamInv, Shapes
<1>3. /\ DOMAIN hand[v] = {1} /\ InHand(v) = ToSet(hand[v][1].msgs)
      /\ wpc[v] = "run" /\ hand[v][1] \in BatchesOf(v)
  BY <1>1, <1>2, HandIs
<1>4. wpc[Chief] = "run"
  BY <1>3 DEF StreamInv, ChiefRuns
<1>5. /\ ops'[v] = ops[v] \ {op} /\ DOMAIN hand' = Workers /\ DOMAIN ops' = Workers
      /\ hand'[v] = (IF ops[v] = {op} THEN <<>> ELSE hand[v])
      /\ \A w \in Workers \ {v} : ops'[w] = ops[w] /\ hand'[w] = hand[w]
  BY <1>1, <1>2
<1>6. /\ hand[v] \in Seq(BatchesOf(v)) /\ Len(hand[v]) <= 1 /\ ops[v] \subseteq {"assign", "apply"}
      /\ hand[v] # <<>>
  BY <1>1, <1>2 DEF InOrder, Typed
<1>7. CASE ops[v] = {op}
  <2>1. hand'[v] = <<>> /\ ops'[v] = {}
    BY <1>5, <1>7
  <2>2. hand'[v] \in Seq(BatchesOf(v)) /\ Len(hand'[v]) <= 1 /\ DOMAIN hand'[v] = {}
    BY <2>1
  <2>3. InHand(v)' = {}
    BY <2>2 DEF InHand
  <2> QED
    BY <1>1, <1>3, <1>4, <1>5, <1>7, <2>1, <2>2, <2>3
<1>8. CASE ops[v] # {op}
  <2>1. hand'[v] = hand[v] /\ ops'[v] # {}
    BY <1>1, <1>5, <1>8
  <2>2. InHand(v)' = InHand(v)
    BY <2>1 DEF InHand
  <2> QED
    BY <1>1, <1>3, <1>4, <1>5, <1>6, <2>1, <2>2
<1> QED
  BY <1>7, <1>8

(* What is in hand of a train op that has applied it is known.             *)
LEMMA RanKeeps ==
  ASSUME StreamInv, NEW v \in Workers, NEW op, Ran(v, op), Shapes',
         op = "apply" => InHand(v) \subseteq Known',
         op # "apply" => op = "assign",
         Known \subseteq Known', slot'[v] \in OffsetsOf(v), LostSlot(v)',
         UNCHANGED <<conf, wpc, next, off, fetch, raw, pipe, crashes>>
  PROVE  InOrder(v)' /\ LossesLive(v)'
<1>1. /\ op \in ops[v] /\ ops'[v] = ops[v] \ {op} /\ wpc[v] = "run"
      /\ hand'[v] \in Seq(BatchesOf(v)) /\ Len(hand'[v]) <= 1
      /\ ops'[v] \subseteq {"assign", "apply"} /\ (ops'[v] = {} <=> hand'[v] = <<>>)
      /\ \A i \in DOMAIN hand'[v] : i \in DOMAIN hand[v] /\ hand'[v][i] = hand[v][i]
      /\ \/ hand'[v] = hand[v] /\ InHand(v)' = InHand(v)
         \/ hand'[v] = <<>> /\ InHand(v)' = {} /\ ops[v] = {op}
  BY RanIs
<1>2. InOrder(v) /\ LossesLive(v) /\ Shapes
  BY DEF StreamInv
<1>3. Typed(v)' /\ Emptied(v)' /\ Sized(v)' /\ Behind(v)'
  BY <1>1, <1>2 DEF InOrder, Typed, Emptied, Sized, Behind
<1>4. Applied(v)'
  <2>1. "apply" \notin ops'[v] => InHand(v) \subseteq Known'
    BY <1>1, <1>2 DEF InOrder, Applied
  <2> QED
    BY <1>1, <2>1 DEF Applied
<1>5. Known \cup InHand(v) \subseteq Known' \cup InHand(v)'
  <2>1. CASE InHand(v)' = InHand(v)
    BY <2>1
  <2>2. CASE ops[v] = {op}
    BY <1>2, <2>2 DEF InOrder, Applied
  <2> QED
    BY <1>1, <2>1, <2>2
<1>6. /\ Ahead(v)' = Ahead(v) /\ LostBefore(v)' = LostBefore(v)
      /\ Ahead(v) \in Nat /\ LostBefore(v) \in Nat
  BY <1>2, LossNumbers DEF Shapes, Ahead, LostBefore, LossOf, Unsettled
<1>7. \A i \in DOMAIN pipe[v] \cup {Len(pipe[v])} : InPipe(v, i)' = InPipe(v, i)
  BY DEF InPipe
<1>8. LostRead(v)'
  <2>1. AtMost(Before(v, next) \ (Known \cup InFlight(v)), LostBefore(v))
    BY <1>1, <1>2 DEF LossesLive, LostRead
  <2>2. Before(v, next') \ (Known' \cup InFlight(v)') \subseteq Before(v, next) \ (Known \cup InFlight(v))
    BY <1>5, <1>7 DEF InFlight
  <2>3. AtMost(Before(v, next') \ (Known' \cup InFlight(v)'), LostBefore(v)')
    BY <1>6, <2>1, <2>2, AtMostLess
  <2> QED
    BY <2>3 DEF LostRead
<1>9. LostPipe(v)'
  <2>1. ASSUME NEW i \in DOMAIN pipe[v]
        PROVE  AtMost(Before(v, pipe'[v][i].snap) \ (Known' \cup InHand(v)' \cup InPipe(v, i)'), Ahead(v)')
    <3>1. AtMost(Before(v, pipe[v][i].snap) \ (Known \cup InHand(v) \cup InPipe(v, i)), Ahead(v))
      BY <1>2 DEF LossesLive, LostPipe
    <3>2. Before(v, pipe'[v][i].snap) \ (Known' \cup InHand(v)' \cup InPipe(v, i)')
            \subseteq Before(v, pipe[v][i].snap) \ (Known \cup InHand(v) \cup InPipe(v, i))
      BY <1>5, <1>7
    <3> QED
      BY <1>6, <3>1, <3>2, AtMostLess
  <2> QED
    BY <2>1 DEF LostPipe
<1>10. LostHand(v)'
  <2>1. ASSUME NEW i \in DOMAIN hand'[v]
        PROVE  AtMost(Before(v, hand'[v][i].snap) \ (Known' \cup InHand(v)'), Ahead(v)')
    <3>1. AtMost(Before(v, hand'[v][i].snap) \ (Known \cup InHand(v)), Ahead(v))
      BY <1>1, <1>2 DEF LossesLive, LostHand
    <3>2. Before(v, hand'[v][i].snap) \ (Known' \cup InHand(v)')
            \subseteq Before(v, hand'[v][i].snap) \ (Known \cup InHand(v))
      BY <1>5
    <3> QED
      BY <1>6, <3>1, <3>2, AtMostLess
  <2> QED
    BY <2>1 DEF LostHand
<1> QED
  BY <1>3, <1>4, <1>8, <1>9, <1>10 DEF InOrder, LossesLive

(* The slot gets the offsets of the batch in hand, and its losses.         *)
LEMMA AssignKeeps ==
  ASSUME StreamInv, NEW v \in Workers, Assign(v)
  PROVE  StreamInv'
<1>1. /\ Ran(v, "assign") /\ slot' = [slot EXCEPT ![v] = hand[v][1].snap]
      /\ UNCHANGED <<conf, wpc, next, off, fetch, raw, pipe, model, gstep, spc, saving, lastSaved,
                     ckpt, file, done, early, crashes>>
  BY DEF Assign, readVars, saveVars, diskVars, pastVars
<1>2. Known' = Known /\ Shapes /\ InOrder(v) /\ LossesLive(v) /\ DOMAIN slot = Workers
  BY <1>1 DEF Known, StreamInv, Shapes
<1>3. /\ wpc[v] = "run" /\ wpc[Chief] = "run" /\ "assign" \in ops[v]
      /\ DOMAIN hand[v] = {1} /\ hand[v][1] \in BatchesOf(v)
      /\ \A w \in Workers \ {v} : ops'[w] = ops[w] /\ hand'[w] = hand[w]
      /\ DOMAIN hand' = Workers /\ DOMAIN ops' = Workers
      /\ \/ hand'[v] = hand[v] /\ InHand(v)' = InHand(v)
         \/ hand'[v] = <<>> /\ InHand(v)' = {} /\ ops[v] = {"assign"}
  BY <1>1, <1>2, RanIs
<1>4. /\ slot'[v] = hand[v][1].snap /\ slot'[v] \in OffsetsOf(v) /\ DOMAIN slot' = Workers
      /\ \A w \in Workers \ {v} : slot'[w] = slot[w]
  BY <1>1, <1>2, <1>3 DEF BatchesOf
<1>5. Shapes'
  BY <1>1, <1>2, <1>3, <1>4 DEF Shapes
<1>6. LostSlot(v)'
  <2>1. AtMost(Before(v, hand[v][1].snap) \ (Known \cup InHand(v)), Ahead(v))
    BY <1>2, <1>3 DEF LossesLive, LostHand
  <2>2. Ahead(v) \in Nat /\ LostBySlot(v)' = Ahead(v)
    BY <1>1, <1>2, <1>3, LossNumbers DEF Shapes, LostBySlot, Ahead, LostBefore, LossOf, Unsettled
  <2>3. Known \cup InHand(v) \subseteq Known' \cup InHand(v)'
    <3>1. CASE InHand(v)' = InHand(v)
      BY <1>2, <3>1
    <3>2. CASE ops[v] = {"assign"}
      BY <1>2, <3>2 DEF InOrder, Applied
    <3> QED
      BY <1>3, <3>1, <3>2
  <2>4. Before(v, slot'[v]) \ (Known' \cup InHand(v)')
          \subseteq Before(v, hand[v][1].snap) \ (Known \cup InHand(v))
    BY <1>4, <2>3
  <2>5. AtMost(Before(v, slot'[v]) \ (Known' \cup InHand(v)'), LostBySlot(v)')
    BY <2>1, <2>2, <2>4, AtMostLess
  <2> QED
    BY <2>5 DEF LostSlot
<1>7. InOrder(v)' /\ LossesLive(v)'
  BY <1>1, <1>2, <1>4, <1>5, <1>6, RanKeeps
<1>8. \A w \in Workers \ {v} : Same(w)
  BY <1>1, <1>3, <1>4 DEF Same
<1>9. Saves'
  <2>1. spc # "idle" => hand'[Chief] = hand[Chief]
    <3>1. CASE v = Chief
      BY <1>2, <1>3, <3>1 DEF StreamInv, Saves, InOrder, Typed
    <3>2. CASE v # Chief
      BY <1>3, <3>2, WorkersNumbered
    <3> QED
      BY <3>1, <3>2
  <2> QED
    BY <1>1, <2>1, SavesStay DEF StreamInv, saveVars, diskVars
<1> QED
  BY <1>1, <1>2, <1>3, <1>5, <1>7, <1>8, <1>9, OneWorker DEF saveVars, diskVars

(* What is in hand becomes known.                                          *)
LEMMA ApplyKeeps ==
  ASSUME StreamInv, NEW v \in Workers, Apply(v)
  PROVE  StreamInv'
<1>1. /\ Ran(v, "apply") /\ model' = model \cup ToSet(hand[v][1].msgs) /\ gstep' = gstep + 1
      /\ early' = IF Resaving THEN early \cup ToSet(hand[v][1].msgs) ELSE early
      /\ UNCHANGED <<conf, wpc, next, off, fetch, raw, pipe, slot, spc, saving, lastSaved,
                     ckpt, file, crashes>>
  BY DEF Apply, readVars, saveVars, diskVars
<1>2. wpc[Chief] = "run"
  <2>1. InOrder(v) /\ ops[v] # {}
    BY <1>1 DEF StreamInv, Ran
  <2> QED
    BY <2>1 DEF StreamInv, ChiefRuns, InOrder, Emptied
<1>3. /\ Known = early \cup model /\ Known' = early' \cup model' /\ early \subseteq early'
      /\ model \subseteq model' /\ Known \subseteq Known'
  BY <1>1, <1>2 DEF Known
<1>4. /\ wpc[v] = "run" /\ "apply" \in ops[v] /\ InHand(v) = ToSet(hand[v][1].msgs)
      /\ \A w \in Workers \ {v} : ops'[w] = ops[w] /\ hand'[w] = hand[w]
      /\ DOMAIN hand' = Workers /\ DOMAIN ops' = Workers
      /\ \/ hand'[v] = hand[v] /\ InHand(v)' = InHand(v)
         \/ hand'[v] = <<>> /\ InHand(v)' = {} /\ ops[v] = {"apply"}
  BY <1>1, <1>3, RanIs
<1>5. InHand(v) \subseteq Known' /\ InOrder(v) /\ LossesLive(v) /\ Shapes /\ gstep' \in Nat
  BY <1>1, <1>3, <1>4 DEF StreamInv, Shapes
<1>6. Shapes'
  BY <1>1, <1>4, <1>5 DEF Shapes
<1>7. LostSlot(v)'
  <2>1. AtMost(Before(v, slot[v]) \ (Known \cup InHand(v)), LostBySlot(v))
    BY <1>5 DEF LossesLive, LostSlot
  <2>2. LostBySlot(v) \in Nat /\ LostBySlot(v)' = LostBySlot(v)
    BY <1>1, <1>5, LossNumbers DEF Shapes, LostBySlot, Ahead, LostBefore, LossOf, Unsettled
  <2>3. Before(v, slot'[v]) \ (Known' \cup InHand(v)') \subseteq Before(v, slot[v]) \ (Known \cup InHand(v))
    BY <1>1, <1>3, <1>5
  <2>4. AtMost(Before(v, slot'[v]) \ (Known' \cup InHand(v)'), LostBySlot(v)')
    BY <2>1, <2>2, <2>3, AtMostLess
  <2> QED
    BY <2>4 DEF LostSlot
<1>8. InOrder(v)' /\ LossesLive(v)'
  <2>1. slot'[v] \in OffsetsOf(v)
    BY <1>1, <1>5 DEF InOrder, Typed
  <2> QED
    BY <1>1, <1>3, <1>5, <1>6, <1>7, <2>1, RanKeeps
<1>9. \A w \in Workers \ {v} : Same(w)
  BY <1>1, <1>4 DEF Same
<1>10. Saves'
  <2>1. spc # "idle" => hand'[Chief] = <<>>
    <3>1. CASE v = Chief
      BY <1>4, <1>5, <3>1 DEF StreamInv, Saves, InOrder, Typed
    <3>2. CASE v # Chief
      BY <1>4, <3>2, WorkersNumbered DEF StreamInv, Saves
    <3> QED
      BY <3>1, <3>2
  <2>2. Resaving' <=> Resaving
    BY <1>1 DEF Resaving
  <2>3. Resaving => model' \subseteq ckpt.model \cup early'
    BY <1>1 DEF StreamInv, Saves
  <2>4. ckpt.step <= lastSaved /\ ckpt.model \subseteq model'
    BY <1>2, <1>3 DEF StreamInv, Saves
  <2> QED
    BY <1>1, <2>1, <2>2, <2>3, <2>4 DEF StreamInv, Saves
<1> QED
  BY <1>1, <1>3, <1>4, <1>6, <1>8, <1>9, <1>10, OneWorker DEF saveVars, diskVars

---------------------------------------------------------------------------
(* The pipeline                                                            *)

(* A sequence with one element changed.                                    *)
LEMMA Replaced ==
  ASSUME NEW S, NEW s \in Seq(S), NEW i \in DOMAIN s, NEW e \in S
  PROVE  /\ [s EXCEPT ![i] = e] \in Seq(S) /\ Len([s EXCEPT ![i] = e]) = Len(s)
         /\ DOMAIN [s EXCEPT ![i] = e] = DOMAIN s /\ [s EXCEPT ![i] = e][i] = e
         /\ \A j \in DOMAIN s \ {i} : [s EXCEPT ![i] = e][j] = s[j]
<1>1. i \in 1..Len(s) /\ DOMAIN s = 1..Len(s)
  BY LenProperties
<1>2. /\ [s EXCEPT ![i] = e] \in Seq(S) /\ Len([s EXCEPT ![i] = e]) = Len(s)
      /\ \A j \in 1..Len(s) : [s EXCEPT ![i] = e][j] = IF j = i THEN e ELSE s[j]
  BY <1>1, ExceptSeq
<1> QED
  BY <1>1, <1>2

(* What a worker has read but not in a batch up to the i-th, is in its     *)
(* shuffle buffer or in the window of the parallel map.                    *)
LEMMA SnapshotIs ==
  ASSUME StreamInv, NEW v \in Workers, wpc[v] = "run", NEW i \in DOMAIN pipe[v],
         ~Parsed(pipe[v][i]), NEW o \in [Partitions -> Nat],
         \A p \in PartsOf(v) : o[p] <= next[p]
  PROVE  /\ OwnOffsets(v, o) \in OffsetsOf(v)
         /\ AtMost(Before(v, OwnOffsets(v, o)) \ (Known \cup InHand(v) \cup InPipe(v, i)), Ahead(v))
<1>1. /\ InOrder(v) /\ LossesLive(v) /\ pipe[v] \in Seq(BatchesOf(v)) /\ PartsOf(v) \subseteq Partitions
      /\ raw[v] \in Seq(PartsOf(v) \X Nat) /\ next \in [Partitions -> Nat] /\ conf \in Confs
      /\ crashes \in Nat
  BY WorkersNumbered DEF StreamInv, InOrder, Typed, Shapes
<1>2. OwnOffsets(v, o) \in [PartsOf(v) -> Nat]
  BY <1>1 DEF OwnOffsets
<1>3. Before(v, OwnOffsets(v, o)) \subseteq Before(v, next)
  <2>1. \A p \in PartsOf(v) \cap DOMAIN OwnOffsets(v, o) :
          p \in DOMAIN next /\ OwnOffsets(v, o)[p] \in Nat /\ OwnOffsets(v, o)[p] <= next[p]
    BY <1>1, <1>2 DEF OwnOffsets
  <2>2. \A p \in PartsOf(v) \cap DOMAIN next : next[p] \in Nat
    BY <1>1
  <2> QED
    BY <2>1, <2>2, BeforeLess
<1> DEFINE L == Before(v, next) \ (Known \cup InFlight(v))
           later == Later(pipe[v], i)
<1>4. AtMost(L, LostBefore(v))
  BY <1>1 DEF LossesLive, LostRead
<1>5. conf.shuffle \in Nat \ {0} /\ conf.parallel \in Nat \ {0} /\ BatchSize \in Nat
  BY <1>1, Settings, WorkersNumbered
<1>6. AtMost(ToSet(raw[v]), conf.shuffle - 1)
  <2>1. AtMost(ToSet(raw[v]), Len(raw[v])) /\ Len(raw[v]) \in Nat /\ Len(raw[v]) < conf.shuffle
    BY <1>1, AtMostLen, LenProperties DEF InOrder, Sized
  <2>2. Len(raw[v]) <= conf.shuffle - 1
    BY <1>5, <2>1
  <2> QED
    BY <1>5, <2>1, <2>2, AtMostLess
<1>7. AtMost(later, (conf.parallel - 1) * BatchSize)
  <2>1. PICK n \in Nat : n = Len(pipe[v]) /\ DOMAIN pipe[v] = 1..n
    BY <1>1, BatchIs
  <2>2. n - i < conf.parallel /\ i \in Nat
    BY <1>1, <2>1 DEF InOrder, Sized
  <2>3. n - i <= conf.parallel - 1 /\ conf.parallel - 1 \in Nat
    BY <1>5, <2>1, <2>2
  <2>4. \A j \in 1..n : pipe[v][j].msgs \in Seq(PartsOf(v) \X Nat) /\ Len(pipe[v][j].msgs) <= BatchSize
    BY <1>1, <2>1, BatchIs DEF InOrder, Sized
  <2>5. PICK k \in Nat : k = conf.parallel - 1
    BY <2>3
  <2>6. n - i <= k
    BY <2>3, <2>5
  <2>7. AtMost(later, k * BatchSize)
    BY <2>1, <2>2, <2>4, <2>6, AtMostBatches
  <2> QED
    BY <2>5, <2>7
<1>8. InPipe(v, Len(pipe[v])) \subseteq InPipe(v, i) \cup later
  <2>1. DOMAIN pipe[v] \subseteq Nat /\ i \in Nat
    BY <1>1, BatchIs
  <2>2. \A j \in DOMAIN pipe[v] : j <= i \/ j > i
    BY <2>1
  <2> QED
    BY <2>2 DEF InPipe, Later
<1>9. Before(v, OwnOffsets(v, o)) \ (Known \cup InHand(v) \cup InPipe(v, i))
        \subseteq (L \cup ToSet(raw[v])) \cup later
  BY <1>3, <1>8 DEF InFlight
<1> HIDE DEF L, later
<1>10. PICK a \in Nat : a = (conf.parallel - 1) * BatchSize
  BY <1>1, LossNumbers
<1>11. PICK l \in Nat : l = LostBefore(v)
  BY <1>1, LossNumbers
<1>12. PICK s \in Nat : s = conf.shuffle - 1
  BY <1>5
<1>13. AtMost(L, l) /\ AtMost(ToSet(raw[v]), s) /\ AtMost(later, a)
  BY <1>4, <1>6, <1>7, <1>10, <1>11, <1>12
<1>14. AtMost(L \cup ToSet(raw[v]), l + s)
  <2>1. L \cup ToSet(raw[v]) \subseteq L \cup ToSet(raw[v]) /\ l \in Int /\ s \in Int
    OBVIOUS
  <2>2. AtMost(L, l) /\ AtMost(ToSet(raw[v]), s)
    BY <1>13
  <2> QED
    BY <2>1, <2>2, AtMostBoth, Zenon
<1>15. l + s \in Nat /\ Ahead(v) \in Nat /\ l + s + a = Ahead(v)
  <2>1. Ahead(v) = l + a + conf.shuffle - 1
    BY <1>10, <1>11 DEF Ahead
  <2> QED
    BY <1>5, <1>12, <2>1
<1>16. PICK t \in Nat : t = l + s
  BY <1>15
<1>17. PICK R : R = L \cup ToSet(raw[v])
  OBVIOUS
<1>18. AtMost(Before(v, OwnOffsets(v, o)) \ (Known \cup InHand(v) \cup InPipe(v, i)), Ahead(v))
  <2>1. AtMost(R, t) /\ AtMost(later, a)
    BY <1>13, <1>14, <1>16, <1>17
  <2>2. Before(v, OwnOffsets(v, o)) \ (Known \cup InHand(v) \cup InPipe(v, i)) \subseteq R \cup later
    BY <1>9, <1>17
  <2>3. t + a = Ahead(v)
    BY <1>15, <1>16
  <2> QED
    BY <2>1, <2>2, <2>3, AtMostBoth
<1> QED
  BY <1>2, <1>18 DEF OffsetsOf

(* Nothing but the parsing of a batch.                                     *)
LEMMA ParsingKeeps ==
  ASSUME StreamInv, NEW v \in Workers, wpc[v] = "run", NEW i \in DOMAIN pipe[v], NEW b \in BatchesOf(v),
         b.msgs = pipe[v][i].msgs, pipe' = [pipe EXCEPT ![v] = [pipe[v] EXCEPT ![i] = b]],
         \/ b.snap = pipe[v][i].snap
         \/ b.snap = OwnOffsets(v, off') /\ ~Parsed(pipe[v][i]),
         off' \in [Partitions -> Nat],
         \A p \in PartsOf(v) : off'[p] <= next[p],
         \A p \in Partitions : p \notin PartsOf(v) => off'[p] = off[p],
         UNCHANGED <<conf, wpc, next, fetch, raw, hand, ops, psVars, saveVars, diskVars, pastVars>>
  PROVE  StreamInv'
<1>1. /\ InOrder(v) /\ LossesLive(v) /\ pipe[v] \in Seq(BatchesOf(v)) /\ Shapes /\ DOMAIN pipe = Workers
  BY DEF StreamInv, InOrder, Typed, Shapes
<1>2. UNCHANGED <<model, gstep, slot, spc, saving, lastSaved, ckpt, file, done, early, crashes>>
  BY DEF psVars, saveVars, diskVars, pastVars
<1>3. /\ pipe'[v] = [pipe[v] EXCEPT ![i] = b] /\ DOMAIN pipe' = Workers
      /\ \A w \in Workers \ {v} : pipe'[w] = pipe[w]
  BY <1>1
<1>4. /\ pipe'[v] \in Seq(BatchesOf(v)) /\ Len(pipe'[v]) = Len(pipe[v])
      /\ DOMAIN pipe'[v] = DOMAIN pipe[v] /\ pipe'[v][i] = b
      /\ \A j \in DOMAIN pipe[v] \ {i} : pipe'[v][j] = pipe[v][j]
  BY <1>1, <1>3, Replaced
<1>5. \A j \in DOMAIN pipe[v] : pipe'[v][j].msgs = pipe[v][j].msgs
  BY <1>4
<1>6. /\ \A k : InPipe(v, k)' = InPipe(v, k)
      /\ InHand(v)' = InHand(v) /\ InFlight(v)' = InFlight(v) /\ Known' = Known
  <2>1. \A k : InPipe(v, k)' = InPipe(v, k)
    BY <1>4, <1>5 DEF InPipe
  <2>2. InHand(v)' = InHand(v) /\ Known' = Known
    BY <1>2 DEF InHand, Known
  <2> QED
    BY <1>4, <2>1, <2>2 DEF InFlight
<1>7. Shapes'
  BY <1>1, <1>2, <1>3 DEF Shapes
<1>8. ASSUME NEW w \in Workers, w # v
      PROVE  Same(w)
  <2>1. \A p \in PartsOf(w) : off'[p] = off[p]
    BY <1>8, OwnParts
  <2> QED
    BY <1>2, <1>3, <1>8, <2>1 DEF Same
<1>9. InOrder(v)'
  <2>1. Typed(v)' /\ Emptied(v)'
    BY <1>1, <1>2, <1>4 DEF InOrder, Typed, Emptied
  <2>2. Sized(v)'
    <3>1. ASSUME NEW j \in DOMAIN pipe[v]
          PROVE  /\ Len(pipe'[v][j].msgs) <= BatchSize
                 /\ ~Parsed(pipe'[v][j]) => Len(pipe[v]) - j < conf.parallel
      <4>1. CASE j = i
        BY <1>1, <1>4, <1>5, <4>1 DEF InOrder, Sized, Parsed
      <4>2. CASE j # i
        BY <1>1, <1>4, <1>5, <4>2 DEF InOrder, Sized
      <4> QED
        BY <4>1, <4>2
    <3> QED
      BY <1>1, <1>4, <3>1 DEF InOrder, Sized
  <2>3. Behind(v)'
    BY <1>1, <1>4, <1>5 DEF InOrder, Behind
  <2>4. Applied(v)'
    BY <1>1, <1>6 DEF InOrder, Applied
  <2> QED
    BY <2>1, <2>2, <2>3, <2>4 DEF InOrder
<1>10. LossesLive(v)'
  <2>1. Ahead(v)' = Ahead(v) /\ LostBefore(v)' = LostBefore(v) /\ LostBySlot(v)' = LostBySlot(v)
    BY <1>2 DEF Ahead, LostBefore, LossOf, Unsettled, LostBySlot
  <2>2. LostRead(v)' /\ LostHand(v)' /\ LostSlot(v)'
    BY <1>1, <1>2, <1>6, <2>1 DEF LossesLive, LostRead, LostHand, LostSlot
  <2>3. ASSUME NEW j \in DOMAIN pipe[v]
        PROVE  AtMost(Before(v, pipe'[v][j].snap) \ (Known \cup InHand(v) \cup InPipe(v, j)), Ahead(v))
    <3>1. CASE pipe'[v][j].snap = pipe[v][j].snap
      BY <1>1, <3>1 DEF LossesLive, LostPipe
    <3>2. CASE pipe'[v][j].snap # pipe[v][j].snap
      <4>1. j = i /\ pipe'[v][j].snap = OwnOffsets(v, off') /\ ~Parsed(pipe[v][i])
        BY <1>4, <3>2
      <4> QED
        BY <4>1, SnapshotIs
    <3> QED
      BY <3>1, <3>2
  <2>4. LostPipe(v)'
    <3>1. DOMAIN pipe'[v] = DOMAIN pipe[v]
      BY <1>4
    <3>2. \A j \in DOMAIN pipe[v] :
            Known' \cup InHand(v)' \cup InPipe(v, j)' = Known \cup InHand(v) \cup InPipe(v, j)
      BY <1>6
    <3>3. Ahead(v)' = Ahead(v)
      BY <2>1
    <3>4. \A j \in DOMAIN pipe[v] :
            AtMost(Before(v, pipe'[v][j].snap) \ (Known' \cup InHand(v)' \cup InPipe(v, j)'), Ahead(v)')
      BY <2>3, <3>2, <3>3
    <3> QED
      BY <3>1, <3>4 DEF LostPipe
  <2> QED
    BY <2>2, <2>4 DEF LossesLive
<1>11. Saves'
  BY <1>2, SavesStay DEF StreamInv, saveVars, diskVars
<1> QED
  BY <1>2, <1>6, <1>7, <1>8, <1>9, <1>10, <1>11, OneWorker

(* Comparing changes nothing that counts.                                  *)
LEMMA CompareKeeps ==
  ASSUME StreamInv, NEW v \in Workers, NEW i \in DOMAIN pipe[v], Compare(v, i)
  PROVE  StreamInv'
<1> DEFINE b == [pipe[v][i] EXCEPT !.saw = OwnOffsets(v, off)]
<1>1. /\ wpc[v] = "run" /\ pipe' = [pipe EXCEPT ![v][i].saw = OwnOffsets(v, off)]
      /\ UNCHANGED <<conf, wpc, next, off, fetch, raw, hand, ops, psVars, saveVars, diskVars, pastVars>>
  BY DEF Compare, Running, readVars
<1>2. pipe' = [pipe EXCEPT ![v] = [pipe[v] EXCEPT ![i] = b]]
  BY <1>1
<1>3. /\ pipe[v][i] \in BatchesOf(v) /\ off \in [Partitions -> Nat] /\ PartsOf(v) \subseteq Partitions
      /\ \A p \in PartsOf(v) : off[p] <= next[p]
  BY WorkersNumbered, BatchIs DEF StreamInv, Shapes, InOrder, Typed, Behind
<1>4. OwnOffsets(v, off) \in OffsetsOf(v)
  BY <1>3 DEF OwnOffsets, OffsetsOf
<1>5. b \in BatchesOf(v) /\ b.msgs = pipe[v][i].msgs /\ b.snap = pipe[v][i].snap
  BY <1>3, <1>4 DEF BatchesOf
<1> HIDE DEF b
<1>6. /\ off' \in [Partitions -> Nat] /\ \A p \in PartsOf(v) : off'[p] <= next[p]
      /\ \A p \in Partitions : p \notin PartsOf(v) => off'[p] = off[p]
  BY <1>1, <1>3
<1> QED
  BY <1>1, <1>2, <1>5, <1>6, ParsingKeeps

(* A batch takes along offsets that are not ahead of what is read.         *)
LEMMA SnapKeeps ==
  ASSUME StreamInv, NEW v \in Workers, NEW i \in DOMAIN pipe[v], wpc[v] = "run", ~Parsed(pipe[v][i]),
         off' \in [Partitions -> Nat],
         \A p \in PartsOf(v) : off'[p] <= next[p],
         \A p \in Partitions : p \notin PartsOf(v) => off'[p] = off[p],
         pipe' = [pipe EXCEPT ![v][i].snap = OwnOffsets(v, off')],
         UNCHANGED <<conf, wpc, next, fetch, raw, hand, ops, psVars, saveVars, diskVars, pastVars>>
  PROVE  StreamInv'
<1> DEFINE b == [pipe[v][i] EXCEPT !.snap = OwnOffsets(v, off')]
<1>1. pipe' = [pipe EXCEPT ![v] = [pipe[v] EXCEPT ![i] = b]]
  OBVIOUS
<1>2. pipe[v][i] \in BatchesOf(v) /\ PartsOf(v) \subseteq Partitions
  BY WorkersNumbered, BatchIs DEF StreamInv, InOrder, Typed
<1>3. OwnOffsets(v, off') \in OffsetsOf(v)
  BY <1>2 DEF OwnOffsets, OffsetsOf
<1>4. b \in BatchesOf(v) /\ b.msgs = pipe[v][i].msgs /\ b.snap = OwnOffsets(v, off')
  BY <1>2, <1>3 DEF BatchesOf
<1> HIDE DEF b
<1> QED
  BY <1>1, <1>4, ParsingKeeps

(* DataHub's dictionary is not ahead of what is read.                      *)
LEMMA DumpKeeps ==
  ASSUME StreamInv, NEW v \in Workers, NEW i \in DOMAIN pipe[v], Dump(v, i)
  PROVE  StreamInv'
<1>1. /\ wpc[v] = "run" /\ ~Parsed(pipe[v][i]) /\ pipe' = [pipe EXCEPT ![v][i].snap = OwnOffsets(v, off)]
      /\ UNCHANGED <<conf, wpc, next, off, fetch, raw, hand, ops, psVars, saveVars, diskVars, pastVars>>
  BY DEF Dump, Running, readVars
<1>2. off \in [Partitions -> Nat] /\ \A p \in PartsOf(v) : off[p] <= next[p]
  BY DEF StreamInv, Shapes, InOrder, Behind
<1>3. off' = off
  BY <1>1
<1> QED
  BY <1>1, <1>2, <1>3, SnapKeeps

(* Nor is Kafka's, which gets offsets of messages of the batch.            *)
LEMMA RecordKeeps ==
  ASSUME StreamInv, NEW v \in Workers, NEW i \in DOMAIN pipe[v], Record(v, i)
  PROVE  StreamInv'
<1> DEFINE b == pipe[v][i]
           saw == IF conf.parallel > 1 THEN b.saw ELSE OwnOffsets(v, off)
           Newer(p) == {x \in 0..End(p) : <<p, x>> \in ToSet(b.msgs) /\ x > saw[p]}
<1>1. /\ wpc[v] = "run" /\ ~Parsed(pipe[v][i])
      /\ off' = [p \in Partitions |->
                   IF p \in PartsOf(v) /\ Newer(p) # {} THEN Max(Newer(p)) ELSE off[p]]
      /\ pipe' = [pipe EXCEPT ![v][i].snap = OwnOffsets(v, off')]
      /\ UNCHANGED <<conf, wpc, next, fetch, raw, hand, ops, psVars, saveVars, diskVars, pastVars>>
  BY DEF Record, Running
<1> HIDE DEF saw
<1>2. /\ off \in [Partitions -> Nat] /\ \A p \in PartsOf(v) : off[p] <= next[p]
      /\ next \in [Partitions -> Nat] /\ PartsOf(v) \subseteq Partitions /\ conf \in Confs
      /\ \A m \in ToSet(b.msgs) : m[2] < next[m[1]]
  BY WorkersNumbered DEF StreamInv, Shapes, InOrder, Behind
<1>3. ASSUME NEW p \in PartsOf(v), Newer(p) # {}
      PROVE  Max(Newer(p)) \in Nat /\ Max(Newer(p)) <= next[p]
  <2>1. End(p) \in Nat
    BY <1>2, Settings
  <2>2. Newer(p) \subseteq 0..End(p)
    OBVIOUS
  <2>3. Max(Newer(p)) \in Newer(p)
    BY <1>3, <2>1, <2>2, GreatestOf
  <2>4. Max(Newer(p)) \in 0..End(p) /\ <<p, Max(Newer(p))>> \in ToSet(b.msgs)
    BY <2>3
  <2>5. PICK x \in 0..End(p) : x = Max(Newer(p)) /\ <<p, x>> \in ToSet(b.msgs)
    BY <2>4
  <2>6. x \in Nat /\ next[p] \in Nat
    BY <1>2, <2>1
  <2>7. x < next[p]
    BY <1>2, <2>5
  <2> QED
    BY <2>5, <2>6, <2>7
<1> HIDE DEF Newer
<1>4. off' \in [Partitions -> Nat]
  BY <1>1, <1>2, <1>3
<1>5. \A p \in PartsOf(v) : off'[p] <= next[p]
  BY <1>1, <1>2, <1>3
<1>6. \A p \in Partitions : p \notin PartsOf(v) => off'[p] = off[p]
  BY <1>1
<1> QED
  BY <1>1, <1>4, <1>5, <1>6, SnapKeeps

(* A fetch that is yielded whole has been read up to its end.              *)
LEMMA FetchDoneKeeps ==
  ASSUME StreamInv, NEW v \in Workers, FetchDone(v)
  PROVE  StreamInv'
<1> DEFINE q == fetch[v][1]
<1>1. /\ fetch[v] # <<>> /\ wpc[v] = "run" /\ next[q] = fetch[v][2]
      /\ off' = [off EXCEPT ![q] = fetch[v][2]]
      /\ fetch' = [fetch EXCEPT ![v] = <<>>]
      /\ UNCHANGED <<conf, wpc, next, raw, pipe, hand, ops, model, gstep, slot, spc, saving, lastSaved,
                     ckpt, file, done, early, crashes>>
  BY DEF FetchDone, Pulling, Running, pipeVars, psVars, saveVars, diskVars, pastVars
<1>2. /\ Shapes /\ InOrder(v) /\ LossesLive(v) /\ off \in [Partitions -> Nat] /\ DOMAIN fetch = Workers
      /\ next \in [Partitions -> Nat] /\ PartsOf(v) \subseteq Partitions
  BY WorkersNumbered DEF StreamInv, Shapes
<1>3. q \in PartsOf(v) /\ fetch[v][2] \in Nat
  BY <1>1, <1>2 DEF InOrder, Typed
<1> HIDE DEF q
<1>4. off' = [off EXCEPT ![q] = next[q]] /\ next[q] \in Nat
  BY <1>1, <1>2, <1>3
<1>5. /\ off' \in [Partitions -> Nat] /\ off'[q] = next[q]
      /\ \A p \in Partitions \ {q} : off'[p] = off[p]
  BY <1>2, <1>3, <1>4
<1>6. Known' = Known
  BY <1>1 DEF Known
<1>7. Shapes'
  BY <1>1, <1>2, <1>5 DEF Shapes
<1>8. ASSUME NEW w \in Workers, w # v
      PROVE  Same(w)
  <2>1. \A p \in PartsOf(w) : off'[p] = off[p]
    BY <1>3, <1>5, <1>8, OwnParts
  <2> QED
    BY <1>1, <1>2, <1>8, <2>1 DEF Same
<1>9. InOrder(v)'
  <2>1. fetch'[v] = <<>>
    BY <1>1, <1>2
  <2>2. Typed(v)' /\ Emptied(v)' /\ Sized(v)'
    BY <1>1, <1>2, <2>1 DEF InOrder, Typed, Emptied, Sized
  <2>3. \A p \in PartsOf(v) : off'[p] <= next[p]
    BY <1>2, <1>5, <1>4 DEF InOrder, Behind
  <2>4. Behind(v)'
    BY <1>1, <1>2, <2>3 DEF InOrder, Behind
  <2>5. Applied(v)'
    BY <1>1, <1>2, <1>6 DEF InOrder, Applied, InHand
  <2> QED
    BY <2>2, <2>4, <2>5 DEF InOrder
<1>10. LossesLive(v)'
  <2>1. /\ Ahead(v)' = Ahead(v) /\ LostBefore(v)' = LostBefore(v) /\ LostBySlot(v)' = LostBySlot(v)
        /\ InHand(v)' = InHand(v) /\ InFlight(v)' = InFlight(v)
        /\ \A i \in DOMAIN pipe[v] : InPipe(v, i)' = InPipe(v, i)
    BY <1>1 DEF Ahead, LostBefore, LossOf, Unsettled, LostBySlot, InHand, InFlight, InPipe
  <2> QED
    BY <1>1, <1>2, <1>6, <2>1 DEF LossesLive, LostRead, LostPipe, LostHand, LostSlot
<1>11. Saves'
  BY <1>1, SavesStay DEF StreamInv, saveVars, diskVars
<1> QED
  BY <1>1, <1>6, <1>7, <1>8, <1>9, <1>10, <1>11, OneWorker DEF saveVars, diskVars

(* The window has room for a batch that is not parsed.                     *)
LEMMA WindowIs ==
  ASSUME StreamInv, NEW v \in Workers, NEW j \in DOMAIN pipe[v], ~Parsed(pipe[v][j]), NewBatch(v)
  PROVE  Len(pipe[v]) + 1 - j < conf.parallel
<1> DEFINE S == {i \in DOMAIN pipe[v] : ~Parsed(pipe[v][i])} \cup {Len(pipe[v]) + 1}
<1>1. DOMAIN pipe[v] = 1..Len(pipe[v]) /\ Len(pipe[v]) \in Nat
  BY LenProperties DEF StreamInv, InOrder, Typed
<1>2. S \subseteq Nat /\ j \in S
  BY <1>1
<1>3. Min(S) \in Nat /\ Min(S) <= j
  BY <1>2, LeastOf
<1>4. Len(pipe[v]) + 1 - Min(S) < conf.parallel
  BY DEF NewBatch, FirstUnparsed
<1> HIDE DEF S
<1>5. conf.parallel \in Nat /\ j \in Nat
  BY <1>1, Settings DEF StreamInv, Shapes
<1> QED
  BY <1>1, <1>3, <1>4, <1>5

(* The shuffle buffer takes a message, and gives one to the pipeline or    *)
(* none.                                                                   *)
Grown(v, q, e) ==
  /\ q \in Seq(BatchesOf(v)) /\ Len(q) \in Nat /\ DOMAIN q = 1..Len(q)
  /\ DOMAIN pipe[v] \subseteq DOMAIN q /\ Len(pipe[v]) <= Len(q)
  /\ \A i \in DOMAIN pipe[v] : /\ q[i].snap = pipe[v][i].snap
                               /\ ToSet(pipe[v][i].msgs) \subseteq ToSet(q[i].msgs)
  /\ \A i \in DOMAIN q \ DOMAIN pipe[v] : q[i].snap = NoOffsets
  /\ \A i \in DOMAIN q :
       /\ Len(q[i].msgs) <= BatchSize
       /\ ~Parsed(q[i]) => Len(q) - i < conf.parallel
       /\ \A m \in ToSet(q[i].msgs) :
            m = e \/ (i \in DOMAIN pipe[v] /\ m \in ToSet(pipe[v][i].msgs))
  /\ \E i \in DOMAIN q : e \in ToSet(q[i].msgs)

(* The pipeline takes a message into its last batch, or into a new one if  *)
(* the window has room.                                                    *)
LEMMA BatchGrows ==
  ASSUME StreamInv, NEW v \in Workers, Pulling(v), NEW e \in PartsOf(v) \X Nat, NEW q,
         q = Batched(v, e)
  PROVE  Grown(v, q, e)
<1>1. /\ pipe[v] \in Seq(BatchesOf(v)) /\ DOMAIN pipe[v] = 1..Len(pipe[v]) /\ Len(pipe[v]) \in Nat
      /\ InOrder(v) /\ BatchSize \in Nat \ {0} /\ conf.parallel \in Nat \ {0}
      /\ \A i \in DOMAIN pipe[v] :
           /\ Len(pipe[v][i].msgs) <= BatchSize
           /\ ~Parsed(pipe[v][i]) => Len(pipe[v]) - i < conf.parallel
  BY LenProperties, Settings, WorkersNumbered DEF StreamInv, InOrder, Typed, Shapes, Sized
<1>2. CASE OpenBatch(v)
  <2> DEFINE n == Len(pipe[v])
             b == [pipe[v][n] EXCEPT !.msgs = Append(pipe[v][n].msgs, e)]
  <2>1. pipe[v] # <<>> /\ ~Full(Last(pipe[v]))
    BY <1>2 DEF OpenBatch
  <2>2. n \in DOMAIN pipe[v] /\ Last(pipe[v]) = pipe[v][n]
    BY <1>1, <2>1, EmptySeq DEF Last
  <2>3. /\ pipe[v][n] \in BatchesOf(v) /\ pipe[v][n].msgs \in Seq(PartsOf(v) \X Nat)
        /\ Len(pipe[v][n].msgs) \in Nat /\ Len(pipe[v][n].msgs) <= BatchSize
        /\ Len(pipe[v][n].msgs) # BatchSize
    BY <1>1, <2>1, <2>2, BatchIs DEF Full
  <2>4. /\ Append(pipe[v][n].msgs, e) \in Seq(PartsOf(v) \X Nat)
        /\ Len(Append(pipe[v][n].msgs, e)) = Len(pipe[v][n].msgs) + 1
        /\ ToSet(Append(pipe[v][n].msgs, e)) = ToSet(pipe[v][n].msgs) \cup {e}
    BY <2>3, Appended
  <2>5. b \in BatchesOf(v) /\ b.snap = pipe[v][n].snap /\ b.msgs = Append(pipe[v][n].msgs, e)
    BY <2>3, <2>4 DEF BatchesOf
  <2>6. q = [pipe[v] EXCEPT ![n] = b]
    BY <1>2 DEF Batched
  <2> HIDE DEF n, b
  <2>7. /\ q \in Seq(BatchesOf(v)) /\ Len(q) = Len(pipe[v]) /\ DOMAIN q = DOMAIN pipe[v] /\ q[n] = b
        /\ \A j \in DOMAIN pipe[v] \ {n} : q[j] = pipe[v][j]
    <3>1. pipe[v] \in Seq(BatchesOf(v)) /\ n \in DOMAIN pipe[v] /\ b \in BatchesOf(v)
      BY <1>1, <2>2, <2>5
    <3> DEFINE r == [pipe[v] EXCEPT ![n] = b]
    <3>2. /\ r \in Seq(BatchesOf(v)) /\ Len(r) = Len(pipe[v]) /\ DOMAIN r = DOMAIN pipe[v] /\ r[n] = b
          /\ \A j \in DOMAIN pipe[v] \ {n} : r[j] = pipe[v][j]
      BY <3>1, Replaced
    <3>3. q = r
      BY <2>6
    <3> HIDE DEF r
    <3> QED
      BY <3>2, <3>3
  <2>8. Len(b.msgs) <= BatchSize
    BY <1>1, <2>3, <2>4, <2>5
  <2>9. Parsed(b) <=> Parsed(pipe[v][n])
    BY <2>5 DEF Parsed
  <2>10. ASSUME NEW i \in DOMAIN q
         PROVE  /\ Len(q[i].msgs) <= BatchSize /\ q[i].snap = pipe[v][i].snap
                /\ ToSet(pipe[v][i].msgs) \subseteq ToSet(q[i].msgs)
                /\ ~Parsed(q[i]) => Len(q) - i < conf.parallel
                /\ \A m \in ToSet(q[i].msgs) : m = e \/ m \in ToSet(pipe[v][i].msgs)
    <3>1. CASE i = n
      BY <1>1, <2>2, <2>4, <2>5, <2>7, <2>8, <2>9, <3>1
    <3>2. CASE i # n
      BY <1>1, <2>7, <3>2
    <3> QED
      BY <3>1, <3>2
  <2>11. \E i \in DOMAIN q : e \in ToSet(q[i].msgs)
    BY <2>2, <2>4, <2>5, <2>7
  <2> QED
    <3>1. /\ Len(q) \in Nat /\ DOMAIN q = 1..Len(q) /\ DOMAIN pipe[v] \subseteq DOMAIN q
          /\ Len(pipe[v]) <= Len(q)
      BY <1>1, <2>7
    <3>2. DOMAIN q \ DOMAIN pipe[v] = {}
      BY <2>7
    <3> QED
      BY <2>7, <2>10, <2>11, <3>1, <3>2, Zenon DEF Grown
<1>3. CASE ~OpenBatch(v)
  <2>1. NewBatch(v) /\ q = Append(pipe[v], Batch(e))
    BY <1>3 DEF Pulling, Batched
  <2>2. /\ <<e>> \in Seq(PartsOf(v) \X Nat) /\ Len(<<e>>) = 1 /\ ToSet(<<e>>) = {e}
    <3>1. DOMAIN <<e>> = {1} /\ <<e>>[1] = e
      OBVIOUS
    <3>2. ToSet(<<e>>) = {e}
      BY <3>1 DEF ToSet
    <3> QED
      BY <3>2
  <2>3. /\ Batch(e) \in BatchesOf(v) /\ Batch(e).snap = NoOffsets /\ Batch(e).msgs = <<e>>
    BY <2>2 DEF Batch, BatchesOf, OffsetsOf
  <2>4. PICK n \in Nat : n = Len(pipe[v])
    BY <1>1
  <2>5. /\ q \in Seq(BatchesOf(v)) /\ Len(q) = n + 1 /\ DOMAIN q = 1..(n + 1)
        /\ \A i \in 1..n : q[i] = pipe[v][i]
        /\ q[n + 1] = Batch(e) /\ DOMAIN pipe[v] = 1..n
    BY <1>1, <2>1, <2>3, <2>4, Appended
  <2>6. \A i \in 1..(n + 1) : i \in 1..n \/ i = n + 1
    OBVIOUS
  <2>7. \A i \in 1..n : i \in 1..(n + 1)
    OBVIOUS
  <2>8. n + 1 \in 1..(n + 1) /\ (n + 1) - (n + 1) < conf.parallel /\ 1 <= BatchSize
    BY <1>1
  <2>9. \A i \in 1..n : ~Parsed(q[i]) => (n + 1) - i < conf.parallel
    BY <2>1, <2>4, <2>5, WindowIs
  <2>10. ASSUME NEW i \in DOMAIN q
         PROVE  /\ Len(q[i].msgs) <= BatchSize
                /\ ~Parsed(q[i]) => Len(q) - i < conf.parallel
                /\ \A m \in ToSet(q[i].msgs) : m = e \/ (i \in DOMAIN pipe[v] /\ m \in ToSet(pipe[v][i].msgs))
    <3>1. CASE i = n + 1
      <4>1. q[i] = Batch(e) /\ Len(q) = n + 1
        BY <2>5, <3>1
      <4>2. Len(q[i].msgs) = 1 /\ ToSet(q[i].msgs) = {e}
        BY <2>2, <2>3, <4>1
      <4>3. Len(q[i].msgs) <= BatchSize
        BY <2>8, <4>2
      <4>4. Len(q) - i < conf.parallel
        BY <2>8, <3>1, <4>1
      <4> QED
        BY <4>2, <4>3, <4>4
    <3>2. CASE i \in 1..n
      BY <1>1, <2>5, <2>9, <3>2
    <3> QED
      BY <2>5, <2>6, <3>1, <3>2
  <2>11. \E i \in DOMAIN q : e \in ToSet(q[i].msgs)
    BY <2>2, <2>3, <2>5, <2>8
  <2>12. \A i \in DOMAIN q \ DOMAIN pipe[v] : q[i].snap = NoOffsets
    BY <2>3, <2>5, <2>6
  <2>13. DOMAIN pipe[v] \subseteq DOMAIN q /\ Len(pipe[v]) <= Len(q) /\ Len(q) \in Nat
         /\ DOMAIN q = 1..Len(q)
    BY <2>4, <2>5, <2>7
  <2>14. \A i \in DOMAIN pipe[v] : q[i] = pipe[v][i]
    BY <2>5
  <2> QED
    BY <2>5, <2>10, <2>11, <2>12, <2>13, <2>14 DEF Grown
<1> QED
  BY <1>2, <1>3

(* What Read makes of the buffer and the pipeline: a message joins what is *)
(* in flight, and nothing else does, and nothing leaves.                   *)
Taken(v, p) ==
  /\ DOMAIN raw' = Workers /\ DOMAIN pipe' = Workers
  /\ \A w \in Workers \ {v} : raw'[w] = raw[w] /\ pipe'[w] = pipe[w]
  /\ raw'[v] \in Seq(PartsOf(v) \X Nat) /\ Len(raw'[v]) < conf.shuffle
  /\ pipe'[v] \in Seq(BatchesOf(v)) /\ Len(pipe'[v]) \in Nat
  /\ DOMAIN pipe'[v] = 1..Len(pipe'[v])
  /\ DOMAIN pipe[v] \subseteq DOMAIN pipe'[v] /\ Len(pipe[v]) <= Len(pipe'[v])
  /\ \A i \in DOMAIN pipe[v] : /\ pipe'[v][i].snap = pipe[v][i].snap
                               /\ ToSet(pipe[v][i].msgs) \subseteq ToSet(pipe'[v][i].msgs)
  /\ \A i \in DOMAIN pipe'[v] \ DOMAIN pipe[v] : pipe'[v][i].snap = NoOffsets
  /\ \A i \in DOMAIN pipe'[v] :
       /\ Len(pipe'[v][i].msgs) <= BatchSize
       /\ ~Parsed(pipe'[v][i]) => Len(pipe'[v]) - i < conf.parallel
       /\ \A m \in ToSet(pipe'[v][i].msgs) :
            \/ m \in ToSet(raw[v]) \cup {<<p, next[p]>>}
            \/ i \in DOMAIN pipe[v] /\ m \in ToSet(pipe[v][i].msgs)
  /\ ToSet(raw'[v]) \subseteq ToSet(raw[v]) \cup {<<p, next[p]>>}
  /\ \A m \in ToSet(raw[v]) \cup {<<p, next[p]>>} :
       m \in ToSet(raw'[v]) \/ \E i \in DOMAIN pipe'[v] : m \in ToSet(pipe'[v][i].msgs)

(* Read takes the next message in, and hands on one of the buffer or none. *)
LEMMA ReadGives ==
  ASSUME StreamInv, NEW v \in Workers, NEW p \in PartsOf(v), Read(v, p)
  PROVE  Taken(v, p)
<1> DEFINE e == <<p, next[p]>>
           buffer == Append(raw[v], e)
<1>1. /\ raw[v] \in Seq(PartsOf(v) \X Nat) /\ e \in PartsOf(v) \X Nat
      /\ DOMAIN raw = Workers /\ DOMAIN pipe = Workers /\ pipe[v] \in Seq(BatchesOf(v))
      /\ \A i \in DOMAIN pipe[v] : /\ Len(pipe[v][i].msgs) <= BatchSize
                                   /\ ~Parsed(pipe[v][i]) => Len(pipe[v]) - i < conf.parallel
      /\ conf.shuffle \in Nat
  BY WorkersNumbered, Settings DEF StreamInv, Shapes, InOrder, Typed, Sized
<1>2. Pulling(v) /\ (\/ /\ Len(buffer) < conf.shuffle
                        /\ raw' = [raw EXCEPT ![v] = buffer] /\ pipe' = pipe
                     \/ /\ Len(buffer) = conf.shuffle
                        /\ \E i \in DOMAIN buffer :
                             /\ raw' = [raw EXCEPT ![v] = RemoveAt(buffer, i)]
                             /\ pipe' = [pipe EXCEPT ![v] = Batched(v, buffer[i])])
  BY DEF Read
<1>3. /\ buffer \in Seq(PartsOf(v) \X Nat) /\ DOMAIN buffer = 1..Len(buffer)
      /\ ToSet(buffer) = ToSet(raw[v]) \cup {e} /\ Len(buffer) \in Nat
  <2>1. buffer \in Seq(PartsOf(v) \X Nat) /\ ToSet(buffer) = ToSet(raw[v]) \cup {e}
    BY <1>1, Appended
  <2> QED
    BY <2>1, LenProperties
<1> HIDE DEF buffer, e
<1>4. CASE raw' = [raw EXCEPT ![v] = buffer] /\ pipe' = pipe /\ Len(buffer) < conf.shuffle
  <2>1. raw'[v] = buffer /\ DOMAIN raw' = Workers /\ \A w \in Workers \ {v} : raw'[w] = raw[w]
    BY <1>1, <1>4
  <2>2. DOMAIN pipe[v] = 1..Len(pipe[v]) /\ Len(pipe[v]) \in Nat
    BY <1>1, LenProperties
  <2> QED
    BY <1>1, <1>3, <1>4, <2>1, <2>2 DEF e, Taken
<1>5. ASSUME NEW i \in DOMAIN buffer, Len(buffer) = conf.shuffle,
             raw' = [raw EXCEPT ![v] = RemoveAt(buffer, i)],
             NEW q, q = Batched(v, buffer[i]), pipe' = [pipe EXCEPT ![v] = q]
      PROVE  Taken(v, p)
  <2>1. /\ buffer[i] \in PartsOf(v) \X Nat
        /\ RemoveAt(buffer, i) \in Seq(PartsOf(v) \X Nat)
        /\ Len(RemoveAt(buffer, i)) = Len(buffer) - 1
        /\ ToSet(buffer) = ToSet(RemoveAt(buffer, i)) \cup {buffer[i]}
    BY <1>3, Removed
  <2>2. /\ raw'[v] = RemoveAt(buffer, i) /\ DOMAIN raw' = Workers
        /\ \A w \in Workers \ {v} : raw'[w] = raw[w]
    BY <1>1, <1>5
  <2>3. pipe'[v] = q /\ DOMAIN pipe' = Workers /\ \A w \in Workers \ {v} : pipe'[w] = pipe[w]
    BY <1>1, <1>5
  <2>4. Grown(v, q, buffer[i])
    <3>1. Pulling(v)
      BY <1>2
    <3> QED
      BY <1>5, <2>1, <3>1, BatchGrows
  <2>5. Len(raw'[v]) < conf.shuffle
    BY <1>1, <1>3, <1>5, <2>1, <2>2
  <2>6. buffer[i] \in ToSet(raw[v]) \cup {e}
    BY <1>3, <2>1
  <2>7. ToSet(raw'[v]) \subseteq ToSet(raw[v]) \cup {e}
    BY <1>3, <2>1, <2>2
  <2>8. \A m \in ToSet(raw[v]) \cup {e} :
          m \in ToSet(raw'[v]) \/ \E j \in DOMAIN q : m \in ToSet(q[j].msgs)
    BY <1>3, <2>1, <2>2, <2>4 DEF Grown
  <2>9. \A j \in DOMAIN q : \A m \in ToSet(q[j].msgs) :
          \/ m \in ToSet(raw[v]) \cup {e}
          \/ j \in DOMAIN pipe[v] /\ m \in ToSet(pipe[v][j].msgs)
    BY <2>4, <2>6 DEF Grown
  <2> QED
    BY <2>1, <2>2, <2>3, <2>4, <2>5, <2>7, <2>8, <2>9 DEF Taken, Grown, e
<1> QED
  <2>1. CASE Len(buffer) < conf.shuffle
    <3>1. Len(buffer) # conf.shuffle
      BY <1>1, <1>3, <2>1
    <3> QED
      BY <1>2, <1>4, <2>1, <3>1
  <2>2. CASE ~(Len(buffer) < conf.shuffle)
    <3>1. Len(buffer) = conf.shuffle
      BY <1>2, <2>2
    <3>2. PICK i \in DOMAIN buffer :
            /\ raw' = [raw EXCEPT ![v] = RemoveAt(buffer, i)]
            /\ pipe' = [pipe EXCEPT ![v] = Batched(v, buffer[i])]
      BY <1>2, <2>2
    <3> QED
      BY <1>5, <3>1, <3>2
  <2> QED
    BY <2>1, <2>2

(* Reading loses nothing: what is read is in flight.                       *)
LEMMA ReadKeeps ==
  ASSUME StreamInv, NEW v \in Workers, NEW p \in Partitions, Read(v, p)
  PROVE  StreamInv'
<1> DEFINE e == <<p, next[p]>>
<1>1. /\ p \in PartsOf(v) /\ wpc[v] = "run" /\ next' = [next EXCEPT ![p] = next[p] + 1]
      /\ UNCHANGED <<conf, wpc, off, hand, ops, model, gstep, slot, spc, saving, lastSaved,
                     ckpt, file, done, early, crashes>>
  BY DEF Read, Pulling, Running, psVars, saveVars, diskVars, pastVars
<1>2. /\ Shapes /\ InOrder(v) /\ LossesLive(v) /\ DOMAIN fetch = Workers
      /\ next \in [Partitions -> Nat] /\ off \in [Partitions -> Nat] /\ PartsOf(v) \subseteq Partitions
      /\ raw[v] \in Seq(PartsOf(v) \X Nat) /\ pipe[v] \in Seq(BatchesOf(v)) /\ DOMAIN hand = Workers
  BY WorkersNumbered DEF StreamInv, Shapes, InOrder, Typed
<1>3. Taken(v, p)
  BY <1>1, ReadGives
<1>4. /\ next' \in [Partitions -> Nat] /\ next'[p] = next[p] + 1 /\ next[p] \in Nat
      /\ \A u \in Partitions \ {p} : next'[u] = next[u]
      /\ \A u \in Partitions : next[u] <= next'[u]
  BY <1>1, <1>2
<1>5. /\ DOMAIN fetch' = Workers /\ \A w \in Workers \ {v} : fetch'[w] = fetch[w]
      /\ fetch'[v] = <<>> \/ fetch'[v] \in PartsOf(v) \X Nat
  <2>1. CASE fetch' = fetch
    BY <1>2, <2>1 DEF InOrder, Typed
  <2>2. CASE fetch' # fetch
    <3>1. PICK f \in Fetches(v, p) : fetch' = [fetch EXCEPT ![v] = f]
      BY <2>2 DEF Read
    <3>2. f \in PartsOf(v) \X Nat
      <4>1. CASE fetch[v] = <<>>
        <5>1. PICK c \in off[p] + 1..off[p] + ReadCnt : f = <<p, c>>
          BY <3>1, <4>1 DEF Fetches
        <5>2. c \in Nat
          BY <1>1, <1>2, <5>1, StreamAssumption
        <5> QED
          BY <1>1, <5>1, <5>2
      <4>2. CASE fetch[v] # <<>>
        BY <1>2, <3>1, <4>2 DEF Fetches, InOrder, Typed
      <4> QED
        BY <4>1, <4>2
    <3> QED
      BY <1>2, <3>1, <3>2
  <2> QED
    BY <2>1, <2>2
<1>6. Shapes'
  BY <1>1, <1>2, <1>3, <1>4, <1>5 DEF Shapes, Taken
<1>7. /\ Known' = Known /\ InHand(v)' = InHand(v)
      /\ Ahead(v)' = Ahead(v) /\ LostBefore(v)' = LostBefore(v) /\ LostBySlot(v)' = LostBySlot(v)
      /\ Ahead(v) \in Nat /\ LostBefore(v) \in Nat
  BY <1>1, <1>2, LossNumbers
     DEF Shapes, Known, InHand, Ahead, LostBefore, LossOf, Unsettled, LostBySlot
<1>8. ASSUME NEW w \in Workers, w # v
      PROVE  Same(w)
  <2>1. \A u \in PartsOf(w) : next'[u] = next[u] /\ off'[u] = off[u]
    BY <1>1, <1>4, <1>8, OwnParts
  <2> QED
    BY <1>1, <1>3, <1>5, <1>8, <2>1 DEF Same, Taken
<1>9. \A m \in ToSet(raw[v]) \cup {e} : m \in PartsOf(v) \X Nat /\ m[2] < next'[m[1]]
  <2>1. ASSUME NEW m \in ToSet(raw[v])
        PROVE  m \in PartsOf(v) \X Nat /\ m[2] < next'[m[1]]
    <3>1. m \in PartsOf(v) \X Nat /\ m[2] < next[m[1]]
      BY <1>2, MessageIs DEF InOrder, Behind
    <3>2. m[2] \in Nat /\ next[m[1]] \in Nat /\ next'[m[1]] \in Nat /\ next[m[1]] <= next'[m[1]]
      BY <1>2, <1>4, <3>1
    <3> QED
      BY <3>1, <3>2
  <2>2. e \in PartsOf(v) \X Nat /\ e[2] < next'[e[1]]
    BY <1>1, <1>4
  <2> QED
    BY <2>1, <2>2
<1>10. InOrder(v)'
  <2>1. Typed(v)'
    BY <1>1, <1>2, <1>3, <1>5 DEF InOrder, Typed, Taken
  <2>2. Emptied(v)'
    BY <1>1 DEF Emptied
  <2>3. Sized(v)'
    BY <1>1, <1>2, <1>3 DEF InOrder, Sized, Taken
  <2>4. Behind(v)'
    <3>1. \A u \in PartsOf(v) : off'[u] <= next'[u]
      <4> SUFFICES ASSUME NEW u \in PartsOf(v) PROVE off'[u] <= next'[u]
        OBVIOUS
      <4>1. off[u] \in Nat /\ next[u] \in Nat /\ next'[u] \in Nat /\ off[u] <= next[u]
            /\ next[u] <= next'[u]
        BY <1>2, <1>4 DEF InOrder, Behind
      <4> QED
        BY <1>1, <4>1
    <3>2. \A m \in ToSet(raw'[v]) : m[2] < next'[m[1]]
      BY <1>3, <1>9 DEF Taken
    <3>3. ASSUME NEW i \in DOMAIN pipe'[v], NEW m \in ToSet(pipe'[v][i].msgs)
          PROVE  m[2] < next'[m[1]]
      <4>1. CASE m \in ToSet(raw[v]) \cup {e}
        BY <1>9, <4>1
      <4>2. CASE i \in DOMAIN pipe[v] /\ m \in ToSet(pipe[v][i].msgs)
        <5>1. m \in PartsOf(v) \X Nat /\ m[2] < next[m[1]]
          BY <1>2, <4>2, BatchIs DEF InOrder, Behind
        <5>2. m[2] \in Nat /\ next[m[1]] \in Nat /\ next'[m[1]] \in Nat /\ next[m[1]] <= next'[m[1]]
          BY <1>2, <1>4, <5>1
        <5> QED
          BY <5>1, <5>2
      <4> QED
        BY <1>3, <4>1, <4>2 DEF Taken
    <3> QED
      BY <3>1, <3>2, <3>3 DEF Behind
  <2>5. Applied(v)'
    BY <1>1, <1>2, <1>7 DEF InOrder, Applied
  <2> QED
    BY <2>1, <2>2, <2>3, <2>4, <2>5 DEF InOrder
<1>11. ASSUME NEW i \in DOMAIN pipe[v] \cup {Len(pipe[v])}
       PROVE  InPipe(v, i) \subseteq InPipe(v, i)'
  <2> SUFFICES ASSUME NEW m \in InPipe(v, i) PROVE m \in InPipe(v, i)'
    OBVIOUS
  <2>1. PICK j \in DOMAIN pipe[v] : j <= i /\ m \in ToSet(pipe[v][j].msgs)
    BY DEF InPipe
  <2>2. j \in DOMAIN pipe'[v] /\ m \in ToSet(pipe'[v][j].msgs)
    BY <1>3, <2>1 DEF Taken
  <2> QED
    BY <2>1, <2>2 DEF InPipe
<1>12. InFlight(v) \cup {e} \subseteq InFlight(v)'
  <2>1. PICK k \in Nat : k = Len(pipe'[v]) /\ DOMAIN pipe'[v] = 1..k
    BY <1>3 DEF Taken
  <2>2. \A j \in DOMAIN pipe'[v] : j <= k
    BY <2>1
  <2>3. \A j \in DOMAIN pipe'[v] : ToSet(pipe'[v][j].msgs) \subseteq InPipe(v, k)'
    BY <2>2 DEF InPipe
  <2>4. InFlight(v)' = ToSet(raw'[v]) \cup InPipe(v, k)' \cup InHand(v)'
    BY <2>1 DEF InFlight
  <2>5. ToSet(raw[v]) \cup {e} \subseteq InFlight(v)'
    BY <1>3, <2>3, <2>4 DEF Taken
  <2>6. InPipe(v, Len(pipe[v])) \subseteq InFlight(v)'
    <3>1. ASSUME NEW j \in DOMAIN pipe[v]
          PROVE  ToSet(pipe[v][j].msgs) \subseteq InPipe(v, k)'
      <4>1. j \in DOMAIN pipe'[v] /\ ToSet(pipe[v][j].msgs) \subseteq ToSet(pipe'[v][j].msgs)
        BY <1>3 DEF Taken
      <4> QED
        BY <2>3, <4>1
    <3> QED
      BY <2>4, <3>1 DEF InPipe
  <2> QED
    BY <1>7, <2>4, <2>5, <2>6 DEF InFlight
<1>13. LostRead(v)'
  <2>1. AtMost(Before(v, next) \ (Known \cup InFlight(v)), LostBefore(v))
    BY <1>1, <1>2 DEF LossesLive, LostRead
  <2>2. Before(v, next') \subseteq Before(v, next) \cup {e}
    <3> SUFFICES ASSUME NEW m \in Before(v, next') PROVE m \in Before(v, next) \/ m = e
      OBVIOUS
    <3> \A u \in PartsOf(v) \cap DOMAIN next' : next'[u] \in Nat
      BY <1>4
    <3>1. PICK u \in PartsOf(v) \cap DOMAIN next', i \in Nat : m = <<u, i>> /\ StartAt <= i /\ i < next'[u]
      BY BeforeIs
    <3>2. u \in PartsOf(v) \cap DOMAIN next /\ next[u] \in Nat
      BY <1>2, <3>1
    <3>3. i < next[u] \/ (u = p /\ i = next[p])
      BY <1>4, <3>1, <3>2
    <3>4. CASE i < next[u]
      BY <1>2, <3>1, <3>2, <3>4, BeforeIs
    <3>5. CASE u = p /\ i = next[p]
      BY <3>1, <3>5
    <3> QED
      BY <3>3, <3>4, <3>5
  <2>3. Before(v, next') \ (Known' \cup InFlight(v)') \subseteq Before(v, next) \ (Known \cup InFlight(v))
    BY <1>7, <1>12, <2>2
  <2>4. AtMost(Before(v, next') \ (Known' \cup InFlight(v)'), LostBefore(v)')
    BY <1>7, <2>1, <2>3, AtMostLess
  <2> QED
    BY <2>4 DEF LostRead
<1>14. LostPipe(v)'
  <2>1. ASSUME NEW i \in DOMAIN pipe[v]
        PROVE  AtMost(Before(v, pipe'[v][i].snap) \ (Known \cup InHand(v) \cup InPipe(v, i)'), Ahead(v))
    <3>1. AtMost(Before(v, pipe[v][i].snap) \ (Known \cup InHand(v) \cup InPipe(v, i)), Ahead(v))
      BY <1>2 DEF LossesLive, LostPipe
    <3>2. pipe'[v][i].snap = pipe[v][i].snap
      BY <1>3 DEF Taken
    <3>3. Before(v, pipe[v][i].snap) \ (Known \cup InHand(v) \cup InPipe(v, i)')
            \subseteq Before(v, pipe[v][i].snap) \ (Known \cup InHand(v) \cup InPipe(v, i))
      BY <1>11
    <3>4. AtMost(Before(v, pipe[v][i].snap) \ (Known \cup InHand(v) \cup InPipe(v, i)'), Ahead(v))
      BY <1>7, <3>1, <3>3, AtMostLess
    <3> QED
      BY <3>2, <3>4
  <2>2. ASSUME NEW i \in DOMAIN pipe'[v], i \notin DOMAIN pipe[v]
        PROVE  AtMost(Before(v, pipe'[v][i].snap) \ (Known \cup InHand(v) \cup InPipe(v, i)'), Ahead(v))
    <3>1. Before(v, pipe'[v][i].snap) = {}
      BY <1>3, <2>2, BeforeNone DEF Taken
    <3>2. Before(v, pipe'[v][i].snap) \ (Known \cup InHand(v) \cup InPipe(v, i)') = {}
      BY <3>1
    <3> QED
      BY <1>7, <3>2, AtMostNone
  <2>3. ASSUME NEW i \in DOMAIN pipe'[v]
        PROVE  AtMost(Before(v, pipe'[v][i].snap) \ (Known \cup InHand(v) \cup InPipe(v, i)'), Ahead(v))
    BY <2>1, <2>2
  <2> QED
    BY <1>7, <2>3 DEF LostPipe
<1>15. LostHand(v)' /\ LostSlot(v)'
  BY <1>1, <1>2, <1>7 DEF LossesLive, LostHand, LostSlot
<1>16. Saves'
  BY <1>1, SavesStay DEF StreamInv, saveVars, diskVars
<1> QED
  BY <1>1, <1>6, <1>7, <1>8, <1>10, <1>13, <1>14, <1>15, <1>16, OneWorker
     DEF LossesLive, saveVars, diskVars

---------------------------------------------------------------------------
(* The theorems                                                            *)

(* Before the first start there is nothing.                                *)
LEMMA StreamInitInv == StreamInit => StreamInv
<1> SUFFICES ASSUME StreamInit PROVE StreamInv
  OBVIOUS
<1>1. /\ conf \in Confs /\ wpc = [w \in Workers |-> "down"]
      /\ next = [p \in Partitions |-> StartAt] /\ off = next
      /\ fetch = [w \in Workers |-> <<>>] /\ raw = fetch /\ pipe = fetch /\ hand = fetch
      /\ ops = [w \in Workers |-> {}]
      /\ model = {} /\ gstep = 0 /\ slot = [w \in Workers |-> NoOffsets]
      /\ spc = "idle" /\ lastSaved = 0 /\ saving = NoSave /\ ckpt = NoCkpt /\ file = <<>>
      /\ early = {} /\ crashes = 0
  BY DEF StreamInit
<1>2. StartAt \in Nat /\ Chief \in Workers /\ conf.shuffle \in Nat \ {0}
  BY <1>1, WorkersNumbered, Settings
<1>3. DOMAIN file = {} /\ DOMAIN NoOffsets = {}
  BY <1>1 DEF NoOffsets
<1>4. saving = [step |-> 0, off |-> NoOffsets] /\ ckpt = [step |-> -1, model |-> {}]
  BY <1>1 DEF NoSave, NoCkpt
<1>5. Shapes
  <2>1. IsOffsets(NoOffsets)
    BY <1>3 DEF IsOffsets
  <2>2. DOMAIN saving = {"step", "off"} /\ saving.step \in Nat /\ IsOffsets(saving.off)
    BY <1>4, <2>1
  <2> QED
    BY <1>1, <1>2, <1>3, <2>2 DEF Shapes
<1>6. ChiefRuns /\ Saves
  <2>1. ~Resaving
    BY <1>1 DEF Resaving
  <2> QED
    BY <1>1, <1>2, <2>1 DEF ChiefRuns, Saves
<1>7. ASSUME NEW w \in Workers
      PROVE  InOrder(w) /\ LossesLive(w) /\ LossesSaved(w)
  <2>1. /\ fetch[w] = <<>> /\ raw[w] = <<>> /\ pipe[w] = <<>> /\ hand[w] = <<>> /\ ops[w] = {}
        /\ wpc[w] = "down" /\ slot[w] = NoOffsets
    BY <1>1
  <2>2. ToSet(raw[w]) = {} /\ DOMAIN pipe[w] = {} /\ DOMAIN hand[w] = {} /\ InHand(w) = {}
    BY <2>1 DEF ToSet, InHand
  <2>3. Typed(w)
    BY <2>1 DEF Typed, OffsetsOf
  <2>4. Emptied(w) /\ Applied(w)
    BY <2>1, <2>2 DEF Emptied, Applied
  <2>5. Sized(w)
    BY <1>2, <2>1, <2>2 DEF Sized
  <2>6. Behind(w)
    <3>1. \A p \in PartsOf(w) : off[p] <= next[p]
      BY <1>1, <1>2, WorkersNumbered
    <3> QED
      BY <2>2, <3>1 DEF Behind
  <2>7. LostRead(w) /\ LostPipe(w) /\ LostHand(w)
    BY <2>1, <2>2 DEF LostRead, LostPipe, LostHand
  <2>8. LostSlot(w)
    <3>1. Before(w, slot[w]) \ (Known \cup InHand(w)) = {} /\ LostBySlot(w) \in Nat
      BY <1>5, <2>1, BeforeNone, LossNumbers DEF Shapes
    <3> QED
      BY <3>1, AtMostNone DEF LostSlot
  <2>9. LossesSaved(w)
    BY <1>1, <1>3 DEF LossesSaved, LostSaving, LostSaved
  <2> QED
    BY <2>3, <2>4, <2>5, <2>6, <2>7, <2>8, <2>9 DEF InOrder, LossesLive
<1> QED
  BY <1>5, <1>6, <1>7 DEF StreamInv

(* Nothing happens.                                                        *)
LEMMA StutterKeeps ==
  ASSUME StreamInv, UNCHANGED streamVars
  PROVE  StreamInv'
<1>1. UNCHANGED <<conf, wpc, next, off, fetch, raw, pipe, hand, ops, model, gstep, slot, spc, saving,
                  lastSaved, ckpt, file, done, early, crashes>>
  BY DEF streamVars, readVars, pipeVars, psVars, saveVars, diskVars, pastVars
<1>2. Shapes' /\ Known' = Known
  BY <1>1 DEF StreamInv, Shapes, Known
<1>3. ChiefRuns' /\ Saves'
  BY <1>1 DEF StreamInv, ChiefRuns, Saves, Resaving
<1>4. ASSUME NEW w \in Workers
      PROVE  InOrder(w)' /\ LossesLive(w)' /\ LossesSaved(w)'
  <2>1. Same(w)
    BY <1>1 DEF Same
  <2> QED
    BY <1>1, <1>2, <2>1, Stays, StaysSaved DEF StreamInv, diskVars
<1> QED
  BY <1>2, <1>3, <1>4 DEF StreamInv

(* Every step keeps the invariant.                                         *)
LEMMA StreamStepInv == StreamInv /\ [StreamNext]_streamVars => StreamInv'
<1> SUFFICES ASSUME StreamInv, [StreamNext]_streamVars PROVE StreamInv'
  OBVIOUS
<1>1. CASE SaveStep
  BY <1>1, SaveBeginKeeps, ReadOffsetsKeeps, WriteFileKeeps, SaveVarsKeeps DEF SaveStep
<1>2. ASSUME NEW w \in Workers, Step(w)
      PROVE  StreamInv'
  <2>1. CASE Restore(w) \/ WorkerSession(w) \/ (w = Chief /\ ChiefSession)
    BY <2>1, RestoreKeeps, WorkerSessionKeeps, ChiefSessionKeeps
  <2>2. CASE FetchDone(w) \/ \E p \in Partitions : Read(w, p)
    BY <2>2, FetchDoneKeeps, ReadKeeps
  <2>3. CASE \E i \in DOMAIN pipe[w] : Compare(w, i) \/ Record(w, i) \/ Dump(w, i)
    BY <2>3, CompareKeeps, RecordKeeps, DumpKeeps
  <2>4. CASE NextBatch(w) \/ Assign(w) \/ Apply(w)
    BY <2>4, NextBatchKeeps, AssignKeeps, ApplyKeeps
  <2> QED
    BY <1>2, <2>1, <2>2, <2>3, <2>4 DEF Step
<1>3. CASE JobCrash
  BY <1>3, JobCrashKeeps
<1>4. CASE \E w \in Workers : WorkerCrash(w)
  BY <1>4, WorkerCrashKeeps
<1>5. CASE UNCHANGED streamVars
  BY <1>5, StutterKeeps
<1> QED
  BY <1>1, <1>2, <1>3, <1>4, <1>5 DEF StreamNext, JobStep

(* The invariant of every behaviour: what is read is known or in flight,   *)
(* but for what crashes have lost; and what the offsets on disk would skip *)
(* is within the bound.                                                    *)
THEOREM StreamInvariant == StreamSpec => []StreamInv
BY StreamInitInv, StreamStepInv, PTL DEF StreamSpec

(* LossBounded is what the invariant says of the checkpoint's file.        *)
LEMMA BoundFollows == StreamInv => LossBounded
<1> SUFFICES ASSUME StreamInv, ckpt # NoCkpt, NEW w \in Workers
             PROVE  Cardinality(Lost(w) \ early) <= (crashes + 1) * (Unsettled(w) + conf.shuffle - 1)
  BY DEF LossBounded
<1>1. ckpt.step \in DOMAIN file
  BY DEF StreamInv, Saves
<1>2. AtMost(Before(w, file[ckpt.step]) \ (ckpt.model \cup early), LostBySave(w))
  BY <1>1 DEF StreamInv, LossesSaved, LostSaved
<1>3. Lost(w) \ early = Before(w, file[ckpt.step]) \ (ckpt.model \cup early)
  BY DEF Lost, Saved
<1>4. Cardinality(Lost(w) \ early) \in Nat /\ Cardinality(Lost(w) \ early) <= LostBySave(w)
  BY <1>2, <1>3, FS_CardinalityType DEF AtMost
<1>5. /\ LossOf(w) \in Nat /\ LostBefore(w) \in Nat
      /\ (crashes + 1) * LossOf(w) = LostBefore(w) + LossOf(w)
  BY LossNumbers DEF StreamInv, Shapes
<1>6. LostBySave(w) \in Nat /\ LostBySave(w) <= (crashes + 1) * LossOf(w)
  BY <1>5 DEF LostBySave
<1>7. LossOf(w) = Unsettled(w) + conf.shuffle - 1
  BY DEF LossOf
<1> QED
  BY <1>4, <1>5, <1>6, <1>7

(* LossBounded: whatever the topic, the sizes, the numbers of workers and  *)
(* of parsing calls and the crashes, a restart from the latest checkpoint  *)
(* skips no more of a worker's messages than unsettled batches and shuffle *)
(* buffer held, for each crash.                                            *)
THEOREM LossIsBounded == StreamSpec => []LossBounded
BY StreamInvariant, BoundFollows, PTL

---------------------------------------------------------------------------
(* Offsets that advance                                                    *)

NoLater(o, q) == \A p \in DOMAIN o \cap DOMAIN q : o[p] <= q[p]

(* The slot of w is of its present session: it has finished a step, or the *)
(* offset half of its first one.                                           *)
Settled(w) == done[w] \ InHand(w) # {} \/ (hand[w] # <<>> /\ "assign" \notin ops[w])

(* The offsets of a worker stand in a line: its slot, the batch in hand,   *)
(* its pipeline from the head on, the dictionary, the fetch being yielded. *)
FetchInLine(w) ==
  fetch[w] # <<>> => conf.input = "datahub" /\ off[fetch[w][1]] <= fetch[w][2]
PipeInLine(w) ==
  \A i \in DOMAIN pipe[w] :
    /\ NoLater(pipe[w][i].snap, off)
    /\ \A j \in DOMAIN pipe[w] : i < j => NoLater(pipe[w][i].snap, pipe[w][j].snap)
HandInLine(w) ==
  \A h \in DOMAIN hand[w] :
    /\ NoLater(hand[w][h].snap, off)
    /\ \A i \in DOMAIN pipe[w] : NoLater(hand[w][h].snap, pipe[w][i].snap)
SlotInLine(w) ==
  Settled(w) =>
    /\ NoLater(slot[w], off)
    /\ \A h \in DOMAIN hand[w] : NoLater(slot[w], hand[w][h].snap)
    /\ \A i \in DOMAIN pipe[w] : NoLater(slot[w], pipe[w][i].snap)
Line(w) ==
  /\ wpc[w] # "run" => done[w] = {}
  /\ FetchInLine(w) /\ PipeInLine(w) /\ HandInLine(w) /\ SlotInLine(w)

LineInv == DOMAIN done = Workers /\ (conf.parallel = 1 => \A w \in Workers : Line(w))

(* What is empty or empties is no later than anything; what is no later    *)
(* than the dictionary stays so as the dictionary advances.                *)
LEMMA NoLaterIs ==
  ASSUME StreamInv, NEW w \in Workers, NEW o \in OffsetsOf(w), NEW q
  PROVE  /\ NoLater(o, NoOffsets) /\ NoLater(NoOffsets, q)
         /\ (off' \in [Partitions -> Nat] /\ NoLater(o, off)
              /\ \A p \in PartsOf(w) : off[p] <= off'[p])
              => NoLater(o, off') /\ NoLater(o, OwnOffsets(w, off'))
<1>1. DOMAIN o \subseteq PartsOf(w) /\ PartsOf(w) \subseteq Partitions /\ \A p \in DOMAIN o : o[p] \in Nat
  BY OffsetsAre, WorkersNumbered
<1>2. off \in [Partitions -> Nat]
  BY DEF StreamInv, Shapes
<1>3. NoLater(o, NoOffsets) /\ NoLater(NoOffsets, q)
  BY DEF NoLater, NoOffsets
<1>4. ASSUME off' \in [Partitions -> Nat], NoLater(o, off), \A p \in PartsOf(w) : off[p] <= off'[p]
      PROVE  NoLater(o, off') /\ NoLater(o, OwnOffsets(w, off'))
  <2>1. ASSUME NEW p \in DOMAIN o
        PROVE  o[p] <= off'[p]
    <3>1. o[p] \in Nat /\ off[p] \in Nat /\ off'[p] \in Nat /\ p \in DOMAIN off
      BY <1>1, <1>2, <1>4
    <3>2. o[p] <= off[p] /\ off[p] <= off'[p]
      BY <1>1, <1>4, <3>1 DEF NoLater
    <3> QED
      BY <3>1, <3>2
  <2>2. \A p \in DOMAIN o : p \in PartsOf(w) /\ OwnOffsets(w, off')[p] = off'[p]
    BY <1>1 DEF OwnOffsets
  <2> QED
    BY <2>1, <2>2 DEF NoLater
<1> QED
  BY <1>3, <1>4

(* A worker for which nothing happens stays in line.                       *)
LEMMA LineStays ==
  ASSUME StreamInv, NEW w \in Workers, Line(w), Same(w), done'[w] = done[w], conf' = conf
  PROVE  Line(w)'
<1>1. /\ off \in [Partitions -> Nat] /\ PartsOf(w) \subseteq Partitions
      /\ InOrder(w) /\ \A p \in PartsOf(w) : off'[p] = off[p]
  BY WorkersNumbered DEF StreamInv, Shapes, Same
<1>2. \A o \in OffsetsOf(w) : NoLater(o, off) => NoLater(o, off')
  BY <1>1, OffsetsAre DEF NoLater
<1>3. /\ \A i \in DOMAIN pipe[w] : pipe[w][i].snap \in OffsetsOf(w)
      /\ \A i \in DOMAIN hand[w] : hand[w][i].snap \in OffsetsOf(w)
      /\ slot[w] \in OffsetsOf(w)
  BY <1>1, BatchIs DEF InOrder, Typed
<1>4. InHand(w)' = InHand(w) /\ (Settled(w)' <=> Settled(w))
  BY DEF InHand, Settled, Same
<1>5. FetchInLine(w)'
  <2>1. fetch[w] # <<>> => fetch[w][1] \in PartsOf(w)
    BY <1>1 DEF InOrder, Typed
  <2> QED
    BY <1>1, <2>1 DEF Same, Line, FetchInLine
<1>6. PipeInLine(w)'
  BY <1>2, <1>3 DEF Same, Line, PipeInLine
<1>7. HandInLine(w)'
  BY <1>2, <1>3 DEF Same, Line, HandInLine
<1>8. SlotInLine(w)'
  BY <1>2, <1>3, <1>4 DEF Same, Line, SlotInLine
<1> QED
  BY <1>5, <1>6, <1>7, <1>8 DEF Same, Line

(* A step of one worker leaves the others in line.                         *)
LEMMA OneLine ==
  ASSUME StreamInv, LineInv, NEW v \in Workers, conf' = conf, DOMAIN done' = Workers,
         \A w \in Workers \ {v} : Same(w) /\ done'[w] = done[w],
         conf.parallel = 1 => Line(v)'
  PROVE  LineInv'
<1>1. ASSUME conf.parallel = 1, NEW w \in Workers
      PROVE  Line(w)'
  <2>1. CASE w = v
    BY <1>1, <2>1
  <2>2. CASE w # v
    BY <1>1, <2>2, LineStays DEF LineInv
  <2> QED
    BY <2>1, <2>2
<1> QED
  BY <1>1 DEF LineInv

(* Who has nothing is in line.                                             *)
LEMMA EmptyLine ==
  ASSUME NEW w \in Workers, fetch[w] = <<>>, pipe[w] = <<>>, hand[w] = <<>>, done[w] = {}
  PROVE  Line(w)
<1>1. DOMAIN pipe[w] = {} /\ DOMAIN hand[w] = {}
  OBVIOUS
<1>2. ~Settled(w)
  BY DEF Settled
<1> QED
  BY <1>1, <1>2 DEF Line, FetchInLine, PipeInLine, HandInLine, SlotInLine

(* The same, after a step.                                                 *)
LEMMA EmptyLineNext ==
  ASSUME NEW w \in Workers, fetch'[w] = <<>>, pipe'[w] = <<>>, hand'[w] = <<>>, done'[w] = {}
  PROVE  Line(w)'
<1>1. DOMAIN pipe'[w] = {} /\ DOMAIN hand'[w] = {}
  OBVIOUS
<1>2. ~Settled(w)'
  BY DEF Settled
<1> QED
  BY <1>1, <1>2 DEF Line, FetchInLine, PipeInLine, HandInLine, SlotInLine

(* In its pipeline a worker changes no snapshot but that of the last batch,*)
(* which gets the dictionary, and the dictionary advances.                 *)
LEMMA PipelineLine ==
  ASSUME StreamInv, NEW v \in Workers, Line(v), wpc[v] = "run",
         off' \in [Partitions -> Nat], \A p \in PartsOf(v) : off[p] <= off'[p],
         \A i \in DOMAIN pipe'[v] :
           \/ i \in DOMAIN pipe[v] /\ pipe'[v][i].snap = pipe[v][i].snap
           \/ pipe'[v][i].snap = NoOffsets
           \/ /\ pipe'[v][i].snap = OwnOffsets(v, off')
              /\ \A j \in DOMAIN pipe'[v] : ~(i < j),
         UNCHANGED <<wpc, hand, ops, slot, done>>, FetchInLine(v)'
  PROVE  Line(v)'
<1>1. /\ InOrder(v) /\ PartsOf(v) \subseteq Partitions
      /\ \A i \in DOMAIN pipe[v] : pipe[v][i].snap \in OffsetsOf(v)
      /\ \A i \in DOMAIN hand[v] : hand[v][i].snap \in OffsetsOf(v)
      /\ slot[v] \in OffsetsOf(v)
  BY BatchIs, WorkersNumbered DEF StreamInv, InOrder, Typed
<1>2. \A o \in OffsetsOf(v) :
        /\ NoLater(o, NoOffsets)
        /\ NoLater(o, off) => NoLater(o, off') /\ NoLater(o, OwnOffsets(v, off'))
  BY NoLaterIs
<1>3. \A q : NoLater(NoOffsets, q)
  BY DEF NoLater, NoOffsets
<1>4. NoLater(OwnOffsets(v, off'), off')
  <2>1. \A p \in DOMAIN OwnOffsets(v, off') : off'[p] \in Nat /\ OwnOffsets(v, off')[p] = off'[p]
    BY <1>1 DEF OwnOffsets
  <2> QED
    BY <2>1 DEF NoLater
<1>5. PipeInLine(v)'
  <2>1. ASSUME NEW i \in DOMAIN pipe'[v]
        PROVE  NoLater(pipe'[v][i].snap, off')
    BY <1>1, <1>2, <1>3, <1>4 DEF Line, PipeInLine
  <2>2. ASSUME NEW i \in DOMAIN pipe'[v], NEW j \in DOMAIN pipe'[v], i < j
        PROVE  NoLater(pipe'[v][i].snap, pipe'[v][j].snap)
    <3>1. CASE pipe'[v][i].snap = NoOffsets
      BY <1>3, <3>1
    <3>2. CASE i \in DOMAIN pipe[v] /\ pipe'[v][i].snap = pipe[v][i].snap
      BY <1>1, <1>2, <2>2, <3>2 DEF Line, PipeInLine
    <3> QED
      BY <2>2, <3>1, <3>2
  <2> QED
    BY <2>1, <2>2 DEF PipeInLine
<1>6. HandInLine(v)'
  <2>1. ASSUME NEW h \in DOMAIN hand[v], NEW i \in DOMAIN pipe'[v]
        PROVE  NoLater(hand[v][h].snap, pipe'[v][i].snap)
    BY <1>1, <1>2, <2>1 DEF Line, HandInLine
  <2>2. \A h \in DOMAIN hand[v] : NoLater(hand[v][h].snap, off')
    BY <1>1, <1>2 DEF Line, HandInLine
  <2> QED
    BY <2>1, <2>2 DEF HandInLine
<1>7. SlotInLine(v)'
  <2>1. InHand(v)' = InHand(v) /\ (Settled(v)' <=> Settled(v))
    BY DEF InHand, Settled
  <2>2. ASSUME Settled(v), NEW i \in DOMAIN pipe'[v]
        PROVE  NoLater(slot[v], pipe'[v][i].snap)
    BY <1>1, <1>2, <2>2 DEF Line, SlotInLine
  <2>3. Settled(v) => NoLater(slot[v], off')
    BY <1>1, <1>2 DEF Line, SlotInLine
  <2> QED
    BY <2>1, <2>2, <2>3 DEF Line, SlotInLine
<1> QED
  BY <1>5, <1>6, <1>7 DEF Line

(* Reading keeps the line: a fetch begins behind the dictionary, and a new *)
(* batch has no snapshot.                                                  *)
LEMMA ReadLine ==
  ASSUME StreamInv, LineInv, NEW v \in Workers, NEW p \in Partitions, Read(v, p)
  PROVE  LineInv'
<1>1. /\ p \in PartsOf(v) /\ wpc[v] = "run" /\ next' = [next EXCEPT ![p] = next[p] + 1]
      /\ UNCHANGED <<conf, wpc, off, hand, ops, slot, done>>
  BY DEF Read, Pulling, Running, psVars, pastVars
<1>2. /\ off \in [Partitions -> Nat] /\ DOMAIN fetch = Workers /\ next \in [Partitions -> Nat]
      /\ DOMAIN done = Workers
  BY DEF StreamInv, Shapes, LineInv
<1>3. Taken(v, p)
  BY <1>1, ReadGives
<1>4. \/ fetch' = fetch
      \/ /\ conf.input = "datahub"
         /\ \E f \in Fetches(v, p) : fetch' = [fetch EXCEPT ![v] = f]
  BY DEF Read
<1>5. \A w \in Workers \ {v} : fetch'[w] = fetch[w]
  BY <1>2, <1>4
<1>6. ASSUME NEW w \in Workers \ {v}
      PROVE  Same(w) /\ done'[w] = done[w]
  <2>1. p \notin PartsOf(w)
    BY <1>1, OwnParts
  <2>2. \A u \in PartsOf(w) : next'[u] = next[u]
    BY <1>1, <1>2, <2>1, WorkersNumbered
  <2> QED
    BY <1>1, <1>3, <1>5, <2>2 DEF Same, Taken
<1>7. ASSUME Line(v)
      PROVE  Line(v)'
  <2>1. FetchInLine(v)'
    <3>1. CASE fetch' = fetch
      BY <1>1, <1>7, <3>1 DEF Line, FetchInLine
    <3>2. ASSUME NEW f \in Fetches(v, p), fetch' = [fetch EXCEPT ![v] = f], conf.input = "datahub"
          PROVE  FetchInLine(v)'
      <4>1. fetch'[v] = f
        BY <1>2, <3>2
      <4>2. CASE fetch[v] = <<>>
        <5>1. PICK c \in {x \in off[p] + 1..off[p] + ReadCnt : x <= End(p)} : f = <<p, c>>
          BY <3>2, <4>2 DEF Fetches
        <5>2. off[p] \in Nat /\ ReadCnt \in Nat
          BY <1>2, StreamAssumption
        <5>3. off[p] <= c
          BY <5>1, <5>2
        <5> QED
          BY <1>1, <3>2, <4>1, <5>1, <5>3 DEF FetchInLine
      <4>3. CASE fetch[v] # <<>>
        <5>1. f = fetch[v]
          BY <3>2, <4>3 DEF Fetches
        <5> QED
          BY <1>1, <1>7, <4>1, <4>3, <5>1 DEF Line, FetchInLine
      <4> QED
        BY <4>2, <4>3
    <3> QED
      BY <1>4, <3>1, <3>2
  <2>2. off' \in [Partitions -> Nat] /\ \A u \in PartsOf(v) : off[u] <= off'[u]
    BY <1>1, <1>2, WorkersNumbered
  <2>3. \A i \in DOMAIN pipe'[v] :
          \/ i \in DOMAIN pipe[v] /\ pipe'[v][i].snap = pipe[v][i].snap
          \/ pipe'[v][i].snap = NoOffsets
    BY <1>3 DEF Taken
  <2> QED
    BY <1>1, <1>7, <2>1, <2>2, <2>3, PipelineLine
<1>8. DOMAIN done' = Workers
  BY <1>1, <1>2
<1> QED
  BY <1>1, <1>6, <1>7, <1>8, OneLine DEF LineInv

(* A fetch that is yielded whole is no earlier than the dictionary.        *)
LEMMA FetchDoneLine ==
  ASSUME StreamInv, LineInv, NEW v \in Workers, FetchDone(v)
  PROVE  LineInv'
<1> DEFINE q == fetch[v][1]
           c == fetch[v][2]
<1>1. /\ fetch[v] # <<>> /\ wpc[v] = "run" /\ off' = [off EXCEPT ![q] = c]
      /\ fetch' = [fetch EXCEPT ![v] = <<>>]
      /\ UNCHANGED <<conf, wpc, next, raw, pipe, hand, ops, slot, done>>
  BY DEF FetchDone, Pulling, Running, pipeVars, psVars, pastVars
<1>2. /\ off \in [Partitions -> Nat] /\ DOMAIN fetch = Workers /\ InOrder(v) /\ DOMAIN done = Workers
  BY DEF StreamInv, Shapes, LineInv
<1>3. q \in PartsOf(v) /\ q \in Partitions /\ c \in Nat
  BY <1>1, <1>2, WorkersNumbered DEF InOrder, Typed
<1>4. Line(v) => off[q] <= c
  BY <1>1 DEF Line, FetchInLine
<1> HIDE DEF q, c
<1>5. /\ off' \in [Partitions -> Nat] /\ off'[q] = c /\ fetch'[v] = <<>>
      /\ \A p \in Partitions \ {q} : off'[p] = off[p]
      /\ \A w \in Workers \ {v} : fetch'[w] = fetch[w]
  BY <1>1, <1>2, <1>3
<1>6. ASSUME NEW w \in Workers \ {v}
      PROVE  Same(w) /\ done'[w] = done[w]
  <2>1. \A p \in PartsOf(w) : off'[p] = off[p]
    BY <1>3, <1>5, OwnParts
  <2> QED
    BY <1>1, <1>5, <2>1 DEF Same
<1>7. ASSUME Line(v)
      PROVE  Line(v)'
  <2>1. \A p \in PartsOf(v) : off[p] <= off'[p]
    BY <1>2, <1>3, <1>4, <1>5, <1>7, WorkersNumbered
  <2>2. FetchInLine(v)'
    BY <1>5 DEF FetchInLine
  <2> QED
    BY <1>1, <1>5, <1>7, <2>1, <2>2, PipelineLine
<1> QED
  BY <1>1, <1>2, <1>6, <1>7, OneLine DEF LineInv

(* With one parsing call only the last batch is not parsed: it gets a      *)
(* dictionary that has advanced.                                           *)
LEMMA SnapLine ==
  ASSUME StreamInv, LineInv, NEW v \in Workers, NEW i \in DOMAIN pipe[v], wpc[v] = "run",
         ~Parsed(pipe[v][i]), off' \in [Partitions -> Nat],
         conf.parallel = 1 => \A p \in PartsOf(v) : off[p] <= off'[p],
         conf.input = "datahub" => off' = off,
         \A p \in Partitions : p \notin PartsOf(v) => off'[p] = off[p],
         pipe' = [pipe EXCEPT ![v][i].snap = OwnOffsets(v, off')],
         UNCHANGED <<conf, wpc, next, fetch, raw, hand, ops, slot, done>>
  PROVE  LineInv'
<1> DEFINE b == [pipe[v][i] EXCEPT !.snap = OwnOffsets(v, off')]
<1>1. /\ pipe[v] \in Seq(BatchesOf(v)) /\ DOMAIN pipe = Workers /\ DOMAIN done = Workers
      /\ off \in [Partitions -> Nat] /\ PartsOf(v) \subseteq Partitions /\ InOrder(v)
  BY WorkersNumbered DEF StreamInv, InOrder, Typed, Shapes, LineInv
<1>2. pipe' = [pipe EXCEPT ![v] = [pipe[v] EXCEPT ![i] = b]]
  OBVIOUS
<1>3. b \in BatchesOf(v) /\ b.snap = OwnOffsets(v, off')
  <2>1. pipe[v][i] \in BatchesOf(v)
    BY <1>1, BatchIs
  <2>2. OwnOffsets(v, off') \in OffsetsOf(v)
    BY <1>1 DEF OwnOffsets, OffsetsOf
  <2> QED
    BY <2>1, <2>2 DEF BatchesOf
<1> HIDE DEF b
<1>4. pipe'[v] = [pipe[v] EXCEPT ![i] = b] /\ \A w \in Workers \ {v} : pipe'[w] = pipe[w]
  BY <1>1, <1>2
<1>5. /\ DOMAIN pipe'[v] = DOMAIN pipe[v] /\ pipe'[v][i] = b
      /\ \A j \in DOMAIN pipe[v] \ {i} : pipe'[v][j] = pipe[v][j]
  BY <1>1, <1>4, Replaced
<1>6. ASSUME NEW w \in Workers \ {v}
      PROVE  Same(w) /\ done'[w] = done[w]
  <2>1. \A p \in PartsOf(w) : off'[p] = off[p]
    BY OwnParts
  <2> QED
    BY <1>4, <2>1 DEF Same
<1>7. ASSUME conf.parallel = 1, Line(v)
      PROVE  Line(v)'
  <2>1. FetchInLine(v)'
    <3>1. CASE fetch[v] = <<>>
      BY <3>1 DEF FetchInLine
    <3>2. CASE fetch[v] # <<>>
      <4>1. conf.input = "datahub" /\ off[fetch[v][1]] <= fetch[v][2] /\ off' = off
        BY <1>7, <3>2 DEF FetchInLine, Line
      <4> QED
        BY <4>1 DEF FetchInLine
    <3> QED
      BY <3>1, <3>2
  <2>2. ASSUME NEW j \in DOMAIN pipe[v]
        PROVE  ~(i < j)
    <3>1. Len(pipe[v]) - i < 1 /\ i \in 1..Len(pipe[v]) /\ j \in 1..Len(pipe[v]) /\ Len(pipe[v]) \in Nat
      BY <1>1, <1>7, BatchIs DEF InOrder, Sized
    <3> QED
      BY <3>1
  <2>3. \A j \in DOMAIN pipe'[v] :
          \/ j \in DOMAIN pipe[v] /\ pipe'[v][j].snap = pipe[v][j].snap
          \/ /\ pipe'[v][j].snap = OwnOffsets(v, off')
             /\ \A k \in DOMAIN pipe'[v] : ~(j < k)
    BY <1>3, <1>5, <2>2
  <2> QED
    BY <1>7, <2>1, <2>3, PipelineLine
<1> QED
  BY <1>1, <1>6, <1>7, OneLine DEF LineInv

(* Parsing keeps the line: one call compares and sets at once.             *)
LEMMA ParseLine ==
  ASSUME StreamInv, LineInv, NEW v \in Workers, NEW i \in DOMAIN pipe[v],
         Compare(v, i) \/ Record(v, i) \/ Dump(v, i)
  PROVE  LineInv'
<1>1. /\ DOMAIN pipe = Workers /\ DOMAIN done = Workers /\ conf \in Confs
      /\ off \in [Partitions -> Nat] /\ off' \in [Partitions -> Nat] /\ PartsOf(v) \subseteq Partitions
  <2>1. StreamInv'
    BY CompareKeeps, RecordKeeps, DumpKeeps
  <2> QED
    BY <2>1, WorkersNumbered DEF StreamInv, Shapes, LineInv
<1>2. CASE Compare(v, i)
  <2>1. conf.parallel > 1 /\ conf' = conf /\ done' = done
        /\ UNCHANGED <<wpc, next, off, fetch, raw, hand, ops, slot>>
        /\ pipe' = [pipe EXCEPT ![v][i].saw = OwnOffsets(v, off)]
    BY <1>2 DEF Compare, readVars, psVars, pastVars
  <2>2. conf.parallel # 1
    BY <1>1, <2>1, Settings
  <2> QED
    BY <2>1, <2>2 DEF LineInv
<1>3. CASE Record(v, i)
  <2> DEFINE b == pipe[v][i]
             saw == IF conf.parallel > 1 THEN b.saw ELSE OwnOffsets(v, off)
             Newer(p) == {x \in 0..End(p) : <<p, x>> \in ToSet(b.msgs) /\ x > saw[p]}
  <2>1. /\ wpc[v] = "run" /\ ~Parsed(pipe[v][i]) /\ conf.input = "kafka"
        /\ off' = [p \in Partitions |->
                     IF p \in PartsOf(v) /\ Newer(p) # {} THEN Max(Newer(p)) ELSE off[p]]
        /\ pipe' = [pipe EXCEPT ![v][i].snap = OwnOffsets(v, off')]
        /\ UNCHANGED <<conf, wpc, next, fetch, raw, hand, ops, slot, done>>
    BY <1>3 DEF Record, Running, psVars, pastVars
  <2>2. ASSUME conf.parallel = 1, NEW p \in PartsOf(v), Newer(p) # {}
        PROVE  off[p] <= Max(Newer(p))
    <3>1. saw[p] = off[p] /\ off[p] \in Nat
      BY <1>1, <2>2 DEF OwnOffsets
    <3>2. End(p) \in Nat /\ Newer(p) \subseteq 0..End(p)
      BY <1>1, Settings
    <3>3. Max(Newer(p)) \in Newer(p)
      BY <2>2, <3>2, GreatestOf
    <3>4. PICK x \in Newer(p) : x = Max(Newer(p))
      BY <3>3
    <3>5. x \in Nat /\ x > off[p]
      BY <3>1, <3>2
    <3> QED
      BY <3>1, <3>4, <3>5
  <2> HIDE DEF Newer, saw, b
  <2>5. ASSUME conf.parallel = 1, NEW p \in PartsOf(v)
        PROVE  off[p] <= off'[p]
    <3>1. off[p] \in Nat /\ p \in Partitions
      BY <1>1
    <3>2. CASE Newer(p) = {}
      BY <2>1, <3>1, <3>2
    <3>3. CASE Newer(p) # {}
      BY <2>1, <2>2, <2>5, <3>1, <3>3
    <3> QED
      BY <3>2, <3>3
  <2>3. \A p \in Partitions : p \notin PartsOf(v) => off'[p] = off[p]
    BY <2>1
  <2>4. conf.input # "datahub"
    BY <2>1
  <2> QED
    BY <1>1, <2>1, <2>3, <2>4, <2>5, SnapLine
<1>4. CASE Dump(v, i)
  <2>1. /\ wpc[v] = "run" /\ ~Parsed(pipe[v][i]) /\ off' = off
        /\ pipe' = [pipe EXCEPT ![v][i].snap = OwnOffsets(v, off)]
        /\ UNCHANGED <<conf, wpc, next, fetch, raw, hand, ops, slot, done>>
    BY <1>4 DEF Dump, Running, readVars, psVars, pastVars
  <2>2. \A p \in PartsOf(v) : off[p] <= off'[p]
    BY <1>1, <2>1
  <2>3. pipe' = [pipe EXCEPT ![v][i].snap = OwnOffsets(v, off')]
    BY <2>1
  <2> QED
    BY <1>1, <2>1, <2>2, <2>3, SnapLine
<1> QED
  BY <1>2, <1>3, <1>4

(* The next batch is the head of the pipeline, and no later than the rest. *)
LEMMA NextBatchLine ==
  ASSUME StreamInv, LineInv, NEW v \in Workers, NextBatch(v)
  PROVE  LineInv'
<1>1. /\ wpc[v] = "run" /\ hand[v] = <<>> /\ pipe[v] # <<>>
      /\ hand' = [hand EXCEPT ![v] = <<Head(pipe[v])>>]
      /\ pipe' = [pipe EXCEPT ![v] = Tail(pipe[v])]
      /\ ops' = [ops EXCEPT ![v] = {"assign", "apply"}]
      /\ UNCHANGED <<conf, wpc, next, off, fetch, raw, slot, done>>
  BY DEF NextBatch, Running, readVars, psVars, pastVars
<1>2. /\ DOMAIN hand = Workers /\ DOMAIN pipe = Workers /\ DOMAIN ops = Workers
      /\ DOMAIN done = Workers /\ pipe[v] \in Seq(BatchesOf(v)) /\ InOrder(v)
  BY DEF StreamInv, Shapes, InOrder, Typed, LineInv
<1>3. PICK n \in Nat : n = Len(pipe[v]) - 1
  BY <1>1, <1>2, TailIs
<1>4. /\ Head(pipe[v]) = pipe[v][1] /\ DOMAIN pipe[v] = 1..(n + 1) /\ DOMAIN Tail(pipe[v]) = 1..n
      /\ \A i \in 1..n : Tail(pipe[v])[i] = pipe[v][i + 1]
  BY <1>1, <1>2, <1>3, TailIs
<1>5. /\ hand'[v] = <<pipe[v][1]>> /\ ops'[v] = {"assign", "apply"} /\ DOMAIN pipe'[v] = 1..n
      /\ \A i \in 1..n : pipe'[v][i] = pipe[v][i + 1]
  BY <1>1, <1>2, <1>4
<1>6. \A w \in Workers \ {v} : Same(w) /\ done'[w] = done[w]
  BY <1>1 DEF Same
<1>7. /\ \A i \in 1..n : i + 1 \in DOMAIN pipe[v] /\ 1 < i + 1
      /\ \A i, j \in 1..n : i < j => i + 1 < j + 1
      /\ 1 \in DOMAIN pipe[v]
  BY <1>4
<1>8. DOMAIN hand'[v] = {1} /\ hand'[v][1] = pipe[v][1]
  BY <1>5
<1>9. ASSUME Line(v)
      PROVE  Line(v)'
  <2>1. FetchInLine(v)'
    BY <1>1, <1>9 DEF Line, FetchInLine
  <2>2. PipeInLine(v)'
    BY <1>1, <1>5, <1>7, <1>9 DEF Line, PipeInLine
  <2>3. HandInLine(v)'
    BY <1>1, <1>5, <1>7, <1>8, <1>9 DEF Line, PipeInLine, HandInLine
  <2>4. Settled(v)' => Settled(v)
    <3>1. InHand(v) = {}
      BY <1>1 DEF InHand
    <3> QED
      BY <1>1, <1>5, <3>1 DEF Settled
  <2>5. SlotInLine(v)'
    BY <1>1, <1>5, <1>7, <1>8, <1>9, <2>4 DEF Line, SlotInLine
  <2> QED
    BY <1>1, <1>9, <2>1, <2>2, <2>3, <2>5 DEF Line
<1>10. DOMAIN done' = Workers
  BY <1>1, <1>2
<1> QED
  BY <1>1, <1>6, <1>9, <1>10, OneLine DEF LineInv

(* Assign brings the slot up to the batch in hand; Apply settles a batch   *)
(* whose offsets are in the slot, or else is in hand still.                *)
LEMMA TrainLine ==
  ASSUME StreamInv, LineInv, NEW v \in Workers, Assign(v) \/ Apply(v)
  PROVE  LineInv'
<1>1. PICK op \in {"assign", "apply"} :
        /\ Ran(v, op)
        /\ op = "assign" => slot' = [slot EXCEPT ![v] = hand[v][1].snap] /\ done' = done
        /\ op = "apply" => /\ slot' = slot
                           /\ done' = [done EXCEPT ![v] = done[v] \cup ToSet(hand[v][1].msgs)]
        /\ UNCHANGED <<conf, wpc, next, off, fetch, raw, pipe>>
  <2>1. CASE Assign(v)
    BY <2>1 DEF Assign, readVars, pastVars
  <2>2. CASE Apply(v)
    BY <2>2 DEF Apply, readVars
  <2> QED
    BY <2>1, <2>2
<1>2. /\ DOMAIN done = Workers /\ InOrder(v) /\ DOMAIN slot = Workers
  BY DEF LineInv, StreamInv, Shapes
<1>3. InHand(v) = ToSet(hand[v][1].msgs) /\ op \in ops[v] /\ DOMAIN hand[v] = {1}
      /\ wpc[v] = "run"
  BY <1>1, <1>2, HandIs DEF Ran
<1>4. /\ DOMAIN ops = Workers /\ DOMAIN hand = Workers
      /\ ops' = [ops EXCEPT ![v] = ops[v] \ {op}]
      /\ hand' = [hand EXCEPT ![v] = IF ops[v] = {op} THEN <<>> ELSE hand[v]]
  BY <1>1 DEF Ran, StreamInv, Shapes
<1>5. /\ ops'[v] = ops[v] \ {op}
      /\ \/ ops[v] = {op} /\ hand'[v] = <<>>
         \/ ops[v] # {op} /\ hand'[v] = hand[v]
      /\ \A w \in Workers \ {v} : ops'[w] = ops[w] /\ hand'[w] = hand[w]
  BY <1>4
<1>6. /\ DOMAIN done' = Workers /\ \A w \in Workers \ {v} : Same(w) /\ done'[w] = done[w]
  BY <1>1, <1>2, <1>5 DEF Same
<1>7. DOMAIN hand'[v] \subseteq DOMAIN hand[v] /\ \A h \in DOMAIN hand'[v] : hand'[v][h] = hand[v][h]
  BY <1>5
<1>8. /\ hand'[v] = hand[v] => InHand(v)' = InHand(v)
      /\ hand'[v] = <<>> => InHand(v)' = {}
  BY DEF InHand
<1>9. ASSUME Line(v)
      PROVE  Line(v)'
  <2>1. FetchInLine(v)' /\ PipeInLine(v)'
    BY <1>1, <1>9 DEF Line, FetchInLine, PipeInLine
  <2>2. HandInLine(v)'
    BY <1>1, <1>7, <1>9 DEF Line, HandInLine
  <2>3. SlotInLine(v)'
    <3>1. CASE op = "assign"
      <4>1. slot'[v] = hand[v][1].snap /\ hand[v][1].snap \in OffsetsOf(v)
        BY <1>1, <1>2, <1>3, <3>1, BatchIs DEF InOrder, Typed
      <4>2. /\ NoLater(slot'[v], off) /\ NoLater(slot'[v], hand[v][1].snap)
            /\ \A i \in DOMAIN pipe[v] : NoLater(slot'[v], pipe[v][i].snap)
        BY <1>3, <1>9, <4>1, OffsetsAre DEF Line, HandInLine, NoLater
      <4> QED
        BY <1>1, <1>3, <1>7, <4>2 DEF SlotInLine
    <3>2. CASE op = "apply"
      <4>1. slot' = slot /\ done'[v] = done[v] \cup InHand(v)
        BY <1>1, <1>2, <1>3, <3>2
      <4>2. Settled(v)' => Settled(v)
        <5>1. CASE ops[v] = {op}
          <6>1. hand[v] # <<>> /\ "assign" \notin ops[v]
            BY <1>3, <3>2, <5>1
          <6> QED
            BY <6>1 DEF Settled
        <5>2. CASE ops[v] # {op}
          <6>1. hand'[v] = hand[v] /\ InHand(v)' = InHand(v) /\ ops'[v] = ops[v] \ {"apply"}
            BY <1>5, <1>8, <3>2, <5>2
          <6>2. done'[v] \ InHand(v)' = done[v] \ InHand(v)
            BY <4>1, <6>1
          <6> QED
            BY <6>1, <6>2 DEF Settled
        <5> QED
          BY <5>1, <5>2
      <4> QED
        BY <1>1, <1>7, <1>9, <4>1, <4>2 DEF Line, SlotInLine
    <3> QED
      BY <1>1, <3>1, <3>2
  <2> QED
    BY <1>1, <1>3, <2>1, <2>2, <2>3 DEF Line
<1> QED
  BY <1>1, <1>6, <1>9, OneLine DEF LineInv

(* Who restarts, or dies, has nothing in line; the session of the chief    *)
(* empties the slots; saving changes nothing of this.                      *)
LEMMA RestLine ==
  ASSUME StreamInv, LineInv, NEW v \in Workers,
         \/ Restore(v) \/ WorkerSession(v) \/ ChiefSession
         \/ WorkerCrash(v) \/ JobCrash \/ SaveStep \/ UNCHANGED streamVars
  PROVE  LineInv'
<1> USE DEF readVars, pipeVars, psVars, saveVars, diskVars, pastVars
<1>1. /\ DOMAIN done = Workers /\ DOMAIN wpc = Workers /\ DOMAIN slot = Workers /\ Chief \in Workers
      /\ next \in [Partitions -> Nat] /\ off \in [Partitions -> Nat]
      /\ \A w \in Workers : InOrder(w) /\ (conf.parallel = 1 => Line(w))
  BY WorkersNumbered DEF LineInv, StreamInv, Shapes
<1>2. ASSUME NEW w \in Workers, wpc[w] # "run", conf.parallel = 1
      PROVE  fetch[w] = <<>> /\ pipe[w] = <<>> /\ hand[w] = <<>> /\ done[w] = {}
  BY <1>1, <1>2 DEF Line, InOrder, Emptied
<1>3. CASE Restore(v)
  <2>1. /\ wpc[v] = "down" /\ wpc' = [wpc EXCEPT ![v] = "restored"]
        /\ off' = [p \in Partitions |-> IF p \in PartsOf(v) THEN StartOffset(p) ELSE off[p]]
        /\ next' = [p \in Partitions |-> IF p \in PartsOf(v) THEN off'[p] ELSE next[p]]
        /\ UNCHANGED <<conf, fetch, raw, pipe, hand, ops, slot, done>>
    BY <1>3 DEF Restore
  <2>2. ASSUME NEW w \in Workers \ {v}
        PROVE  Same(w) /\ done'[w] = done[w]
    <3>1. \A p \in PartsOf(w) : next'[p] = next[p] /\ off'[p] = off[p]
      BY <2>1, OwnParts
    <3> QED
      BY <1>1, <2>1, <3>1 DEF Same
  <2>3. conf.parallel = 1 => Line(v)'
    BY <1>2, <2>1, EmptyLineNext
  <2> QED
    BY <1>1, <2>1, <2>2, <2>3, OneLine
<1>4. CASE WorkerSession(v)
  <2>1. /\ wpc[v] = "restored" /\ wpc' = [wpc EXCEPT ![v] = "run"]
        /\ UNCHANGED <<conf, next, off, fetch, raw, pipe, hand, ops, slot, done>>
    BY <1>4 DEF WorkerSession
  <2>2. \A w \in Workers \ {v} : Same(w) /\ done'[w] = done[w]
    BY <1>1, <2>1 DEF Same
  <2>3. conf.parallel = 1 => Line(v)'
    BY <1>2, <2>1, EmptyLineNext
  <2> QED
    BY <1>1, <2>1, <2>2, <2>3, OneLine
<1>5. CASE ChiefSession
  <2>1. /\ wpc[Chief] = "restored" /\ UNCHANGED <<conf, off, fetch, pipe, hand, done>>
    BY <1>5 DEF ChiefSession
  <2>2. \A w \in Workers : wpc[w] # "run"
    BY <1>1, <2>1 DEF StreamInv, ChiefRuns
  <2> QED
    BY <1>1, <1>2, <2>1, <2>2, EmptyLineNext DEF LineInv
<1>6. CASE WorkerCrash(v)
  <2>1. /\ conf' = conf /\ slot' = slot
        /\ wpc' = [w \in Workers |-> IF w \in {v} THEN "down" ELSE wpc[w]]
        /\ next' = [p \in Partitions |-> IF p % NumWorkers \in {v} THEN StartAt ELSE next[p]]
        /\ off' = [p \in Partitions |-> IF p % NumWorkers \in {v} THEN StartAt ELSE off[p]]
        /\ fetch' = [w \in Workers |-> IF w \in {v} THEN <<>> ELSE fetch[w]]
        /\ raw' = [w \in Workers |-> IF w \in {v} THEN <<>> ELSE raw[w]]
        /\ pipe' = [w \in Workers |-> IF w \in {v} THEN <<>> ELSE pipe[w]]
        /\ hand' = [w \in Workers |-> IF w \in {v} THEN <<>> ELSE hand[w]]
        /\ ops' = [w \in Workers |-> IF w \in {v} THEN {} ELSE ops[w]]
        /\ done' = [w \in Workers |-> IF w \in {v} THEN {} ELSE done[w]]
    BY <1>6 DEF WorkerCrash, Dead
  <2>2. ASSUME NEW w \in Workers \ {v}
        PROVE  Same(w) /\ done'[w] = done[w]
    <3>1. \A p \in PartsOf(w) : next'[p] = next[p] /\ off'[p] = off[p]
      BY <2>1, OwnParts
    <3> QED
      BY <2>1, <3>1 DEF Same
  <2>3. Line(v)'
    BY <2>1, EmptyLineNext
  <2> QED
    BY <2>1, <2>2, <2>3, OneLine
<1>7. CASE JobCrash
  <2>1. /\ done' = [w \in Workers |-> {}] /\ fetch' = [w \in Workers |-> <<>>]
        /\ pipe' = [w \in Workers |-> <<>>] /\ hand' = [w \in Workers |-> <<>>]
    BY <1>7 DEF JobCrash, Dead
  <2> QED
    BY <2>1, EmptyLineNext DEF LineInv
<1>8. CASE SaveStep \/ UNCHANGED streamVars
  <2>1. UNCHANGED <<conf, wpc, next, off, fetch, raw, pipe, hand, ops, slot, done>>
    BY <1>8 DEF SaveStep, SaveBegin, ReadOffsets, WriteFile, SaveVars, streamVars
  <2>2. \A w \in Workers : Same(w) /\ done'[w] = done[w]
    BY <2>1 DEF Same
  <2>3. DOMAIN done' = Workers /\ conf' = conf
    BY <1>1, <2>1
  <2> QED
    BY <1>1, <2>2, <2>3, LineStays DEF LineInv
<1> QED
  BY <1>3, <1>4, <1>5, <1>6, <1>7, <1>8

(* Nobody has anything at the start.                                       *)
LEMMA LineInit == StreamInit => LineInv
<1> SUFFICES ASSUME StreamInit PROVE LineInv
  OBVIOUS
<1>1. /\ fetch = [w \in Workers |-> <<>>] /\ pipe = [w \in Workers |-> <<>>]
      /\ hand = [w \in Workers |-> <<>>] /\ done = [w \in Workers |-> {}]
  BY DEF StreamInit
<1> QED
  BY <1>1, EmptyLine DEF LineInv

(* Every step keeps the workers in line.                                   *)
LEMMA LineStep == StreamInv /\ LineInv /\ [StreamNext]_streamVars => LineInv'
<1> SUFFICES ASSUME StreamInv, LineInv, [StreamNext]_streamVars PROVE LineInv'
  OBVIOUS
<1>1. Chief \in Workers
  BY WorkersNumbered
<1>2. ASSUME NEW w \in Workers, Step(w)
      PROVE  LineInv'
  <2>1. CASE Restore(w) \/ WorkerSession(w) \/ (w = Chief /\ ChiefSession)
    BY <2>1, RestLine
  <2>2. CASE FetchDone(w) \/ \E p \in Partitions : Read(w, p)
    BY <2>2, FetchDoneLine, ReadLine
  <2>3. CASE \E i \in DOMAIN pipe[w] : Compare(w, i) \/ Record(w, i) \/ Dump(w, i)
    BY <2>3, ParseLine
  <2>4. CASE NextBatch(w) \/ Assign(w) \/ Apply(w)
    BY <2>4, NextBatchLine, TrainLine
  <2> QED
    BY <1>2, <2>1, <2>2, <2>3, <2>4 DEF Step
<1> QED
  BY <1>1, <1>2, RestLine DEF StreamNext, JobStep

(* Only an Assign sets a slot, and the batch in hand is no earlier.        *)
LEMMA LineAdvances ==
  ASSUME StreamInv, LineInv, StreamNext, NEW w \in Workers, conf.parallel = 1,
         slot'[w] # slot[w], slot'[w] # NoOffsets, done[w] \ ToSet(hand[w][1].msgs) # {},
         NEW p \in DOMAIN slot[w]
  PROVE  slot'[w][p] >= slot[w][p]
<1> USE DEF readVars, pipeVars, psVars, saveVars, diskVars, pastVars
<1>1. DOMAIN slot = Workers /\ InOrder(w) /\ Line(w)
  BY DEF StreamInv, Shapes, LineInv
<1>2. Assign(w)
  <2>1. ~ \E v \in Workers : WorkerCrash(v) \/ Restore(v) \/ WorkerSession(v)
    BY DEF WorkerCrash, Restore, WorkerSession
  <2>2. ~JobCrash /\ ~ChiefSession
    BY DEF JobCrash, ChiefSession
  <2>3. ~SaveStep
    BY DEF SaveStep, SaveBegin, ReadOffsets, WriteFile, SaveVars
  <2>4. ~ \E v \in Workers, q \in Partitions : Read(v, q)
    BY DEF Read
  <2>5. ~ \E v \in Workers : FetchDone(v) \/ NextBatch(v) \/ Apply(v)
    BY DEF FetchDone, NextBatch, Apply
  <2>6. ~ \E v \in Workers : \E i \in DOMAIN pipe[v] : Compare(v, i) \/ Record(v, i) \/ Dump(v, i)
    BY DEF Compare, Record, Dump
  <2>7. \E v \in Workers : Assign(v)
    BY <2>1, <2>2, <2>3, <2>4, <2>5, <2>6, Zenon DEF StreamNext, JobStep, Step
  <2>8. PICK v \in Workers : slot' = [slot EXCEPT ![v] = hand[v][1].snap] /\ Assign(v)
    BY <2>7 DEF Assign
  <2> QED
    BY <1>1, <2>8
<1>3. slot'[w] = hand[w][1].snap /\ "assign" \in ops[w]
  BY <1>1, <1>2 DEF Assign, Ran
<1>4. DOMAIN hand[w] = {1} /\ InHand(w) = ToSet(hand[w][1].msgs) /\ hand[w][1] \in BatchesOf(w)
  BY <1>1, <1>3, HandIs
<1>5. NoLater(slot[w], hand[w][1].snap)
  BY <1>1, <1>4 DEF Line, SlotInLine, Settled
<1>6. /\ slot[w] \in OffsetsOf(w) /\ hand[w][1].snap \in OffsetsOf(w)
      /\ hand[w][1].snap # NoOffsets
  BY <1>1, <1>3, <1>4 DEF InOrder, Typed, BatchesOf
<1>7. p \in PartsOf(w) /\ slot[w][p] \in Nat
  BY <1>6, OffsetsAre
<1>8. p \in DOMAIN hand[w][1].snap /\ hand[w][1].snap[p] \in Nat
  BY <1>6, <1>7 DEF OffsetsOf
<1> QED
  BY <1>3, <1>5, <1>7, <1>8 DEF NoLater

(* OffsetsAdvance: with one parsing call, what a worker puts in its slot   *)
(* is never behind what it put there in this session.                      *)
THEOREM OffsetsNeverBack == StreamSpec => OffsetsAdvance
<1>1. StreamSpec => []LineInv
  BY StreamInvariant, LineInit, LineStep, PTL DEF StreamSpec
<1>2. StreamInv /\ LineInv /\ [StreamNext]_streamVars
        => [\A w \in Workers :
              /\ conf.parallel = 1 /\ slot'[w] # slot[w] /\ slot'[w] # NoOffsets
              /\ done[w] \ ToSet(hand[w][1].msgs) # {}
              => \A p \in DOMAIN slot[w] : slot'[w][p] >= slot[w][p]]_streamVars
  BY LineAdvances
<1> QED
  BY <1>1, <1>2, StreamInvariant, PTL DEF StreamSpec, OffsetsAdvance

---------------------------------------------------------------------------
(* What a restart repeats                                                  *)

(* The settings that ReplayBounded speaks of, the messages that the other  *)
(* parsing calls may have, and what may be repeated of a parsed batch.     *)
Orderly == conf.input = "datahub" \/ 1 \in {conf.parallel, conf.shuffle}
Others == (conf.parallel - 1) * BatchSize
ReplayOf(w) == Others + Repeats(w)

(* What w has taken to train on in this session, and what comes up to a    *)
(* batch of its pipeline.                                                  *)
Trained(w) == done[w] \cup InHand(w)
Held(w, i) == Trained(w) \cup InPipe(w, i)

(* Of a set of messages, those that are read again from offsets o.         *)
Repeated(S, o) == {m \in S : m[1] \in DOMAIN o /\ m[2] >= o[m[1]]}

InTopic(o) == conf.input = "kafka" => \A p \in DOMAIN o : o[p] <= End(p)

ReadSoFar(w) ==
  /\ wpc[w] # "run" => done[w] = {}
  /\ Trained(w) \subseteq PartsOf(w) \X Nat
  /\ \A m \in Trained(w) : m[2] < next[m[1]]

(* DataHub: the offset of a shard is where its reader is, but for a fetch. *)
Fetched(w) ==
  IF conf.input = "kafka" THEN fetch[w] = <<>>
  ELSE \A p \in PartsOf(w) : IF fetch[w] # <<>> /\ fetch[w][1] = p
                             THEN next[p] <= fetch[w][2] /\ fetch[w][2] <= off[p] + ReadCnt
                             ELSE next[p] = off[p]

Within(w) ==
  /\ conf.input = "kafka" => \A p \in PartsOf(w) : next[p] <= End(p)
  /\ InTopic(slot[w])
  /\ \A i \in DOMAIN pipe[w] : InTopic(pipe[w][i].snap)
  /\ \A i \in DOMAIN hand[w] : InTopic(hand[w][i].snap)

FullSeen(w) ==
  \A i \in DOMAIN pipe[w] :
    pipe[w][i].saw # NoOffsets \/ Parsed(pipe[w][i]) => Full(pipe[w][i])

(* Not shuffled, the messages of a partition come in their order.          *)
InTurn(w) ==
  conf.shuffle = 1 =>
    \A i \in DOMAIN pipe[w] : \A n \in ToSet(pipe[w][i].msgs) : \A m \in Held(w, i - 1) :
      m[1] = n[1] => m[2] < n[2]

(* Kafka: the messages that no call will set the dictionary to.  Of these, *)
(* those after the dictionary came after a batch that was late to set it.  *)
Passed(b) ==
  {m \in ToSet(b.msgs) : Parsed(b) \/ (m[1] \in DOMAIN b.saw /\ m[2] <= b.saw[m[1]])}
Claimed(w) == Trained(w) \cup UNION {Passed(pipe[w][i]) : i \in DOMAIN pipe[w]}
SetBack(w) ==
  conf.input = "kafka" /\ Orderly =>
    \A p \in PartsOf(w) : AtMost({m \in Claimed(w) : m[1] = p /\ m[2] > off[p]}, Others)

(* What the offsets of a batch repeat does not change on its way.          *)
PipeReplay(w) ==
  Orderly => \A i \in DOMAIN pipe[w] : AtMost(Repeated(Held(w, i), pipe[w][i].snap), ReplayOf(w))
HandReplay(w) ==
  Orderly => \A i \in DOMAIN hand[w] : AtMost(Repeated(Trained(w), hand[w][i].snap), ReplayOf(w))
SlotReplay(w) ==
  Orderly => AtMost(Repeated(IF "assign" \in ops[w] THEN done[w] \ InHand(w) ELSE Trained(w),
                             slot[w]), ReplayOf(w))

Replay(w) ==
  /\ ReadSoFar(w) /\ Fetched(w) /\ Within(w) /\ FullSeen(w) /\ InTurn(w) /\ SetBack(w)
  /\ PipeReplay(w) /\ HandReplay(w) /\ SlotReplay(w)

SavedInTopic == InTopic(saving.off) /\ \A n \in DOMAIN file : InTopic(file[n])

ReplayInv == DOMAIN done = Workers /\ SavedInTopic /\ \A w \in Workers : Replay(w)

(* The elements of some sets of at most n.                                 *)
LEMMA AtMostFamily ==
  ASSUME NEW P, IsFiniteSet(P), NEW n \in Nat, NEW F, \A p \in P : AtMost(F[p], n)
  PROVE  AtMost(UNION {F[p] : p \in P}, Cardinality(P) * n)
<1> DEFINE U == UNION {F[p] : p \in P}
           D == P \X (1..n)
<1>1. IsFiniteSet(D) /\ Cardinality(D) = Cardinality(P) * n /\ Cardinality(P) * n \in Nat
  <2>1. IsFiniteSet(1..n) /\ Cardinality(1..n) = n
    BY FS_Interval
  <2>2. IsFiniteSet(P \X (1..n)) /\ Cardinality(P \X (1..n)) = Cardinality(P) * Cardinality(1..n)
    BY <2>1, FS_Product, Zenon
  <2>3. IsFiniteSet(P \X (1..n)) /\ Cardinality(P \X (1..n)) = Cardinality(P) * n
    BY <2>1, <2>2
  <2> QED
    BY <2>3, FS_CardinalityType
<1>2. CASE U = {}
  BY <1>1, <1>2, AtMostNone
<1>3. CASE U # {}
  <2>1. PICK u : u \in U
    BY <1>3
  <2> DEFINE Covers(p, g) == \A m \in F[p] : \E k \in 1..n : g[k] = m
  <2>2. ASSUME NEW p \in P
        PROVE  \E g \in [1..n -> U] : Covers(p, g)
    <3> DEFINE c == Cardinality(F[p])
    <3>1. IsFiniteSet(F[p]) /\ c \in Nat /\ c <= n
      BY FS_CardinalityType DEF AtMost
    <3>2. ExistsBijection(1..c, F[p])
      BY <3>1, FS_CardinalityType
    <3> HIDE DEF c
    <3>3. PICK b : b \in [1..c -> F[p]] /\ \A m \in F[p] : \E k \in 1..c : b[k] = m
      BY <3>2 DEF ExistsBijection, Bijection, Surjection
    <3> DEFINE g == [k \in 1..n |-> IF k <= c THEN b[k] ELSE u]
    <3>4. g \in [1..n -> U]
      <4>1. ASSUME NEW k \in 1..n
            PROVE  g[k] \in U
        <5>1. CASE k <= c
          <6>1. k \in 1..c
            BY <3>1, <5>1
          <6> QED
            BY <3>3, <5>1, <6>1
        <5>2. CASE ~(k <= c)
          BY <2>1, <5>2
        <5> QED
          BY <5>1, <5>2
      <4> QED
        BY <4>1
    <3>5. \A k \in 1..c : k \in 1..n /\ k <= c
      BY <3>1
    <3>6. Covers(p, g)
      BY <3>3, <3>5
    <3> QED
      BY <3>4, <3>6
  <2> DEFINE G == [p \in P |-> CHOOSE g \in [1..n -> U] : Covers(p, g)]
             f == [x \in D |-> G[x[1]][x[2]]]
  <2>3. \A p \in P : G[p] \in [1..n -> U] /\ Covers(p, G[p])
    BY <2>2
  <2> HIDE DEF G
  <2>4. f \in [D -> U]
    BY <2>3
  <2>5. ASSUME NEW m \in U
        PROVE  \E x \in D : f[x] = m
    <3>1. PICK p \in P : m \in F[p]
      OBVIOUS
    <3>2. PICK k \in 1..n : G[p][k] = m
      BY <2>3, <3>1
    <3>3. <<p, k>> \in D /\ f[<<p, k>>] = m
      BY <3>2
    <3> QED
      BY <3>3
  <2> HIDE DEF U, D, f
  <2>6. f \in Surjection(D, U)
    BY <2>4, <2>5 DEF Surjection
  <2> QED
    BY <1>1, <2>6, FS_Surjection DEF AtMost, U
<1> QED
  BY <1>2, <1>3

(* One element.                                                            *)
LEMMA AtMostOne ==
  ASSUME NEW e
  PROVE  AtMost({e}, 1)
BY FS_Singleton DEF AtMost

(* The bounds of what is repeated.                                         *)
LEMMA ReplayNumbers ==
  ASSUME conf \in Confs, NEW w \in Workers
  PROVE  /\ Others \in Nat /\ Repeats(w) \in Nat /\ ReplayOf(w) \in Nat /\ ReadCnt \in Nat
         /\ IsFiniteSet(PartsOf(w))
         /\ conf.input = "kafka" => Repeats(w) = Cardinality(PartsOf(w)) * (Others + 1)
         /\ conf.input = "datahub" => ReadCnt <= ReplayOf(w)
         /\ Unsettled(w) + Repeats(w) = ReplayOf(w) + (IF w = Chief THEN 0 ELSE BatchSize)
         /\ \A p \in Partitions : StartAt <= End(p)
<1>1. /\ conf.parallel \in Nat \ {0} /\ BatchSize \in Nat \ {0} /\ conf \in ConfType
      /\ conf.input \in {"kafka", "datahub"}
  BY Settings, WorkersNumbered, StreamAssumption
<1>2. ASSUME NEW a \in Nat, NEW b \in Nat
      PROVE  a * b \in Nat /\ (a + 1) * b = a * b + b
  OBVIOUS
<1>3. Others \in Nat /\ (conf.parallel - 1 + 1) * BatchSize = Others + BatchSize
  BY <1>1, <1>2 DEF Others
<1>4. Unsettled(w) = Others + (IF w = Chief THEN 0 ELSE BatchSize)
  <2>1. CASE w = Chief
    BY <2>1, <1>1 DEF Unsettled, Others
  <2>2. CASE w # Chief
    BY <2>2, <1>1, <1>3 DEF Unsettled
  <2> QED
    BY <2>1, <2>2
<1>5. IsFiniteSet(PartsOf(w)) /\ Cardinality(PartsOf(w)) \in Nat
  <2>1. IsFiniteSet(Partitions)
    BY WorkersNumbered, FS_Interval DEF Partitions
  <2>2. PartsOf(w) \in SUBSET Partitions
    BY WorkersNumbered
  <2>3. IsFiniteSet(PartsOf(w))
    BY <2>1, <2>2, FS_Subset
  <2> QED
    BY <2>3, FS_CardinalityType
<1>6. ReadCnt \in Nat
  BY StreamAssumption
<1>7. conf.input = "kafka" => Repeats(w) = Cardinality(PartsOf(w)) * (Others + 1)
  <2>1. 1 + Others = Others + 1
    BY <1>3
  <2> QED
    BY <2>1 DEF Repeats, Others
<1>8. conf.input = "datahub" => Repeats(w) = ReadCnt
  BY DEF Repeats
<1>9. Repeats(w) \in Nat
  <2>1. Cardinality(PartsOf(w)) * (Others + 1) \in Nat
    <3> DEFINE a == Others + 1
    <3>1. a \in Nat
      BY <1>3
    <3> HIDE DEF a
    <3>2. Cardinality(PartsOf(w)) * a \in Nat
      BY <1>2, <1>5, <3>1
    <3> QED
      BY <3>2 DEF a
  <2> QED
    BY <1>1, <1>6, <1>7, <1>8, <2>1
<1>10. ASSUME NEW p \in Partitions
       PROVE  StartAt <= End(p)
  <2>1. p + 1 \in 1..NumPartition /\ p + 1 - 1 = p
    BY WorkersNumbered DEF Partitions
  <2> QED
    BY <2>1, StreamAssumption DEF End
<1> HIDE DEF Others
<1> QED
  BY <1>1, <1>3, <1>4, <1>5, <1>6, <1>7, <1>8, <1>9, <1>10 DEF ReplayOf

(* A worker for which nothing happens may repeat what it did.              *)
LEMMA ReplayStays ==
  ASSUME NEW w \in Workers, Replay(w), Same(w), done'[w] = done[w], conf' = conf, Typed(w)
  PROVE  Replay(w)'
<1>1. /\ InHand(w)' = InHand(w) /\ \A i : InPipe(w, i)' = InPipe(w, i)
      /\ \A p \in PartsOf(w) : next'[p] = next[p] /\ off'[p] = off[p]
      /\ UNCHANGED <<pipe[w], hand[w], slot[w], fetch[w], wpc[w], done[w], ops[w]>>
  BY DEF InHand, InPipe, Same
<1>2. Trained(w)' = Trained(w) /\ \A i : Held(w, i)' = Held(w, i)
  BY <1>1 DEF Trained, Held
<1>3. /\ Others' = Others /\ ReplayOf(w)' = ReplayOf(w) /\ (Orderly' <=> Orderly)
      /\ \A p : End(p)' = End(p)
  BY DEF Others, ReplayOf, Repeats, Orderly, End
<1>4. Claimed(w)' = Claimed(w)
  BY <1>1, <1>2 DEF Claimed, Passed, Parsed
<1>5. ReadSoFar(w)'
  <2>1. Trained(w) \subseteq PartsOf(w) \X Nat /\ \A m \in Trained(w) : m[2] < next[m[1]]
    BY DEF Replay, ReadSoFar
  <2>2. \A m \in Trained(w) : m[1] \in PartsOf(w)
    BY <2>1
  <2>3. \A m \in Trained(w) : m[2] < next'[m[1]]
    BY <1>1, <2>1, <2>2
  <2> QED
    BY <1>1, <1>2, <2>1, <2>3 DEF Replay, ReadSoFar
<1>6. Fetched(w)'
  BY <1>1 DEF Replay, Fetched
<1>7. Within(w)'
  BY <1>1, <1>3 DEF Replay, Within, InTopic
<1>8. FullSeen(w)' /\ InTurn(w)'
  BY <1>1, <1>2 DEF Replay, FullSeen, InTurn, Full, Parsed
<1>9. SetBack(w)'
  <2>1. ASSUME NEW p \in PartsOf(w)
        PROVE  {m \in Claimed(w)' : m[1] = p /\ m[2] > off'[p]}
                 = {m \in Claimed(w) : m[1] = p /\ m[2] > off[p]}
    BY <1>1, <1>4
  <2> QED
    BY <1>3, <2>1 DEF Replay, SetBack
<1>10. PipeReplay(w)' /\ HandReplay(w)' /\ SlotReplay(w)'
  BY <1>1, <1>2, <1>3 DEF Replay, PipeReplay, HandReplay, SlotReplay, Repeated
<1> QED
  BY <1>5, <1>6, <1>7, <1>8, <1>9, <1>10 DEF Replay

(* A step of one worker does not make the others repeat more.              *)
LEMMA OneReplay ==
  ASSUME StreamInv, ReplayInv, NEW v \in Workers, conf' = conf, DOMAIN done' = Workers,
         UNCHANGED <<saving, file>>,
         \A w \in Workers \ {v} : Same(w) /\ done'[w] = done[w], Replay(v)'
  PROVE  ReplayInv'
<1>1. ASSUME NEW w \in Workers
      PROVE  Replay(w)'
  <2>1. CASE w = v
    BY <2>1
  <2>2. CASE w # v
    BY <2>2, ReplayStays DEF ReplayInv, StreamInv, InOrder
  <2> QED
    BY <2>1, <2>2
<1>2. SavedInTopic'
  BY DEF ReplayInv, SavedInTopic, InTopic, End
<1> QED
  BY <1>1, <1>2 DEF ReplayInv

(* Who has trained on nothing, and holds nothing, repeats nothing.         *)
LEMMA EmptyReplay ==
  ASSUME conf \in Confs, NEW w \in Workers, pipe[w] = <<>>, hand[w] = <<>>, done[w] = {},
         Fetched(w), Within(w)
  PROVE  Replay(w)
<1>1. /\ DOMAIN pipe[w] = {} /\ DOMAIN hand[w] = {} /\ InHand(w) = {}
  BY DEF InHand
<1>2. Trained(w) = {} /\ Claimed(w) = {}
  BY <1>1 DEF Trained, Claimed
<1>3. ReadSoFar(w) /\ FullSeen(w) /\ InTurn(w) /\ PipeReplay(w) /\ HandReplay(w)
  BY <1>1, <1>2 DEF ReadSoFar, FullSeen, InTurn, PipeReplay, HandReplay
<1>4. Others \in Nat /\ ReplayOf(w) \in Nat
  BY ReplayNumbers
<1>5. SetBack(w)
  BY <1>2, <1>4, AtMostNone DEF SetBack
<1>6. SlotReplay(w)
  <2>1. Repeated(IF "assign" \in ops[w] THEN done[w] \ InHand(w) ELSE Trained(w), slot[w]) = {}
    BY <1>2 DEF Repeated
  <2> QED
    BY <1>4, <2>1, AtMostNone DEF SlotReplay
<1> QED
  BY <1>3, <1>5, <1>6 DEF Replay

(* The same, after a step.                                                 *)
LEMMA EmptyReplayNext ==
  ASSUME conf \in Confs, conf' = conf, NEW w \in Workers,
         pipe'[w] = <<>>, hand'[w] = <<>>, done'[w] = {}, Fetched(w)', Within(w)'
  PROVE  Replay(w)'
<1>1. /\ DOMAIN pipe'[w] = {} /\ DOMAIN hand'[w] = {} /\ InHand(w)' = {}
  BY DEF InHand
<1>2. Trained(w)' = {} /\ Claimed(w)' = {}
  BY <1>1 DEF Trained, Claimed
<1>3. ReadSoFar(w)' /\ FullSeen(w)' /\ InTurn(w)' /\ PipeReplay(w)' /\ HandReplay(w)'
  BY <1>1, <1>2 DEF ReadSoFar, FullSeen, InTurn, PipeReplay, HandReplay
<1>4. Others' \in Nat /\ ReplayOf(w)' \in Nat
  <2>1. Others' = Others /\ ReplayOf(w)' = ReplayOf(w)
    BY DEF Others, ReplayOf, Repeats
  <2> QED
    BY <2>1, ReplayNumbers
<1>5. SetBack(w)'
  <2>1. \A p : {m \in Claimed(w)' : m[1] = p /\ m[2] > off'[p]} = {}
    BY <1>2
  <2> QED
    BY <1>4, <2>1, AtMostNone DEF SetBack
<1>6. SlotReplay(w)'
  <2>1. Repeated(IF "assign" \in ops'[w] THEN done'[w] \ InHand(w)' ELSE Trained(w)', slot'[w]) = {}
    BY <1>2 DEF Repeated
  <2> QED
    BY <1>4, <2>1, AtMostNone DEF SlotReplay
<1> QED
  BY <1>3, <1>5, <1>6 DEF Replay

(* The next batch is parsed: what it may repeat goes with it.              *)
LEMMA NextBatchReplay ==
  ASSUME StreamInv, ReplayInv, NEW v \in Workers, NextBatch(v)
  PROVE  ReplayInv'
<1>1. /\ wpc[v] = "run" /\ hand[v] = <<>> /\ pipe[v] # <<>> /\ Parsed(Head(pipe[v]))
      /\ hand' = [hand EXCEPT ![v] = <<Head(pipe[v])>>]
      /\ pipe' = [pipe EXCEPT ![v] = Tail(pipe[v])]
      /\ ops' = [ops EXCEPT ![v] = {"assign", "apply"}]
      /\ UNCHANGED <<conf, wpc, next, off, fetch, raw, slot, done, saving, file>>
  BY DEF NextBatch, Running, readVars, psVars, saveVars, diskVars, pastVars
<1>2. /\ DOMAIN hand = Workers /\ DOMAIN pipe = Workers /\ DOMAIN ops = Workers
      /\ DOMAIN done = Workers /\ pipe[v] \in Seq(BatchesOf(v)) /\ InOrder(v) /\ Replay(v)
      /\ PartsOf(v) \subseteq Partitions /\ next \in [Partitions -> Nat]
  BY WorkersNumbered DEF StreamInv, Shapes, InOrder, Typed, ReplayInv
<1>3. PICK n \in Nat : n = Len(pipe[v]) - 1
  BY <1>1, <1>2, TailIs
<1>4. /\ Head(pipe[v]) = pipe[v][1] /\ DOMAIN pipe[v] = 1..(n + 1) /\ DOMAIN Tail(pipe[v]) = 1..n
      /\ \A i \in 1..n : Tail(pipe[v])[i] = pipe[v][i + 1]
  BY <1>1, <1>2, <1>3, TailIs
<1>5. /\ hand'[v] = <<pipe[v][1]>> /\ ops'[v] = {"assign", "apply"} /\ DOMAIN pipe'[v] = 1..n
      /\ \A i \in 1..n : pipe'[v][i] = pipe[v][i + 1]
  BY <1>1, <1>2, <1>4
<1>6. \A w \in Workers \ {v} : Same(w) /\ done'[w] = done[w]
  BY <1>1 DEF Same
<1>7. /\ \A i \in 1..n : i + 1 \in DOMAIN pipe[v] /\ i - 1 + 1 = i + 1 - 1 /\ i - 1 \in 0..n /\ i \in 0..n
      /\ 1 \in DOMAIN pipe[v] /\ 0 \in 0..n /\ 0 + 1 = 1
  BY <1>4
<1>8. DOMAIN hand'[v] = {1} /\ hand'[v][1] = pipe[v][1]
  BY <1>5
<1>9. InHand(v) = {} /\ InHand(v)' = ToSet(pipe[v][1].msgs)
  BY <1>1, <1>8 DEF InHand
<1>10. Trained(v) = done[v] /\ Trained(v)' = done[v] \cup ToSet(pipe[v][1].msgs)
  BY <1>1, <1>9 DEF Trained
<1>11. ASSUME NEW i \in 0..n
       PROVE  Held(v, i)' \subseteq Held(v, i + 1)
  <2>1. ToSet(pipe[v][1].msgs) \subseteq InPipe(v, i + 1)
    <3>1. 1 <= i + 1
      OBVIOUS
    <3> QED
      BY <1>7, <3>1 DEF InPipe
  <2>2. InPipe(v, i)' \subseteq InPipe(v, i + 1)
    <3> SUFFICES ASSUME NEW m \in InPipe(v, i)' PROVE m \in InPipe(v, i + 1)
      OBVIOUS
    <3>1. PICK j \in 1..n : j <= i /\ m \in ToSet(pipe'[v][j].msgs)
      BY <1>5 DEF InPipe
    <3>2. j + 1 <= i + 1 /\ j + 1 \in DOMAIN pipe[v] /\ m \in ToSet(pipe[v][j + 1].msgs)
      BY <1>5, <1>7, <3>1
    <3> QED
      BY <3>2 DEF InPipe
  <2> QED
    BY <1>10, <2>1, <2>2 DEF Held
<1>12. Claimed(v)' \subseteq Claimed(v)
  <2>1. ToSet(pipe[v][1].msgs) \subseteq Passed(pipe[v][1])
    BY <1>1, <1>4 DEF Passed
  <2>2. Trained(v)' \subseteq Claimed(v)
    BY <1>7, <1>10, <2>1 DEF Claimed
  <2>3. ASSUME NEW i \in DOMAIN pipe'[v]
        PROVE  Passed(pipe'[v][i]) \subseteq Claimed(v)
    BY <1>5, <1>7 DEF Claimed
  <2>4. \A i \in DOMAIN pipe'[v] : Passed(pipe[v][i])' = Passed(pipe'[v][i])
    BY DEF Passed, Parsed
  <2> QED
    BY <2>2, <2>3, <2>4 DEF Claimed
<1>13. /\ Others' = Others /\ ReplayOf(v)' = ReplayOf(v) /\ (Orderly' <=> Orderly)
       /\ \A p : End(p)' = End(p)
       /\ Others \in Nat /\ ReplayOf(v) \in Nat
  <2>1. Others \in Nat /\ ReplayOf(v) \in Nat
    BY ReplayNumbers DEF StreamInv, Shapes
  <2> QED
    BY <1>1, <2>1 DEF Others, ReplayOf, Repeats, Orderly, End
<1>14. ReadSoFar(v)'
  <2>1. ToSet(pipe[v][1].msgs) \subseteq PartsOf(v) \X Nat
    BY <1>2, <1>7, BatchIs
  <2>2. \A m \in ToSet(pipe[v][1].msgs) : m[2] < next[m[1]]
    BY <1>2, <1>7 DEF InOrder, Behind
  <2> QED
    BY <1>1, <1>2, <1>10, <2>1, <2>2 DEF Replay, ReadSoFar
<1>15. Fetched(v)' /\ FullSeen(v)'
  BY <1>1, <1>2, <1>5, <1>7 DEF Replay, Fetched, FullSeen, Full, Parsed
<1>16. Within(v)'
  BY <1>1, <1>2, <1>5, <1>7, <1>8, <1>13 DEF Replay, Within, InTopic
<1>17. InTurn(v)'
  <2> SUFFICES ASSUME conf.shuffle = 1, NEW i \in 1..n, NEW k \in ToSet(pipe'[v][i].msgs),
                      NEW m \in Held(v, i - 1)', m[1] = k[1]
               PROVE  m[2] < k[2]
    BY <1>1, <1>5 DEF InTurn
  <2>1. i + 1 \in DOMAIN pipe[v] /\ k \in ToSet(pipe[v][i + 1].msgs) /\ m \in Held(v, i + 1 - 1)
    BY <1>5, <1>7, <1>11
  <2> QED
    BY <1>2, <2>1 DEF Replay, InTurn
<1>18. SetBack(v)'
  <2> SUFFICES ASSUME conf.input = "kafka", Orderly, NEW p \in PartsOf(v)
               PROVE  AtMost({m \in Claimed(v)' : m[1] = p /\ m[2] > off[p]}, Others)
    BY <1>1, <1>13 DEF SetBack
  <2>1. AtMost({m \in Claimed(v) : m[1] = p /\ m[2] > off[p]}, Others)
    BY <1>2 DEF Replay, SetBack
  <2>2. {m \in Claimed(v)' : m[1] = p /\ m[2] > off[p]}
          \subseteq {m \in Claimed(v) : m[1] = p /\ m[2] > off[p]}
    BY <1>12
  <2> QED
    BY <1>13, <2>1, <2>2, AtMostLess
<1>19. ASSUME Orderly, NEW i \in 0..n, i + 1 \in DOMAIN pipe[v], NEW S, S \subseteq Held(v, i + 1)
       PROVE  AtMost(Repeated(S, pipe[v][i + 1].snap), ReplayOf(v))
  <2>1. AtMost(Repeated(Held(v, i + 1), pipe[v][i + 1].snap), ReplayOf(v))
    BY <1>2, <1>19 DEF Replay, PipeReplay
  <2>2. Repeated(S, pipe[v][i + 1].snap) \subseteq Repeated(Held(v, i + 1), pipe[v][i + 1].snap)
    BY <1>19 DEF Repeated
  <2> QED
    BY <1>13, <2>1, <2>2, AtMostLess
<1>20. PipeReplay(v)'
  <2> SUFFICES ASSUME Orderly, NEW i \in 1..n
               PROVE  AtMost(Repeated(Held(v, i)', pipe'[v][i].snap), ReplayOf(v))
    BY <1>5, <1>13 DEF PipeReplay, Repeated
  <2>1. i \in 0..n /\ i + 1 \in DOMAIN pipe[v] /\ Held(v, i)' \subseteq Held(v, i + 1)
    BY <1>7, <1>11
  <2> QED
    BY <1>5, <1>19, <2>1
<1>21. HandReplay(v)'
  <2> SUFFICES ASSUME Orderly
               PROVE  AtMost(Repeated(Trained(v)', pipe[v][1].snap), ReplayOf(v))
    BY <1>8, <1>13 DEF HandReplay, Repeated
  <2>1. Trained(v)' \subseteq Held(v, 0 + 1)
    BY <1>7, <1>11 DEF Held
  <2>2. AtMost(Repeated(Trained(v)', pipe[v][0 + 1].snap), ReplayOf(v))
    BY <1>7, <1>19, <2>1
  <2> QED
    BY <1>7, <2>2
<1>22. SlotReplay(v)'
  <2> SUFFICES ASSUME Orderly
               PROVE  AtMost(Repeated(done[v] \ InHand(v)', slot[v]), ReplayOf(v))
    BY <1>1, <1>5, <1>13 DEF SlotReplay, Repeated
  <2>1. AtMost(Repeated(done[v], slot[v]), ReplayOf(v))
    <3>1. done[v] \ InHand(v) = done[v]
      BY <1>9
    <3> QED
      BY <1>2, <1>10, <3>1 DEF Replay, SlotReplay
  <2>2. Repeated(done[v] \ InHand(v)', slot[v]) \subseteq Repeated(done[v], slot[v])
    BY DEF Repeated
  <2> QED
    BY <1>13, <2>1, <2>2, AtMostLess
<1>23. Replay(v)'
  BY <1>14, <1>15, <1>16, <1>17, <1>18, <1>20, <1>21, <1>22 DEF Replay
<1> QED
  BY <1>1, <1>2, <1>6, <1>23, OneReplay

(* Neither half of the train op adds to what a worker has taken to train   *)
(* on, and the slot gets the offsets of the batch in hand.                 *)
LEMMA TrainReplay ==
  ASSUME StreamInv, ReplayInv, NEW v \in Workers, Assign(v) \/ Apply(v)
  PROVE  ReplayInv'
<1>1. PICK op \in {"assign", "apply"} :
        /\ Ran(v, op)
        /\ op = "assign" => slot' = [slot EXCEPT ![v] = hand[v][1].snap] /\ done' = done
        /\ op = "apply" => /\ slot' = slot
                           /\ done' = [done EXCEPT ![v] = done[v] \cup ToSet(hand[v][1].msgs)]
        /\ UNCHANGED <<conf, wpc, next, off, fetch, raw, pipe, saving, file>>
  <2>1. CASE Assign(v)
    BY <2>1 DEF Assign, readVars, pastVars, saveVars, diskVars
  <2>2. CASE Apply(v)
    BY <2>2 DEF Apply, readVars, saveVars, diskVars
  <2> QED
    BY <2>1, <2>2
<1>2. /\ DOMAIN done = Workers /\ InOrder(v) /\ DOMAIN slot = Workers /\ Replay(v)
  BY DEF ReplayInv, StreamInv, Shapes
<1>3. InHand(v) = ToSet(hand[v][1].msgs) /\ op \in ops[v] /\ DOMAIN hand[v] = {1}
      /\ wpc[v] = "run"
  BY <1>1, <1>2, HandIs DEF Ran
<1>4. /\ DOMAIN ops = Workers /\ DOMAIN hand = Workers
      /\ ops' = [ops EXCEPT ![v] = ops[v] \ {op}]
      /\ hand' = [hand EXCEPT ![v] = IF ops[v] = {op} THEN <<>> ELSE hand[v]]
  BY <1>1 DEF Ran, StreamInv, Shapes
<1>5. /\ ops'[v] = ops[v] \ {op}
      /\ \/ ops[v] = {op} /\ hand'[v] = <<>>
         \/ ops[v] # {op} /\ hand'[v] = hand[v]
      /\ \A w \in Workers \ {v} : ops'[w] = ops[w] /\ hand'[w] = hand[w]
  BY <1>4
<1>6. /\ DOMAIN done' = Workers /\ \A w \in Workers \ {v} : Same(w) /\ done'[w] = done[w]
  BY <1>1, <1>2, <1>5 DEF Same
<1>7. DOMAIN hand'[v] \subseteq DOMAIN hand[v] /\ \A h \in DOMAIN hand'[v] : hand'[v][h] = hand[v][h]
  BY <1>5
<1>8. /\ hand'[v] = hand[v] => InHand(v)' = InHand(v)
      /\ hand'[v] = <<>> => InHand(v)' = {}
  BY DEF InHand
<1>9. done'[v] \subseteq done[v] \cup InHand(v) /\ (op = "assign" => done'[v] = done[v])
  BY <1>1, <1>2, <1>3
<1>10. Trained(v)' \subseteq Trained(v)
  BY <1>5, <1>8, <1>9 DEF Trained
<1>11. \A i : InPipe(v, i)' = InPipe(v, i) /\ Held(v, i)' \subseteq Held(v, i)
  BY <1>1, <1>10 DEF InPipe, Held
<1>12. Claimed(v)' \subseteq Claimed(v)
  BY <1>1, <1>10 DEF Claimed, Passed, Parsed
<1>13. /\ Others' = Others /\ ReplayOf(v)' = ReplayOf(v) /\ (Orderly' <=> Orderly)
       /\ \A p : End(p)' = End(p)
       /\ Others \in Nat /\ ReplayOf(v) \in Nat
  <2>1. Others \in Nat /\ ReplayOf(v) \in Nat
    BY ReplayNumbers DEF StreamInv, Shapes
  <2> QED
    BY <1>1, <2>1 DEF Others, ReplayOf, Repeats, Orderly, End
<1>14. ReadSoFar(v)'
  BY <1>1, <1>2, <1>3, <1>10 DEF Replay, ReadSoFar
<1>15. Fetched(v)' /\ FullSeen(v)'
  BY <1>1, <1>2 DEF Replay, Fetched, FullSeen, Full, Parsed
<1>16. Within(v)'
  <2>1. InTopic(slot'[v])
    BY <1>1, <1>2, <1>3 DEF Replay, Within
  <2>2. \A o : InTopic(o)' = InTopic(o)
    BY <1>1, <1>13 DEF InTopic
  <2> QED
    BY <1>1, <1>2, <1>7, <1>13, <2>1 DEF Replay, Within, InTopic
<1>17. InTurn(v)'
  BY <1>1, <1>2, <1>11 DEF Replay, InTurn
<1>18. ASSUME NEW S, NEW T, NEW o, AtMost(Repeated(T, o), ReplayOf(v)), S \subseteq T
       PROVE  AtMost(Repeated(S, o), ReplayOf(v))
  <2>1. Repeated(S, o) \subseteq Repeated(T, o)
    BY <1>18 DEF Repeated
  <2> QED
    BY <1>13, <1>18, <2>1, AtMostLess
<1>19. SetBack(v)'
  <2> SUFFICES ASSUME conf.input = "kafka", Orderly, NEW p \in PartsOf(v)
               PROVE  AtMost({m \in Claimed(v)' : m[1] = p /\ m[2] > off[p]}, Others)
    BY <1>1, <1>13 DEF SetBack
  <2>1. AtMost({m \in Claimed(v) : m[1] = p /\ m[2] > off[p]}, Others)
    BY <1>2 DEF Replay, SetBack
  <2>2. {m \in Claimed(v)' : m[1] = p /\ m[2] > off[p]}
          \subseteq {m \in Claimed(v) : m[1] = p /\ m[2] > off[p]}
    BY <1>12
  <2> QED
    BY <1>13, <2>1, <2>2, AtMostLess
<1>20. PipeReplay(v)'
  <2> SUFFICES ASSUME Orderly, NEW i \in DOMAIN pipe[v]
               PROVE  AtMost(Repeated(Held(v, i)', pipe[v][i].snap), ReplayOf(v))
    BY <1>1, <1>13 DEF PipeReplay, Repeated
  <2>1. AtMost(Repeated(Held(v, i), pipe[v][i].snap), ReplayOf(v))
    BY <1>2 DEF Replay, PipeReplay
  <2> QED
    BY <1>11, <1>18, <2>1
<1>21. HandReplay(v)'
  <2> SUFFICES ASSUME Orderly, NEW i \in DOMAIN hand'[v]
               PROVE  AtMost(Repeated(Trained(v)', hand'[v][i].snap), ReplayOf(v))
    BY <1>13 DEF HandReplay, Repeated
  <2>1. AtMost(Repeated(Trained(v), hand'[v][i].snap), ReplayOf(v))
    BY <1>2, <1>7 DEF Replay, HandReplay
  <2> QED
    BY <1>10, <1>18, <2>1
<1>22. SlotReplay(v)'
  <2> SUFFICES ASSUME Orderly
               PROVE  AtMost(Repeated(IF "assign" \in ops'[v] THEN done'[v] \ InHand(v)' ELSE Trained(v)',
                                      slot'[v]), ReplayOf(v))
    BY <1>13 DEF SlotReplay, Repeated
  <2>1. CASE op = "assign"
    <3>1. AtMost(Repeated(Trained(v), hand[v][1].snap), ReplayOf(v))
      BY <1>2, <1>3 DEF Replay, HandReplay
    <3>2. slot'[v] = hand[v][1].snap /\ "assign" \notin ops'[v]
      BY <1>1, <1>2, <1>5, <2>1
    <3>3. AtMost(Repeated(Trained(v)', hand[v][1].snap), ReplayOf(v))
      BY <1>10, <1>18, <3>1
    <3> QED
      BY <3>2, <3>3
  <2>2. CASE op = "apply"
    <3>1. slot' = slot /\ ("assign" \in ops'[v] <=> "assign" \in ops[v])
      BY <1>1, <1>5, <2>2
    <3>2. CASE "assign" \in ops[v]
      <4>1. ops[v] # {op}
        BY <2>2, <3>2
      <4>2. InHand(v)' = InHand(v) /\ done'[v] \ InHand(v) \subseteq done[v] \ InHand(v)
        BY <1>5, <1>8, <1>9, <4>1
      <4>3. AtMost(Repeated(done[v] \ InHand(v), slot[v]), ReplayOf(v))
        BY <1>2, <3>2 DEF Replay, SlotReplay
      <4>4. AtMost(Repeated(done'[v] \ InHand(v), slot[v]), ReplayOf(v))
        BY <1>18, <4>2, <4>3
      <4> QED
        BY <3>1, <3>2, <4>2, <4>4
    <3>3. CASE "assign" \notin ops[v]
      <4>1. AtMost(Repeated(Trained(v), slot[v]), ReplayOf(v))
        BY <1>2, <3>3 DEF Replay, SlotReplay
      <4>2. AtMost(Repeated(Trained(v)', slot[v]), ReplayOf(v))
        BY <1>10, <1>18, <4>1
      <4> QED
        BY <3>1, <3>3, <4>2
    <3> QED
      BY <3>2, <3>3
  <2> QED
    BY <2>1, <2>2
<1>23. Replay(v)'
  BY <1>14, <1>15, <1>16, <1>17, <1>19, <1>20, <1>21, <1>22 DEF Replay
<1> QED
  BY <1>1, <1>6, <1>23, OneReplay

(* What changes in the pipeline does not change what is taken from it.     *)
LEMMA PipelineReplay ==
  ASSUME StreamInv, NEW v \in Workers, Replay(v), wpc[v] = "run",
         next \in [Partitions -> Nat], next' \in [Partitions -> Nat],
         \A p \in PartsOf(v) : next[p] <= next'[p],
         UNCHANGED <<conf, wpc, hand, ops, slot, done>>,
         \A i \in DOMAIN pipe'[v] : InTopic(pipe'[v][i].snap),
         conf.input = "kafka" => \A p \in PartsOf(v) : next'[p] <= End(p),
         Fetched(v)', FullSeen(v)', InTurn(v)', SetBack(v)', PipeReplay(v)'
  PROVE  Replay(v)'
<1>1. Trained(v)' = Trained(v) /\ InHand(v)' = InHand(v)
  BY DEF Trained, InHand
<1>2. ReplayOf(v)' = ReplayOf(v) /\ (Orderly' <=> Orderly) /\ \A p : End(p)' = End(p)
  BY DEF ReplayOf, Others, Repeats, Orderly, End
<1>3. ReadSoFar(v)'
  <2>1. ASSUME NEW m \in Trained(v)
        PROVE  m[2] < next'[m[1]]
    <3>1. m \in PartsOf(v) \X Nat /\ m[2] < next[m[1]]
      BY DEF Replay, ReadSoFar
    <3>2. m[1] \in PartsOf(v) /\ m[1] \in Partitions /\ m[2] \in Nat
      BY <3>1, WorkersNumbered
    <3>3. next[m[1]] \in Nat /\ next'[m[1]] \in Nat /\ next[m[1]] <= next'[m[1]]
      BY <3>2
    <3> QED
      BY <3>1, <3>2, <3>3
  <2> QED
    BY <1>1, <2>1 DEF Replay, ReadSoFar
<1>4. Within(v)'
  BY <1>2 DEF Replay, Within, InTopic
<1>5. HandReplay(v)' /\ SlotReplay(v)'
  BY <1>1, <1>2 DEF Replay, HandReplay, SlotReplay, Repeated
<1> QED
  BY <1>3, <1>4, <1>5 DEF Replay

(* A fetch that is yielded whole leaves the offset where its reader is.    *)
LEMMA FetchDoneReplay ==
  ASSUME StreamInv, ReplayInv, NEW v \in Workers, FetchDone(v)
  PROVE  ReplayInv'
<1> DEFINE q == fetch[v][1]
           c == fetch[v][2]
<1>1. /\ fetch[v] # <<>> /\ wpc[v] = "run" /\ off' = [off EXCEPT ![q] = c] /\ next[q] = c
      /\ fetch' = [fetch EXCEPT ![v] = <<>>]
      /\ UNCHANGED <<conf, wpc, next, raw, pipe, hand, ops, slot, done, saving, file>>
  BY DEF FetchDone, Pulling, Running, pipeVars, psVars, pastVars, saveVars, diskVars
<1>2. /\ off \in [Partitions -> Nat] /\ DOMAIN fetch = Workers /\ InOrder(v) /\ DOMAIN done = Workers
      /\ next \in [Partitions -> Nat] /\ Replay(v) /\ PartsOf(v) \subseteq Partitions
      /\ conf.input \in {"kafka", "datahub"}
  BY WorkersNumbered, Settings DEF StreamInv, Shapes, ReplayInv
<1>3. q \in PartsOf(v) /\ q \in Partitions /\ c \in Nat
  BY <1>1, <1>2 DEF InOrder, Typed
<1>4. conf.input = "datahub"
  BY <1>1, <1>2 DEF Replay, Fetched
<1>5. \A p \in PartsOf(v) \ {q} : next[p] = off[p]
  BY <1>1, <1>2, <1>4 DEF Replay, Fetched
<1> HIDE DEF q, c
<1>6. /\ off' \in [Partitions -> Nat] /\ off'[q] = c /\ fetch'[v] = <<>>
      /\ \A p \in Partitions \ {q} : off'[p] = off[p]
      /\ \A w \in Workers \ {v} : fetch'[w] = fetch[w]
  BY <1>1, <1>2, <1>3
<1>7. ASSUME NEW w \in Workers \ {v}
      PROVE  Same(w) /\ done'[w] = done[w]
  <2>1. \A p \in PartsOf(w) : off'[p] = off[p]
    BY <1>3, <1>6, OwnParts
  <2> QED
    BY <1>1, <1>6, <2>1 DEF Same
<1>8. Fetched(v)'
  BY <1>1, <1>2, <1>4, <1>5, <1>6 DEF Fetched
<1>9. FullSeen(v)' /\ SetBack(v)'
  BY <1>1, <1>2, <1>4 DEF Replay, FullSeen, Full, Parsed, SetBack
<1>10. \A i : Held(v, i)' = Held(v, i)
  BY <1>1 DEF Held, Trained, InHand, InPipe
<1>11. InTurn(v)' /\ PipeReplay(v)'
  BY <1>1, <1>2, <1>10 DEF Replay, InTurn, PipeReplay, Orderly, Repeated, ReplayOf, Others, Repeats
<1>12. /\ \A i \in DOMAIN pipe'[v] : InTopic(pipe'[v][i].snap)
       /\ conf.input = "kafka" => \A p \in PartsOf(v) : next'[p] <= End(p)
       /\ \A p \in PartsOf(v) : next[p] <= next'[p]
  BY <1>1, <1>2 DEF Replay, Within
<1>13. Replay(v)'
  BY <1>1, <1>2, <1>8, <1>9, <1>11, <1>12, PipelineReplay
<1> QED
  BY <1>1, <1>2, <1>7, <1>13, OneReplay

(* The last batch takes a message, while it has room, or a new one does.   *)
LastTakes(v, q) ==
  /\ \A j, k \in DOMAIN q : j < k => j \in DOMAIN pipe[v] /\ q[j] = pipe[v][j]
  /\ \A i \in DOMAIN pipe[v] : q[i].saw = pipe[v][i].saw /\ (Full(pipe[v][i]) => q[i] = pipe[v][i])
  /\ \A i \in DOMAIN q \ DOMAIN pipe[v] : q[i].saw = NoOffsets

(* No other batch changes when the pipeline takes a message.               *)
LEMMA OnlyLastTakes ==
  ASSUME NEW v, NEW e, pipe[v] \in Seq(BatchesOf(v))
  PROVE  LastTakes(v, Batched(v, e)) /\ LastTakes(v, pipe[v])
<1>1. PICK n \in Nat : n = Len(pipe[v]) /\ DOMAIN pipe[v] = 1..n
  BY LenProperties
<1>2. LastTakes(v, pipe[v])
  BY DEF LastTakes
<1>3. CASE OpenBatch(v)
  <2> DEFINE b == [pipe[v][n] EXCEPT !.msgs = Append(pipe[v][n].msgs, e)]
             q == [pipe[v] EXCEPT ![n] = b]
  <2>1. pipe[v] # <<>> /\ ~Full(pipe[v][n]) /\ n \in 1..n
    <3>1. pipe[v] # <<>> /\ ~Full(Last(pipe[v]))
      BY <1>3 DEF OpenBatch
    <3>2. n # 0
      BY <1>1, <3>1, EmptySeq
    <3> QED
      BY <1>1, <3>1, <3>2 DEF Last
  <2>2. Batched(v, e) = q
    BY <1>1, <1>3 DEF Batched
  <2>3. b.saw = pipe[v][n].saw
    <3>1. pipe[v][n] \in BatchesOf(v)
      BY <1>1, <2>1, BatchIs
    <3> QED
      BY <3>1 DEF BatchesOf
  <2> HIDE DEF b
  <2>4. DOMAIN q = 1..n /\ q[n] = b /\ \A i \in 1..n : i # n => q[i] = pipe[v][i]
    BY <1>1, <2>1
  <2> HIDE DEF q
  <2>5. \A j, k \in 1..n : j < k => j # n
    OBVIOUS
  <2> QED
    BY <1>1, <1>2, <2>1, <2>2, <2>3, <2>4, <2>5 DEF LastTakes
<1>4. CASE ~OpenBatch(v)
  <2> DEFINE q == Append(pipe[v], Batch(e))
  <2>1. Batched(v, e) = q
    BY <1>4 DEF Batched
  <2>2. DOMAIN q = 1..(n + 1) /\ q[n + 1] = Batch(e) /\ \A i \in 1..n : q[i] = pipe[v][i]
    BY <1>1, AppendProperties
  <2> HIDE DEF q
  <2>3. Batch(e).saw = NoOffsets
    BY DEF Batch
  <2>4. /\ \A j, k \in 1..(n + 1) : j < k => j \in 1..n
        /\ \A i \in 1..(n + 1) : i \in 1..n \/ i = n + 1
    OBVIOUS
  <2> QED
    BY <1>1, <1>2, <2>1, <2>2, <2>3, <2>4 DEF LastTakes
<1> QED
  BY <1>3, <1>4

(* Reading adds a message that no offset in the pipeline is due to; not    *)
(* shuffled, it is later than all of its partition.                        *)
LEMMA ReadReplay ==
  ASSUME StreamInv, ReplayInv, NEW v \in Workers, NEW p \in Partitions, Read(v, p)
  PROVE  ReplayInv'
<1> DEFINE e == <<p, next[p]>>
<1>1. /\ p \in PartsOf(v) /\ wpc[v] = "run" /\ next' = [next EXCEPT ![p] = next[p] + 1]
      /\ UNCHANGED <<conf, wpc, off, hand, ops, slot, done, saving, file>>
  BY DEF Read, Pulling, Running, psVars, pastVars, saveVars, diskVars
<1>2. /\ off \in [Partitions -> Nat] /\ DOMAIN fetch = Workers /\ next \in [Partitions -> Nat]
      /\ DOMAIN done = Workers /\ Replay(v) /\ InOrder(v) /\ PartsOf(v) \subseteq Partitions
      /\ pipe[v] \in Seq(BatchesOf(v)) /\ DOMAIN pipe = Workers /\ conf \in Confs
  BY WorkersNumbered DEF StreamInv, Shapes, ReplayInv, InOrder, Typed
<1>3. Taken(v, p)
  BY <1>1, ReadGives
<1>4. /\ next' \in [Partitions -> Nat] /\ next'[p] = next[p] + 1 /\ next[p] \in Nat
      /\ \A u \in Partitions \ {p} : next'[u] = next[u]
      /\ \A u \in Partitions : next[u] <= next'[u]
  BY <1>1, <1>2
<1>5. \/ conf.input = "kafka" /\ next[p] < End(p) /\ fetch' = fetch
      \/ /\ conf.input = "datahub"
         /\ \E f \in Fetches(v, p) : fetch' = [fetch EXCEPT ![v] = f]
  BY DEF Read
<1>6. ASSUME NEW w \in Workers \ {v}
      PROVE  Same(w) /\ done'[w] = done[w]
  <2>1. p \notin PartsOf(w)
    BY <1>1, OwnParts
  <2>2. \A u \in PartsOf(w) : next'[u] = next[u]
    BY <1>1, <1>2, <2>1, WorkersNumbered
  <2>3. fetch'[w] = fetch[w]
    BY <1>2, <1>5
  <2> QED
    BY <1>1, <1>3, <2>2, <2>3 DEF Same, Taken
<1>7. LastTakes(v, pipe'[v])
  <2>1. pipe' = pipe \/ \E m : pipe' = [pipe EXCEPT ![v] = Batched(v, m)]
    BY DEF Read
  <2>2. pipe'[v] = pipe[v] \/ \E m : pipe'[v] = Batched(v, m)
    BY <1>2, <2>1
  <2> QED
    BY <1>2, <2>2, OnlyLastTakes
<1>8. /\ InHand(v)' = InHand(v) /\ Trained(v)' = Trained(v)
      /\ Others' = Others /\ ReplayOf(v)' = ReplayOf(v) /\ (Orderly' <=> Orderly)
      /\ Others \in Nat /\ ReplayOf(v) \in Nat
  <2>1. Others \in Nat /\ ReplayOf(v) \in Nat
    BY <1>2, ReplayNumbers
  <2> QED
    BY <1>1, <2>1 DEF InHand, Trained, Others, ReplayOf, Repeats, Orderly
<1>9. ASSUME NEW i \in DOMAIN pipe'[v], Parsed(pipe'[v][i]) \/ pipe'[v][i].saw # NoOffsets
      PROVE  i \in DOMAIN pipe[v] /\ pipe'[v][i] = pipe[v][i] /\ Full(pipe[v][i])
  <2>1. i \in DOMAIN pipe[v] /\ pipe'[v][i].snap = pipe[v][i].snap /\ pipe'[v][i].saw = pipe[v][i].saw
    BY <1>3, <1>7, <1>9 DEF Taken, LastTakes, Parsed
  <2>2. Full(pipe[v][i])
    BY <1>2, <1>9, <2>1 DEF Replay, FullSeen, Parsed
  <2> QED
    BY <1>7, <2>1, <2>2 DEF LastTakes
<1>10. ASSUME NEW i \in DOMAIN pipe'[v]
       PROVE  /\ Held(v, i - 1)' \subseteq Held(v, i - 1)
              /\ i \in DOMAIN pipe[v] /\ pipe'[v][i] = pipe[v][i]
                   => Held(v, i)' \subseteq Held(v, i)
  <2>1. i \in Int
    BY <1>3 DEF Taken
  <2>2. ASSUME NEW j \in DOMAIN pipe'[v], j <= i - 1
        PROVE  j \in DOMAIN pipe[v] /\ pipe'[v][j] = pipe[v][j]
    <3>1. j < i
      BY <1>3, <2>1, <2>2 DEF Taken
    <3> QED
      BY <1>7, <3>1 DEF LastTakes
  <2>3. InPipe(v, i - 1)' \subseteq InPipe(v, i - 1)
    <3> SUFFICES ASSUME NEW m \in InPipe(v, i - 1)' PROVE m \in InPipe(v, i - 1)
      OBVIOUS
    <3>1. PICK j \in DOMAIN pipe'[v] : j <= i - 1 /\ m \in ToSet(pipe'[v][j].msgs)
      BY DEF InPipe
    <3> QED
      BY <2>2, <3>1 DEF InPipe
  <2>4. ASSUME i \in DOMAIN pipe[v], pipe'[v][i] = pipe[v][i]
        PROVE  InPipe(v, i)' \subseteq InPipe(v, i)
    <3> SUFFICES ASSUME NEW m \in InPipe(v, i)' PROVE m \in InPipe(v, i)
      OBVIOUS
    <3>1. PICK j \in DOMAIN pipe'[v] : j <= i /\ m \in ToSet(pipe'[v][j].msgs)
      BY DEF InPipe
    <3>2. j = i \/ j <= i - 1
      BY <1>3, <2>1, <3>1 DEF Taken
    <3>3. j \in DOMAIN pipe[v] /\ pipe'[v][j] = pipe[v][j]
      BY <2>2, <2>4, <3>2
    <3> QED
      BY <3>1, <3>3 DEF InPipe
  <2> QED
    BY <1>8, <2>3, <2>4 DEF Held
<1>11. Fetched(v)'
  <2>1. CASE conf.input = "kafka"
    BY <1>1, <1>2, <1>5, <2>1 DEF Replay, Fetched
  <2>2. ASSUME conf.input = "datahub", NEW f \in Fetches(v, p), fetch' = [fetch EXCEPT ![v] = f]
        PROVE  Fetched(v)'
    <3>1. fetch'[v] = f /\ conf'.input # "kafka"
      BY <1>1, <1>2, <2>2
    <3>2. \A u \in PartsOf(v) : IF fetch[v] # <<>> /\ fetch[v][1] = u
                                THEN next[u] <= fetch[v][2] /\ fetch[v][2] <= off[u] + ReadCnt
                                ELSE next[u] = off[u]
      BY <1>2, <2>2 DEF Replay, Fetched
    <3>3. f # <<>> /\ f[1] = p /\ next'[p] <= f[2] /\ f[2] <= off[p] + ReadCnt
      <4>1. CASE fetch[v] = <<>>
        <5>1. PICK c \in {x \in off[p] + 1..off[p] + ReadCnt : x <= End(p)} : f = <<p, c>>
          BY <2>2, <4>1 DEF Fetches
        <5>2. off[p] \in Nat /\ ReadCnt \in Nat /\ next[p] = off[p]
          BY <1>1, <1>2, <3>2, <4>1, StreamAssumption
        <5>3. c \in off[p] + 1..off[p] + ReadCnt
          BY <5>1
        <5>4. next'[p] <= c /\ c <= off[p] + ReadCnt
          BY <1>4, <5>2, <5>3
        <5> QED
          BY <5>1, <5>4
      <4>2. CASE fetch[v] # <<>>
        <5>1. f = fetch[v] /\ f[1] = p /\ next[p] < f[2]
          BY <2>2, <4>2 DEF Fetches
        <5>2. fetch[v][2] \in Nat
          BY <1>2, <4>2 DEF InOrder, Typed
        <5>3. f[2] <= off[p] + ReadCnt
          BY <1>1, <3>2, <4>2, <5>1
        <5> QED
          BY <1>4, <4>2, <5>1, <5>2, <5>3
      <4> QED
        BY <4>1, <4>2
    <3>4. ASSUME NEW u \in PartsOf(v), u # p
          PROVE  next'[u] = off[u]
      <4>1. fetch[v] = <<>> \/ fetch[v][1] = p
        BY <2>2 DEF Fetches
      <4> QED
        BY <1>2, <1>4, <3>2, <3>4, <4>1
    <3>5. \A u \in PartsOf(v) : IF f # <<>> /\ f[1] = u
                                THEN next'[u] <= f[2] /\ f[2] <= off[u] + ReadCnt
                                ELSE next'[u] = off[u]
      BY <3>3, <3>4
    <3> QED
      BY <1>1, <3>1, <3>5 DEF Fetched
  <2> QED
    BY <1>5, <2>1, <2>2
<1>12. FullSeen(v)'
  <2> SUFFICES ASSUME NEW i \in DOMAIN pipe'[v], Parsed(pipe'[v][i]) \/ pipe'[v][i].saw # NoOffsets
               PROVE  Full(pipe'[v][i])
    BY DEF FullSeen, Full, Parsed
  <2> QED
    BY <1>9
<1>13. InTurn(v)'
  <2> SUFFICES ASSUME conf.shuffle = 1, NEW i \in DOMAIN pipe'[v], NEW n \in ToSet(pipe'[v][i].msgs),
                      NEW m \in Held(v, i - 1)', m[1] = n[1]
               PROVE  m[2] < n[2]
    BY <1>1 DEF InTurn
  <2>1. m \in Held(v, i - 1)
    BY <1>10
  <2>2. CASE i \in DOMAIN pipe[v] /\ n \in ToSet(pipe[v][i].msgs)
    BY <1>2, <2>1, <2>2 DEF Replay, InTurn
  <2>3. CASE n \in ToSet(raw[v]) \cup {e}
    <3>1. ToSet(raw[v]) = {}
      <4>1. Len(raw[v]) < 1 /\ raw[v] \in Seq(PartsOf(v) \X Nat)
        BY <1>2 DEF InOrder, Sized, Typed
      <4>2. Len(raw[v]) = 0 /\ DOMAIN raw[v] = 1..Len(raw[v])
        BY <4>1, LenProperties
      <4> QED
        BY <4>2 DEF ToSet
    <3>2. n = e
      BY <2>3, <3>1
    <3>3. m[2] < next[m[1]]
      <4>1. CASE m \in Trained(v)
        BY <1>2, <4>1 DEF Replay, ReadSoFar
      <4>2. CASE m \in InPipe(v, i - 1)
        <5>1. PICK j \in DOMAIN pipe[v] : m \in ToSet(pipe[v][j].msgs)
          BY <4>2 DEF InPipe
        <5> QED
          BY <1>2, <5>1 DEF InOrder, Behind
      <4> QED
        BY <2>1, <4>1, <4>2 DEF Held
    <3> QED
      BY <3>2, <3>3
  <2> QED
    BY <1>3, <2>2, <2>3 DEF Taken
<1>14. SetBack(v)'
  <2>1. ASSUME NEW i \in DOMAIN pipe'[v], NEW m \in Passed(pipe'[v][i])
        PROVE  m \in Claimed(v)
    <3>1. Parsed(pipe'[v][i]) \/ pipe'[v][i].saw # NoOffsets
      BY DEF Passed, NoOffsets
    <3>2. i \in DOMAIN pipe[v] /\ pipe'[v][i] = pipe[v][i]
      BY <1>9, <3>1
    <3> QED
      BY <3>2 DEF Claimed
  <2>2. Claimed(v)' \subseteq Claimed(v)
    <3>1. Trained(v)' \subseteq Claimed(v)
      BY <1>8 DEF Claimed
    <3>2. Claimed(v)' = Trained(v)' \cup UNION {Passed(pipe'[v][i]) : i \in DOMAIN pipe'[v]}
      BY DEF Claimed, Passed, Parsed
    <3> QED
      BY <2>1, <3>1, <3>2
  <2> SUFFICES ASSUME conf.input = "kafka", Orderly, NEW u \in PartsOf(v)
               PROVE  AtMost({m \in Claimed(v)' : m[1] = u /\ m[2] > off[u]}, Others)
    BY <1>1, <1>8 DEF SetBack
  <2>3. AtMost({m \in Claimed(v) : m[1] = u /\ m[2] > off[u]}, Others)
    BY <1>2 DEF Replay, SetBack
  <2>4. {m \in Claimed(v)' : m[1] = u /\ m[2] > off[u]}
          \subseteq {m \in Claimed(v) : m[1] = u /\ m[2] > off[u]}
    BY <2>2
  <2> QED
    BY <1>8, <2>3, <2>4, AtMostLess
<1>15. PipeReplay(v)'
  <2> SUFFICES ASSUME Orderly, NEW i \in DOMAIN pipe'[v]
               PROVE  AtMost(Repeated(Held(v, i)', pipe'[v][i].snap), ReplayOf(v))
    BY <1>8 DEF PipeReplay, Repeated
  <2>1. CASE Parsed(pipe'[v][i])
    <3>1. i \in DOMAIN pipe[v] /\ pipe'[v][i] = pipe[v][i] /\ Held(v, i)' \subseteq Held(v, i)
      BY <1>9, <1>10, <2>1
    <3>2. AtMost(Repeated(Held(v, i), pipe[v][i].snap), ReplayOf(v))
      BY <1>2, <3>1 DEF Replay, PipeReplay
    <3>3. Repeated(Held(v, i)', pipe[v][i].snap) \subseteq Repeated(Held(v, i), pipe[v][i].snap)
      BY <3>1 DEF Repeated
    <3> QED
      BY <1>8, <3>1, <3>2, <3>3, AtMostLess
  <2>2. CASE ~Parsed(pipe'[v][i])
    <3>1. pipe'[v][i].snap = NoOffsets
      BY <2>2 DEF Parsed
    <3>2. Repeated(Held(v, i)', pipe'[v][i].snap) = {}
      BY <3>1 DEF Repeated, NoOffsets
    <3> QED
      BY <1>8, <3>2, AtMostNone
  <2> QED
    BY <2>1, <2>2
<1>16. \A i \in DOMAIN pipe'[v] : InTopic(pipe'[v][i].snap)
  <2> SUFFICES ASSUME NEW i \in DOMAIN pipe'[v] PROVE InTopic(pipe'[v][i].snap)
    OBVIOUS
  <2>1. CASE Parsed(pipe'[v][i])
    BY <1>2, <1>9, <2>1 DEF Replay, Within
  <2>2. CASE ~Parsed(pipe'[v][i])
    BY <2>2 DEF Parsed, InTopic, NoOffsets
  <2> QED
    BY <2>1, <2>2
<1>17. conf.input = "kafka" => \A u \in PartsOf(v) : next'[u] <= End(u)
  <2> SUFFICES ASSUME conf.input = "kafka", NEW u \in PartsOf(v) PROVE next'[u] <= End(u)
    OBVIOUS
  <2>1. CASE u = p
    <3>1. next[p] < End(p) /\ End(p) \in Nat
      BY <1>2, <1>5, Settings
    <3> QED
      BY <1>4, <2>1, <3>1
  <2>2. CASE u # p
    BY <1>2, <1>4, <2>2 DEF Replay, Within
  <2> QED
    BY <2>1, <2>2
<1>18. Replay(v)'
  <2>1. \A u \in PartsOf(v) : next[u] <= next'[u]
    BY <1>2, <1>4
  <2> QED
    BY <1>1, <1>2, <1>4, <1>11, <1>12, <1>13, <1>14, <1>15, <1>16, <1>17, <2>1, PipelineReplay
<1> QED
  BY <1>1, <1>2, <1>6, <1>18, OneReplay

(* A parsing call sets what its batch saw, or its offsets, and the         *)
(* dictionary; its messages are where they were.                           *)
LEMMA ParsingReplay ==
  ASSUME StreamInv, ReplayInv, NEW v \in Workers, NEW i \in DOMAIN pipe[v], wpc[v] = "run",
         Full(pipe[v][i]), NEW b, b.msgs = pipe[v][i].msgs,
         pipe' = [pipe EXCEPT ![v] = [pipe[v] EXCEPT ![i] = b]],
         \A p \in Partitions : p \notin PartsOf(v) => off'[p] = off[p],
         UNCHANGED <<conf, wpc, next, fetch, raw, hand, ops, slot, done, saving, file>>,
         conf.input = "datahub" => off' = off,
         InTopic(b.snap),
         conf.input = "kafka" /\ Orderly => \A p \in PartsOf(v) :
           AtMost({m \in Claimed(v) \cup Passed(b) : m[1] = p /\ m[2] > off'[p]}, Others),
         Orderly => AtMost(Repeated(Held(v, i), b.snap), ReplayOf(v))
  PROVE  ReplayInv'
<1>1. /\ DOMAIN pipe = Workers /\ DOMAIN done = Workers /\ next \in [Partitions -> Nat]
      /\ Replay(v) /\ conf \in Confs /\ PartsOf(v) \subseteq Partitions
  BY WorkersNumbered DEF StreamInv, Shapes, ReplayInv
<1>2. pipe'[v] = [pipe[v] EXCEPT ![i] = b] /\ \A w \in Workers \ {v} : pipe'[w] = pipe[w]
  BY <1>1
<1>3. /\ DOMAIN pipe'[v] = DOMAIN pipe[v] /\ pipe'[v][i] = b
      /\ \A j \in DOMAIN pipe[v] \ {i} : pipe'[v][j] = pipe[v][j]
  BY <1>2
<1>4. \A j \in DOMAIN pipe[v] : pipe'[v][j].msgs = pipe[v][j].msgs
  BY <1>3
<1>5. ASSUME NEW w \in Workers \ {v}
      PROVE  Same(w) /\ done'[w] = done[w]
  <2>1. \A p \in PartsOf(w) : off'[p] = off[p]
    BY OwnParts
  <2> QED
    BY <1>2, <2>1 DEF Same
<1>6. /\ Trained(v)' = Trained(v) /\ \A k : Held(v, k)' = Held(v, k)
  <2>1. \A k : InPipe(v, k)' = InPipe(v, k)
    BY <1>3, <1>4 DEF InPipe
  <2> QED
    BY <2>1 DEF Trained, InHand, Held
<1>7. /\ Others' = Others /\ ReplayOf(v)' = ReplayOf(v) /\ (Orderly' <=> Orderly)
      /\ Others \in Nat /\ conf.input \in {"kafka", "datahub"}
  BY <1>1, ReplayNumbers, Settings DEF Others, ReplayOf, Repeats, Orderly
<1>8. Claimed(v)' \subseteq Claimed(v) \cup Passed(b)
  <2>1. ASSUME NEW j \in DOMAIN pipe[v]
        PROVE  Passed(pipe'[v][j]) \subseteq Claimed(v) \cup Passed(b)
    <3>1. CASE j = i
      BY <1>3, <3>1
    <3>2. CASE j # i
      BY <1>3, <3>2 DEF Claimed
    <3> QED
      BY <3>1, <3>2
  <2>2. Claimed(v)' = Trained(v)' \cup UNION {Passed(pipe'[v][j]) : j \in DOMAIN pipe'[v]}
    BY DEF Claimed, Passed, Parsed
  <2>3. Trained(v)' \subseteq Claimed(v)
    BY <1>6 DEF Claimed
  <2> QED
    BY <1>3, <2>1, <2>2, <2>3
<1>9. Fetched(v)'
  BY <1>1, <1>7 DEF Replay, Fetched
<1>10. FullSeen(v)'
  <2>1. \A j \in DOMAIN pipe[v] :
          pipe'[v][j].saw # NoOffsets \/ Parsed(pipe'[v][j]) => Full(pipe'[v][j])
    BY <1>1, <1>3 DEF Replay, FullSeen, Full
  <2> QED
    BY <1>3, <2>1 DEF FullSeen, Parsed, Full
<1>11. InTurn(v)'
  BY <1>1, <1>3, <1>4, <1>6 DEF Replay, InTurn
<1>12. SetBack(v)'
  <2> SUFFICES ASSUME conf.input = "kafka", Orderly, NEW p \in PartsOf(v)
               PROVE  AtMost({m \in Claimed(v)' : m[1] = p /\ m[2] > off'[p]}, Others)
    BY <1>7 DEF SetBack
  <2>1. {m \in Claimed(v)' : m[1] = p /\ m[2] > off'[p]}
          \subseteq {m \in Claimed(v) \cup Passed(b) : m[1] = p /\ m[2] > off'[p]}
    BY <1>8
  <2>2. AtMost({m \in Claimed(v) \cup Passed(b) : m[1] = p /\ m[2] > off'[p]}, Others)
    OBVIOUS
  <2> QED
    BY <1>7, <2>1, <2>2, AtMostLess
<1>13. PipeReplay(v)'
  <2> SUFFICES ASSUME Orderly, NEW j \in DOMAIN pipe[v]
               PROVE  AtMost(Repeated(Held(v, j), pipe'[v][j].snap), ReplayOf(v))
    BY <1>3, <1>6, <1>7 DEF PipeReplay, Repeated
  <2>1. CASE j = i
    BY <1>3, <2>1
  <2>2. CASE j # i
    BY <1>1, <1>3, <2>2 DEF Replay, PipeReplay
  <2> QED
    BY <2>1, <2>2
<1>14. \A j \in DOMAIN pipe'[v] : InTopic(pipe'[v][j].snap)
  BY <1>1, <1>3 DEF Replay, Within
<1>15. Replay(v)'
  <2>1. /\ next' \in [Partitions -> Nat] /\ \A p \in PartsOf(v) : next[p] <= next'[p]
        /\ conf.input = "kafka" => \A p \in PartsOf(v) : next'[p] <= End(p)
    BY <1>1 DEF Replay, Within
  <2> QED
    BY <1>1, <1>9, <1>10, <1>11, <1>12, <1>13, <1>14, <2>1, PipelineReplay
<1> QED
  BY <1>1, <1>5, <1>15, OneReplay

(* What a call has compared with the dictionary and not found newer is not *)
(* after the dictionary.                                                   *)
LEMMA CompareReplay ==
  ASSUME StreamInv, ReplayInv, NEW v \in Workers, NEW i \in DOMAIN pipe[v], Compare(v, i)
  PROVE  ReplayInv'
<1> DEFINE b == [pipe[v][i] EXCEPT !.saw = OwnOffsets(v, off)]
<1>1. /\ conf.input = "kafka" /\ wpc[v] = "run" /\ Full(pipe[v][i])
      /\ pipe' = [pipe EXCEPT ![v] = [pipe[v] EXCEPT ![i] = b]]
      /\ UNCHANGED <<conf, wpc, next, off, fetch, raw, hand, ops, slot, done, saving, file>>
  BY DEF Compare, Running, readVars, psVars, saveVars, diskVars, pastVars
<1>2. /\ pipe[v] \in Seq(BatchesOf(v)) /\ Replay(v) /\ off \in [Partitions -> Nat]
      /\ conf \in Confs /\ PartsOf(v) \subseteq Partitions
  BY WorkersNumbered DEF StreamInv, Shapes, InOrder, Typed, ReplayInv
<1>3. /\ b.msgs = pipe[v][i].msgs /\ b.snap = pipe[v][i].snap /\ b.saw = OwnOffsets(v, off)
  <2>1. pipe[v][i] \in BatchesOf(v)
    BY <1>2, BatchIs
  <2> QED
    BY <2>1 DEF BatchesOf
<1> HIDE DEF b
<1>4. \A m \in Passed(b) : m \in Claimed(v) \/ (m[1] \in PartsOf(v) => m[2] <= off[m[1]])
  <2> SUFFICES ASSUME NEW m \in Passed(b), m[1] \in PartsOf(v), ~(m[2] <= off[m[1]])
               PROVE  m \in Claimed(v)
    OBVIOUS
  <2>1. Parsed(pipe[v][i]) /\ m \in ToSet(pipe[v][i].msgs)
    BY <1>3 DEF Passed, Parsed, OwnOffsets
  <2> QED
    BY <2>1 DEF Claimed, Passed
<1>5. ASSUME Orderly, NEW p \in PartsOf(v)
      PROVE  AtMost({m \in Claimed(v) \cup Passed(b) : m[1] = p /\ m[2] > off'[p]}, Others)
  <2>1. AtMost({m \in Claimed(v) : m[1] = p /\ m[2] > off[p]}, Others)
    BY <1>1, <1>2, <1>5 DEF Replay, SetBack
  <2>2. ASSUME NEW m \in Passed(b), m[1] = p, m[2] > off[p]
        PROVE  m \in Claimed(v)
    <3>1. m \in PartsOf(v) \X Nat
      BY <1>2, <1>3, BatchIs DEF Passed
    <3>2. off[p] \in Nat /\ m[2] \in Nat
      BY <1>2, <3>1
    <3> QED
      BY <1>4, <2>2, <3>2
  <2>3. {m \in Claimed(v) \cup Passed(b) : m[1] = p /\ m[2] > off'[p]}
          \subseteq {m \in Claimed(v) : m[1] = p /\ m[2] > off[p]}
    BY <1>1, <2>2
  <2>4. Others \in Nat
    BY <1>2, ReplayNumbers
  <2> QED
    BY <2>1, <2>3, <2>4, AtMostLess
<1>6. /\ InTopic(b.snap) /\ (Orderly => AtMost(Repeated(Held(v, i), b.snap), ReplayOf(v)))
  BY <1>2, <1>3 DEF Replay, Within, PipeReplay
<1> QED
  BY <1>1, <1>3, <1>5, <1>6, ParsingReplay

(* The messages of a stretch of a partition.                               *)
LEMMA AtMostStretch ==
  ASSUME NEW p, NEW a \in Nat, NEW n \in Nat
  PROVE  AtMost({<<p, x>> : x \in a..(a + n - 1)}, n)
<1> DEFINE S == a..(a + n - 1)
           T == {<<p, x>> : x \in S}
           f == [x \in S |-> <<p, x>>]
<1>1. IsFiniteSet(S) /\ Cardinality(S) = n
  <2>1. /\ a \in Int /\ a + n - 1 \in Int
        /\ IF a > a + n - 1 THEN n = 0 ELSE a + n - 1 - a + 1 = n
    OBVIOUS
  <2> QED
    BY <2>1, FS_Interval
<1>2. f \in Surjection(S, T)
  BY DEF Surjection
<1> HIDE DEF f
<1> QED
  BY <1>1, <1>2, FS_Surjection DEF AtMost

(* DataHub: of what is read, only records of the fetch being yielded are   *)
(* not before the offsets.                                                 *)
LEMMA DumpReplay ==
  ASSUME StreamInv, ReplayInv, NEW v \in Workers, NEW i \in DOMAIN pipe[v], Dump(v, i)
  PROVE  ReplayInv'
<1> DEFINE b == [pipe[v][i] EXCEPT !.snap = OwnOffsets(v, off)]
<1>1. /\ conf.input = "datahub" /\ wpc[v] = "run" /\ Full(pipe[v][i])
      /\ pipe' = [pipe EXCEPT ![v] = [pipe[v] EXCEPT ![i] = b]]
      /\ UNCHANGED <<conf, wpc, next, off, fetch, raw, hand, ops, slot, done, saving, file>>
  BY DEF Dump, Running, readVars, psVars, saveVars, diskVars, pastVars
<1>2. /\ pipe[v] \in Seq(BatchesOf(v)) /\ Replay(v) /\ off \in [Partitions -> Nat] /\ InOrder(v)
      /\ next \in [Partitions -> Nat] /\ conf \in Confs /\ PartsOf(v) \subseteq Partitions
  BY WorkersNumbered DEF StreamInv, Shapes, InOrder, Typed, ReplayInv
<1>3. /\ b.msgs = pipe[v][i].msgs /\ b.snap = OwnOffsets(v, off)
  <2>1. pipe[v][i] \in BatchesOf(v)
    BY <1>2, BatchIs
  <2> QED
    BY <2>1 DEF BatchesOf
<1> HIDE DEF b
<1>4. ReplayOf(v) \in Nat /\ ReadCnt \in Nat /\ ReadCnt <= ReplayOf(v)
  BY <1>1, <1>2, ReplayNumbers
<1>5. \A m \in Held(v, i) : m \in PartsOf(v) \X Nat /\ m[2] < next[m[1]]
  <2> SUFFICES ASSUME NEW m \in Held(v, i) PROVE m \in PartsOf(v) \X Nat /\ m[2] < next[m[1]]
    OBVIOUS
  <2>1. CASE m \in Trained(v)
    BY <1>2, <2>1 DEF Replay, ReadSoFar
  <2>2. CASE m \in InPipe(v, i)
    <3>1. PICK j \in DOMAIN pipe[v] : m \in ToSet(pipe[v][j].msgs)
      BY <2>2 DEF InPipe
    <3> QED
      BY <1>2, <3>1, BatchIs DEF InOrder, Behind
  <2> QED
    BY <2>1, <2>2 DEF Held
<1>6. AtMost(Repeated(Held(v, i), b.snap), ReplayOf(v))
  <2>1. CASE fetch[v] = <<>>
    <3>1. \A p \in PartsOf(v) : next[p] = off[p]
      BY <1>1, <1>2, <2>1 DEF Replay, Fetched
    <3>2. ASSUME NEW m \in Repeated(Held(v, i), b.snap)
          PROVE  FALSE
      <4>1. m[1] \in PartsOf(v) /\ m[2] \in Nat /\ m[2] < off[m[1]] /\ m[2] >= off[m[1]]
        BY <1>3, <1>5, <3>1 DEF Repeated, OwnOffsets
      <4>2. off[m[1]] \in Nat
        BY <1>2, <4>1
      <4> QED
        BY <4>1, <4>2
    <3>3. Repeated(Held(v, i), b.snap) = {}
      BY <3>2
    <3> QED
      BY <1>4, <3>3, AtMostNone
  <2>2. CASE fetch[v] # <<>>
    <3>1. PICK p \in PartsOf(v), c \in Nat : fetch[v] = <<p, c>>
      <4>1. fetch[v] \in PartsOf(v) \X Nat
        BY <1>2, <2>2 DEF InOrder, Typed
      <4> QED
        BY <4>1
    <3>2. /\ next[p] <= c /\ c <= off[p] + ReadCnt /\ \A u \in PartsOf(v) : u # p => next[u] = off[u]
      BY <1>1, <1>2, <2>2, <3>1 DEF Replay, Fetched
    <3>3. off[p] \in Nat /\ next[p] \in Nat
      BY <1>2, <3>1
    <3>4. ASSUME NEW m \in Repeated(Held(v, i), b.snap)
          PROVE  m \in {<<p, x>> : x \in off[p]..(off[p] + ReadCnt - 1)}
      <4>1. /\ m \in PartsOf(v) \X Nat /\ m[1] \in PartsOf(v) /\ m[2] \in Nat
            /\ m[2] < next[m[1]] /\ m[2] >= off[m[1]]
        BY <1>3, <1>5 DEF Repeated, OwnOffsets
      <4>2. off[m[1]] \in Nat
        BY <1>2, <4>1
      <4>3. m[1] = p
        BY <3>2, <4>1, <4>2
      <4>4. m = <<p, m[2]>> /\ m[2] \in off[p]..(off[p] + ReadCnt - 1)
        BY <1>4, <3>2, <3>3, <4>1, <4>3
      <4> QED
        BY <4>4
    <3>5. AtMost({<<p, x>> : x \in off[p]..(off[p] + ReadCnt - 1)}, ReadCnt)
      BY <1>4, <3>3, AtMostStretch
    <3>6. Repeated(Held(v, i), b.snap) \subseteq {<<p, x>> : x \in off[p]..(off[p] + ReadCnt - 1)}
      BY <3>4
    <3> QED
      BY <1>4, <3>5, <3>6, AtMostLess
  <2> QED
    BY <2>1, <2>2
<1>7. InTopic(b.snap) /\ conf.input # "kafka"
  BY <1>1 DEF InTopic
<1> QED
  BY <1>1, <1>3, <1>6, <1>7, ParsingReplay

(* A batch that sets the dictionary of a partition is later than what was  *)
(* handed on before it, or, with one call, than the dictionary: behind the *)
(* dictionary are the messages of other calls only.                        *)
LEMMA RecordSets ==
  ASSUME StreamInv, ReplayInv, NEW v \in Workers, NEW i \in DOMAIN pipe[v], ~Parsed(pipe[v][i]),
         conf.input = "kafka", Orderly, NEW p \in PartsOf(v), NEW n \in Nat,
         <<p, n>> \in ToSet(pipe[v][i].msgs), conf.parallel = 1 => off[p] < n,
         \A m \in ToSet(pipe[v][i].msgs) : m[1] = p => m[2] <= n
  PROVE  AtMost({m \in Claimed(v) \cup ToSet(pipe[v][i].msgs) : m[1] = p /\ m[2] > n}, Others)
<1> DEFINE S == {m \in Claimed(v) \cup ToSet(pipe[v][i].msgs) : m[1] = p /\ m[2] > n}
<1>1. /\ pipe[v] \in Seq(BatchesOf(v)) /\ Replay(v) /\ off \in [Partitions -> Nat] /\ InOrder(v)
      /\ next \in [Partitions -> Nat] /\ conf \in Confs /\ PartsOf(v) \subseteq Partitions
      /\ conf.parallel \in Nat \ {0} /\ BatchSize \in Nat /\ Others \in Nat
  BY WorkersNumbered, Settings, ReplayNumbers DEF StreamInv, Shapes, InOrder, Typed, ReplayInv
<1>2. \A m \in Claimed(v) \cup ToSet(pipe[v][i].msgs) : m \in PartsOf(v) \X Nat
  <2>1. \A m \in Trained(v) : m \in PartsOf(v) \X Nat
    BY <1>1 DEF Replay, ReadSoFar
  <2>2. \A j \in DOMAIN pipe[v] : ToSet(pipe[v][j].msgs) \subseteq PartsOf(v) \X Nat
    BY <1>1, BatchIs
  <2>3. \A j \in DOMAIN pipe[v] : Passed(pipe[v][j]) \subseteq PartsOf(v) \X Nat
    BY <2>2 DEF Passed
  <2> QED
    BY <2>1, <2>2, <2>3 DEF Claimed
<1>3. ASSUME NEW m \in S
      PROVE  m \in Claimed(v) /\ m \notin ToSet(pipe[v][i].msgs) /\ m[1] = p /\ m[2] \in Nat /\ m[2] > n
  <2>1. m[2] \in Nat /\ m[1] = p /\ m[2] > n
    BY <1>2
  <2>2. m \notin ToSet(pipe[v][i].msgs)
    BY <2>1
  <2> QED
    BY <2>1, <2>2
<1>4. CASE conf.parallel = 1
  <2>1. AtMost({m \in Claimed(v) : m[1] = p /\ m[2] > off[p]}, Others)
    BY <1>1 DEF Replay, SetBack
  <2>2. off[p] \in Nat /\ off[p] < n
    BY <1>1, <1>4
  <2>3. S \subseteq {m \in Claimed(v) : m[1] = p /\ m[2] > off[p]}
    BY <1>3, <2>2
  <2> HIDE DEF S
  <2>4. AtMost(S, Others)
    BY <1>1, <2>1, <2>3, AtMostLess
  <2> QED
    BY <2>4 DEF S
<1>5. CASE conf.shuffle = 1
  <2>1. PICK l \in Nat : l = Len(pipe[v]) /\ DOMAIN pipe[v] = 1..l
    BY <1>1, LenProperties
  <2>2. i \in Nat /\ i \in 1..l /\ l - i <= conf.parallel - 1 /\ conf.parallel - 1 \in Nat
    <3>1. l - i < conf.parallel
      BY <1>1, <2>1 DEF InOrder, Sized
    <3> QED
      BY <1>1, <2>1, <3>1
  <2>3. \A j \in 1..l : /\ pipe[v][j].msgs \in Seq(PartsOf(v) \X Nat)
                        /\ Len(pipe[v][j].msgs) <= BatchSize
    BY <1>1, <2>1, BatchIs DEF InOrder, Sized
  <2> DEFINE k == conf.parallel - 1
             q == pipe[v]
  <2>4. AtMost(Later(pipe[v], i), Others)
    <3>1. k \in Nat /\ DOMAIN q = 1..l /\ l - i <= k
          /\ \A j \in 1..l : q[j].msgs \in Seq(PartsOf(v) \X Nat) /\ Len(q[j].msgs) <= BatchSize
      BY <2>1, <2>2, <2>3
    <3> HIDE DEF k, q
    <3>2. AtMost(Later(q, i), k * BatchSize)
      BY <2>2, <3>1, AtMostBatches
    <3> QED
      BY <3>2 DEF k, q, Others
  <2>5. ASSUME NEW m \in S
        PROVE  m \in Later(pipe[v], i)
    <3>1. m \in Claimed(v) /\ m \notin ToSet(pipe[v][i].msgs) /\ m[1] = p /\ m[2] \in Nat /\ m[2] > n
      BY <1>3
    <3>2. m \notin Held(v, i - 1)
      <4> SUFFICES ASSUME m \in Held(v, i - 1) PROVE FALSE
        OBVIOUS
      <4>1. <<p, n>>[1] = p /\ <<p, n>>[2] = n
        OBVIOUS
      <4>2. m[2] < n
        BY <1>1, <1>5, <3>1, <4>1 DEF Replay, InTurn
      <4> QED
        BY <3>1, <4>2
    <3>3. PICK j \in DOMAIN pipe[v] : m \in ToSet(pipe[v][j].msgs)
      BY <3>1, <3>2 DEF Held, Claimed, Passed
    <3>4. ~(j <= i - 1)
      BY <3>2, <3>3 DEF Held, InPipe
    <3>5. j > i
      <4>1. j # i
        BY <3>1, <3>3
      <4> QED
        BY <2>1, <2>2, <3>4, <4>1
    <3> QED
      BY <3>3, <3>5 DEF Later
  <2> HIDE DEF S, k, q
  <2>6. AtMost(S, Others)
    BY <1>1, <2>4, <2>5, AtMostLess
  <2> QED
    BY <2>6 DEF S
<1> QED
  BY <1>4, <1>5 DEF Orderly

(* The messages of the batches before the i-th that are not parsed.        *)
Unparsed(v, i) ==
  UNION {ToSet(pipe[v][j].msgs) : j \in {j \in DOMAIN pipe[v] : j < i /\ ~Parsed(pipe[v][j])}}

(* They are those of the other calls.                                      *)
LEMMA AtMostUnparsed ==
  ASSUME StreamInv, NEW v \in Workers, NEW i \in DOMAIN pipe[v]
  PROVE  AtMost(Unparsed(v, i), Others)
<1>1. /\ pipe[v] \in Seq(BatchesOf(v)) /\ InOrder(v) /\ conf \in Confs
      /\ conf.parallel \in Nat \ {0} /\ BatchSize \in Nat /\ Others \in Nat
  BY WorkersNumbered, Settings, ReplayNumbers DEF StreamInv, Shapes, InOrder, Typed
<1>2. PICK l \in Nat : l = Len(pipe[v]) /\ DOMAIN pipe[v] = 1..l
  BY <1>1, LenProperties
<1> DEFINE n == i - 1
           s == IF l > conf.parallel THEN l - conf.parallel ELSE 0
           k == conf.parallel - 1
           q == [j \in 1..n |-> pipe[v][j]]
<1>3. /\ n \in Nat /\ s \in Nat /\ k \in Nat /\ n - s <= k /\ DOMAIN q = 1..n
      /\ \A j \in 1..n : j \in 1..l /\ q[j] = pipe[v][j]
      /\ \A j \in 1..l : j < i => j \in 1..n
      /\ \A j \in 1..l : l - j < conf.parallel => j > s
  BY <1>1, <1>2
<1>4. \A j \in 1..n : q[j].msgs \in Seq(PartsOf(v) \X Nat) /\ Len(q[j].msgs) <= BatchSize
  BY <1>1, <1>2, <1>3, BatchIs DEF InOrder, Sized
<1> HIDE DEF n, s, q
<1>5. AtMost(Later(q, s), Others)
  <2> HIDE DEF k
  <2>1. AtMost(Later(q, s), k * BatchSize)
    BY <1>3, <1>4, AtMostBatches
  <2> QED
    BY <2>1 DEF k, Others
<1>6. Unparsed(v, i) \subseteq Later(q, s)
  <2> SUFFICES ASSUME NEW m \in Unparsed(v, i) PROVE m \in Later(q, s)
    OBVIOUS
  <2>1. PICK j \in DOMAIN pipe[v] : j < i /\ ~Parsed(pipe[v][j]) /\ m \in ToSet(pipe[v][j].msgs)
    BY DEF Unparsed
  <2>2. l - j < conf.parallel
    BY <1>1, <1>2, <2>1 DEF InOrder, Sized
  <2>3. j \in 1..n /\ j > s /\ m \in ToSet(q[j].msgs)
    BY <1>2, <1>3, <2>1, <2>2
  <2> QED
    BY <1>3, <2>3 DEF Later
<1> QED
  BY <1>1, <1>5, <1>6, AtMostLess

(* Kafka: the dictionary that is dumped, and what it leaves to be repeated.*)
LEMMA RecordReplay ==
  ASSUME StreamInv, ReplayInv, NEW v \in Workers, NEW i \in DOMAIN pipe[v], Record(v, i)
  PROVE  ReplayInv'
<1> DEFINE old == pipe[v][i]
           saw == IF conf.parallel > 1 THEN old.saw ELSE OwnOffsets(v, off)
           Newer(p) == {x \in 0..End(p) : <<p, x>> \in ToSet(old.msgs) /\ x > saw[p]}
           b == [old EXCEPT !.snap = OwnOffsets(v, off')]
           Reached == Claimed(v) \cup ToSet(old.msgs)
           After(p) == {m \in Reached : m[1] = p /\ m[2] > off'[p]}
<1>1. /\ conf.input = "kafka" /\ wpc[v] = "run" /\ Full(old) /\ ~Parsed(old) /\ saw # NoOffsets
      /\ off' = [p \in Partitions |->
                   IF p \in PartsOf(v) /\ Newer(p) # {} THEN Max(Newer(p)) ELSE off[p]]
      /\ pipe' = [pipe EXCEPT ![v] = [pipe[v] EXCEPT ![i] = b]]
      /\ UNCHANGED <<conf, wpc, next, fetch, raw, hand, ops, slot, done, saving, file>>
  BY DEF Record, Running, psVars, saveVars, diskVars, pastVars
<1>2. /\ pipe[v] \in Seq(BatchesOf(v)) /\ Replay(v) /\ off \in [Partitions -> Nat] /\ InOrder(v)
      /\ next \in [Partitions -> Nat] /\ conf \in Confs /\ PartsOf(v) \subseteq Partitions
      /\ conf.parallel \in Nat \ {0}
      /\ \A p \in Partitions : End(p) \in Nat
  BY WorkersNumbered, Settings DEF StreamInv, Shapes, InOrder, Typed, ReplayInv
<1>3. Others \in Nat /\ ReplayOf(v) \in Nat /\ IsFiniteSet(PartsOf(v))
      /\ Repeats(v) = Cardinality(PartsOf(v)) * (Others + 1) /\ Repeats(v) \in Nat
  BY <1>1, <1>2, ReplayNumbers
<1>4. /\ old \in BatchesOf(v) /\ b.msgs = old.msgs /\ b.snap = OwnOffsets(v, off')
      /\ \A m \in ToSet(old.msgs) : m \in PartsOf(v) \X Nat /\ m[2] < next[m[1]]
  <2>1. old \in BatchesOf(v) /\ ToSet(old.msgs) \subseteq PartsOf(v) \X Nat
    BY <1>2, BatchIs
  <2>2. b.msgs = old.msgs /\ b.snap = OwnOffsets(v, off')
    BY <2>1 DEF BatchesOf
  <2>3. \A m \in ToSet(old.msgs) : m[2] < next[m[1]]
    BY <1>2 DEF InOrder, Behind
  <2> QED
    BY <2>1, <2>2, <2>3
<1>5. saw \in [PartsOf(v) -> Nat]
      /\ (conf.parallel = 1 => \A p \in PartsOf(v) : saw[p] = off[p])
      /\ (conf.parallel # 1 => saw = old.saw)
  <2>1. OwnOffsets(v, off) \in [PartsOf(v) -> Nat]
    BY <1>2 DEF OwnOffsets
  <2>2. old.saw \in OffsetsOf(v)
    BY <1>4 DEF BatchesOf
  <2>3. CASE conf.parallel = 1
    BY <2>1, <2>3 DEF OwnOffsets
  <2>4. CASE conf.parallel # 1
    <3>1. conf.parallel > 1
      BY <1>2, <2>4
    <3> QED
      BY <1>1, <2>2, <2>4, <3>1 DEF OffsetsOf
  <2> QED
    BY <2>3, <2>4
<1> HIDE DEF saw, b
<1>6. ASSUME NEW m \in ToSet(old.msgs)
      PROVE  /\ m = <<m[1], m[2]>> /\ m[1] \in PartsOf(v) /\ m[2] \in Nat
             /\ m[2] \in 0..End(m[1]) /\ (m[2] > saw[m[1]] => m[2] \in Newer(m[1]))
  <2>1. m = <<m[1], m[2]>> /\ m[1] \in PartsOf(v) /\ m[2] \in Nat /\ m[2] < next[m[1]]
    BY <1>4
  <2>2. next[m[1]] \in Nat /\ End(m[1]) \in Nat /\ next[m[1]] <= End(m[1])
    BY <1>1, <1>2, <2>1 DEF Replay, Within
  <2>3. m[2] \in 0..End(m[1])
    BY <2>1, <2>2
  <2>4. m[2] > saw[m[1]] => m[2] \in Newer(m[1])
    BY <2>1, <2>3
  <2> QED
    BY <2>1, <2>3, <2>4
<1>7. ASSUME NEW p \in PartsOf(v), Newer(p) # {}
      PROVE  /\ off'[p] \in Nat /\ off'[p] <= End(p) /\ <<p, off'[p]>> \in ToSet(old.msgs)
             /\ off'[p] > saw[p] /\ \A x \in Newer(p) : x <= off'[p]
  <2>1. End(p) \in Nat /\ p \in Partitions
    BY <1>2
  <2>2. Newer(p) \subseteq 0..End(p)
    OBVIOUS
  <2>3. Max(Newer(p)) \in Newer(p) /\ \A x \in Newer(p) : Max(Newer(p)) >= x
    BY <1>7, <2>1, <2>2, GreatestOf
  <2>4. off'[p] = Max(Newer(p))
    BY <1>1, <1>7, <2>1
  <2>5. off'[p] \in Newer(p) /\ \A x \in Newer(p) : off'[p] >= x
    BY <2>3, <2>4
  <2>6. PICK y \in 0..End(p) : y = off'[p] /\ <<p, y>> \in ToSet(old.msgs) /\ y > saw[p]
    BY <2>5
  <2>7. \A x \in Newer(p) : x <= off'[p]
    BY <2>1, <2>2, <2>5, <2>6
  <2> QED
    BY <2>1, <2>6, <2>7
<1>8. ASSUME NEW p \in PartsOf(v), Newer(p) = {}
      PROVE  off'[p] = off[p]
  BY <1>1, <1>2, <1>8
<1> HIDE DEF Newer
<1>9. \A p \in PartsOf(v) : off'[p] \in Nat
  BY <1>2, <1>7, <1>8
<1>10. ASSUME Orderly, NEW p \in PartsOf(v)
       PROVE  AtMost(After(p), Others)
  <2>1. CASE Newer(p) = {}
    <3>1. AtMost({m \in Claimed(v) : m[1] = p /\ m[2] > off[p]}, Others)
      BY <1>1, <1>2, <1>10 DEF Replay, SetBack
    <3>2. ASSUME NEW m \in ToSet(old.msgs), m[1] = p, m[2] > off[p]
          PROVE  m \in Claimed(v)
      <4>1. m[2] \in Nat /\ saw[p] \in Nat /\ off[p] \in Nat /\ ~(m[2] > saw[p])
        BY <1>2, <1>5, <1>6, <2>1, <3>2
      <4>2. conf.parallel # 1
        BY <1>5, <3>2, <4>1
      <4>3. p \in DOMAIN old.saw /\ m[2] <= old.saw[p]
        BY <1>5, <4>1, <4>2
      <4>4. m \in Passed(old)
        BY <3>2, <4>3 DEF Passed
      <4> QED
        BY <4>4 DEF Claimed
    <3>3. After(p) \subseteq {m \in Claimed(v) : m[1] = p /\ m[2] > off[p]}
      BY <1>8, <2>1, <3>2
    <3> HIDE DEF After
    <3> QED
      BY <1>3, <3>1, <3>3, AtMostLess
  <2>2. CASE Newer(p) # {}
    <3>1. PICK n \in Nat : n = off'[p]
      BY <1>9
    <3>2. <<p, n>> \in ToSet(old.msgs) /\ n > saw[p] /\ \A x \in Newer(p) : x <= n
      BY <1>7, <2>2, <3>1
    <3>3. conf.parallel = 1 => off[p] < n
      BY <1>2, <1>5, <3>2
    <3>4. ASSUME NEW m \in ToSet(old.msgs), m[1] = p
          PROVE  m[2] <= n
      <4>1. m[2] \in Nat /\ saw[p] \in Nat /\ (m[2] > saw[p] => m[2] <= n)
        BY <1>5, <1>6, <3>2, <3>4
      <4> QED
        BY <3>2, <4>1
    <3>5. AtMost({m \in Claimed(v) \cup ToSet(pipe[v][i].msgs) : m[1] = p /\ m[2] > n}, Others)
      BY <1>1, <1>10, <3>2, <3>3, <3>4, RecordSets
    <3> QED
      BY <3>1, <3>5
  <2> QED
    BY <2>1, <2>2
<1>11. ASSUME Orderly, NEW p \in PartsOf(v)
       PROVE  AtMost({m \in Claimed(v) \cup Passed(b) : m[1] = p /\ m[2] > off'[p]}, Others)
  <2>1. {m \in Claimed(v) \cup Passed(b) : m[1] = p /\ m[2] > off'[p]} \subseteq After(p)
    BY <1>4 DEF Passed
  <2>2. AtMost(After(p), Others)
    BY <1>10, <1>11
  <2> HIDE DEF After
  <2> QED
    BY <1>3, <2>1, <2>2, AtMostLess
<1>12. InTopic(b.snap)
  <2> SUFFICES ASSUME NEW p \in PartsOf(v) PROVE off'[p] <= End(p)
    BY <1>4 DEF InTopic, OwnOffsets
  <2>1. CASE Newer(p) = {}
    <3>1. off[p] \in Nat /\ next[p] \in Nat /\ End(p) \in Nat /\ off[p] <= next[p] /\ next[p] <= End(p)
      BY <1>1, <1>2 DEF InOrder, Behind, Replay, Within
    <3> QED
      BY <1>8, <2>1, <3>1
  <2>2. CASE Newer(p) # {}
    BY <1>7, <2>2
  <2> QED
    BY <2>1, <2>2
<1>13. ASSUME Orderly
       PROVE  AtMost(Repeated(Held(v, i), b.snap), ReplayOf(v))
  <2> DEFINE Due(p) == After(p) \cup {<<p, off'[p]>>}
             F == [p \in PartsOf(v) |-> Due(p)]
             U == UNION {F[p] : p \in PartsOf(v)}
  <2>1. ASSUME NEW p \in PartsOf(v)
        PROVE  AtMost(F[p], Others + 1)
    <3>1. AtMost(After(p), Others) /\ AtMost({<<p, off'[p]>>}, 1)
      BY <1>10, <1>13, AtMostOne
    <3> HIDE DEF After
    <3>2. AtMost(Due(p), Others + 1)
      <4> DEFINE S == After(p)
                 T == {<<p, off'[p]>>}
      <4>1. AtMost(S, Others) /\ AtMost(T, 1) /\ Due(p) \subseteq S \cup T
        BY <3>1
      <4> HIDE DEF S, T, Due
      <4> QED
        BY <1>3, <4>1, AtMostBoth
    <3> QED
      BY <3>2
  <2>2. AtMost(U, Repeats(v))
    <3> HIDE DEF F
    <3>1. Others + 1 \in Nat
      BY <1>3
    <3> DEFINE o == Others + 1
    <3>2. o \in Nat /\ \A p \in PartsOf(v) : AtMost(F[p], o)
      BY <2>1, <3>1
    <3> HIDE DEF o
    <3>3. AtMost(U, Cardinality(PartsOf(v)) * o)
      BY <1>3, <3>2, AtMostFamily
    <3> QED
      BY <1>3, <3>3 DEF o
  <2>3. ASSUME NEW m \in Repeated(Held(v, i), b.snap)
        PROVE  m \in Unparsed(v, i) \/ m \in U
    <3>1. m \in Held(v, i) /\ m[1] \in PartsOf(v) /\ m[2] >= off'[m[1]]
      BY <1>4 DEF Repeated, OwnOffsets
    <3>2. m \in Unparsed(v, i) \/ m \in Reached
      <4>1. CASE m \in Trained(v)
        BY <4>1 DEF Claimed
      <4>2. ASSUME NEW j \in DOMAIN pipe[v], j <= i, m \in ToSet(pipe[v][j].msgs)
            PROVE  m \in Unparsed(v, i) \/ m \in Reached
        <5>1. CASE j = i
          BY <4>2, <5>1
        <5>2. CASE Parsed(pipe[v][j])
          <6>1. m \in Passed(pipe[v][j])
            BY <4>2, <5>2 DEF Passed
          <6> QED
            BY <6>1 DEF Claimed
        <5>3. CASE j # i /\ ~Parsed(pipe[v][j])
          <6>1. j < i
            BY <1>2, <4>2, <5>3, BatchIs
          <6> QED
            BY <4>2, <5>3, <6>1 DEF Unparsed
        <5> QED
          BY <5>1, <5>2, <5>3
      <4> QED
        BY <3>1, <4>1, <4>2 DEF Held, InPipe
    <3>3. CASE m \in Reached
      <4>1. m \in PartsOf(v) \X Nat
        <5>1. \A j \in DOMAIN pipe[v] : Passed(pipe[v][j]) \subseteq PartsOf(v) \X Nat
          BY <1>2, BatchIs DEF Passed
        <5>2. Trained(v) \subseteq PartsOf(v) \X Nat
          BY <1>2 DEF Replay, ReadSoFar
        <5> QED
          BY <1>4, <3>3, <5>1, <5>2 DEF Claimed
      <4>2. off'[m[1]] \in Nat /\ m[2] \in Nat /\ m = <<m[1], m[2]>>
        BY <1>9, <3>1, <4>1
      <4>3. m \in Due(m[1])
        <5>1. CASE m[2] > off'[m[1]]
          BY <3>3, <5>1
        <5>2. CASE m[2] = off'[m[1]]
          BY <4>2, <5>2
        <5> QED
          BY <3>1, <4>2, <5>1, <5>2
      <4> HIDE DEF Due
      <4>4. m \in F[m[1]]
        BY <3>1, <4>3
      <4> QED
        BY <3>1, <4>4
    <3> QED
      BY <3>2, <3>3
  <2>4. AtMost(Unparsed(v, i), Others)
    BY AtMostUnparsed
  <2> HIDE DEF U
  <2>5. AtMost(Repeated(Held(v, i), b.snap), Others + Repeats(v))
    <3>1. Repeated(Held(v, i), b.snap) \subseteq Unparsed(v, i) \cup U
      BY <2>3
    <3> QED
      BY <1>3, <2>2, <2>4, <3>1, AtMostBoth
  <2> QED
    BY <2>5 DEF ReplayOf
<1>14. \A p \in Partitions : p \notin PartsOf(v) => off'[p] = off[p]
  BY <1>1
<1> HIDE DEF After, Reached
<1> QED
  BY <1>1, <1>4, <1>11, <1>12, <1>13, <1>14, ParsingReplay

(* Who restarts, or dies, has trained on nothing in its session; a start is*)
(* within the topic, as all that is saved.                                 *)
LEMMA RestReplay ==
  ASSUME StreamInv, ReplayInv, NEW v \in Workers,
         \/ Restore(v) \/ WorkerSession(v) \/ ChiefSession \/ WorkerCrash(v) \/ JobCrash
  PROVE  ReplayInv'
<1> USE DEF readVars, pipeVars, psVars, saveVars, diskVars, pastVars
<1>1. /\ DOMAIN done = Workers /\ DOMAIN wpc = Workers /\ DOMAIN slot = Workers /\ Chief \in Workers
      /\ next \in [Partitions -> Nat] /\ off \in [Partitions -> Nat] /\ conf \in Confs
      /\ \A w \in Workers : InOrder(w) /\ Replay(w) /\ PartsOf(w) \subseteq Partitions
      /\ SavedInTopic
  BY WorkersNumbered DEF ReplayInv, StreamInv, Shapes
<1>2. ASSUME NEW w \in Workers, wpc[w] # "run"
      PROVE  fetch[w] = <<>> /\ pipe[w] = <<>> /\ hand[w] = <<>> /\ done[w] = {}
  BY <1>1, <1>2 DEF Replay, ReadSoFar, InOrder, Emptied
<1>3. conf.input \in {"kafka", "datahub"} /\ \A p \in Partitions : StartAt <= End(p) /\ End(p) \in Nat
  <2>1. \A w \in Workers : \A p \in Partitions : StartAt <= End(p)
    BY <1>1, ReplayNumbers
  <2> QED
    BY <1>1, <2>1, Settings
<1>4. ASSUME NEW w \in Workers, fetch'[w] = <<>>, pipe'[w] = <<>>, hand'[w] = <<>>, done'[w] = {},
             conf' = conf, \A p \in PartsOf(w) : next'[p] = off'[p],
             conf.input = "kafka" => \A p \in PartsOf(w) : next'[p] <= End(p),
             slot'[w] = slot[w] \/ slot'[w] = NoOffsets
      PROVE  Replay(w)'
  <2>1. DOMAIN pipe'[w] = {} /\ DOMAIN hand'[w] = {} /\ \A p : End(p)' = End(p)
    BY <1>4 DEF End
  <2>2. InTopic(slot[w])' /\ InTopic(NoOffsets)'
    BY <1>1, <1>4, <2>1 DEF InTopic, NoOffsets, Replay, Within
  <2>3. Within(w)'
    BY <1>4, <2>1, <2>2 DEF Within
  <2>4. Fetched(w)'
    BY <1>4 DEF Fetched
  <2> QED
    BY <1>1, <1>4, <2>3, <2>4, EmptyReplayNext
<1>5. CASE Restore(v)
  <2>1. /\ wpc[v] = "down" /\ wpc' = [wpc EXCEPT ![v] = "restored"]
        /\ off' = [p \in Partitions |-> IF p \in PartsOf(v) THEN StartOffset(p) ELSE off[p]]
        /\ next' = [p \in Partitions |-> IF p \in PartsOf(v) THEN off'[p] ELSE next[p]]
        /\ UNCHANGED <<conf, fetch, raw, pipe, hand, ops, slot, done, saving, file>>
    BY <1>5 DEF Restore
  <2>2. ASSUME NEW w \in Workers \ {v}
        PROVE  Same(w) /\ done'[w] = done[w]
    <3>1. \A p \in PartsOf(w) : next'[p] = next[p] /\ off'[p] = off[p]
      BY <2>1, OwnParts
    <3> QED
      BY <1>1, <2>1, <3>1 DEF Same
  <2>3. ASSUME conf.input = "kafka", NEW p \in PartsOf(v)
        PROVE  next'[p] <= End(p)
    <3>1. next'[p] = StartOffset(p) /\ p \in Partitions
      BY <1>1, <2>1
    <3>2. CASE ckpt.step \notin DOMAIN file
      BY <1>3, <3>1, <3>2 DEF StartOffset
    <3>3. CASE ckpt.step \in DOMAIN file
      <4>1. CASE p \in DOMAIN file[ckpt.step]
        <5>1. file[ckpt.step][p] <= End(p)
          BY <1>1, <2>3, <3>3, <4>1 DEF SavedInTopic, InTopic
        <5> QED
          BY <2>3, <3>1, <3>3, <4>1, <5>1 DEF StartOffset, StartOf
      <4>2. CASE p \notin DOMAIN file[ckpt.step]
        <5>1. 0 <= End(p)
          BY <1>3, <3>1
        <5> QED
          BY <2>3, <3>1, <3>3, <4>2, <5>1 DEF StartOffset, StartOf
      <4> QED
        BY <4>1, <4>2
    <3> QED
      BY <3>2, <3>3
  <2>4. \A p \in PartsOf(v) : next'[p] = off'[p]
    BY <1>1, <2>1
  <2>5. Replay(v)'
    BY <1>2, <1>4, <2>1, <2>3, <2>4
  <2> QED
    BY <1>1, <2>1, <2>2, <2>5, OneReplay
<1>6. ASSUME NEW w \in Workers, wpc[w] # "run", UNCHANGED <<conf, next, off, fetch, pipe, hand, done>>,
             slot'[w] = slot[w] \/ slot'[w] = NoOffsets
      PROVE  Replay(w)'
  <2>1. fetch[w] = <<>> /\ pipe[w] = <<>> /\ hand[w] = <<>> /\ done[w] = {}
    BY <1>2, <1>6
  <2>2. conf.input = "kafka" => \A p \in PartsOf(w) : next[p] <= End(p)
    BY <1>1 DEF Replay, Within
  <2>3. Fetched(w)'
    BY <1>1, <1>6 DEF Replay, Fetched
  <2>4. Within(w)'
    <3>1. DOMAIN pipe'[w] = {} /\ DOMAIN hand'[w] = {} /\ \A p : End(p)' = End(p)
      BY <1>6, <2>1 DEF End
    <3>2. InTopic(slot[w])' /\ InTopic(NoOffsets)'
      BY <1>1, <1>6, <3>1 DEF InTopic, NoOffsets, Replay, Within
    <3> QED
      BY <1>6, <2>2, <3>1, <3>2 DEF Within
  <2> QED
    BY <1>1, <1>6, <2>1, <2>3, <2>4, EmptyReplayNext
<1>7. CASE WorkerSession(v)
  <2>1. /\ wpc[v] = "restored" /\ wpc' = [wpc EXCEPT ![v] = "run"]
        /\ UNCHANGED <<conf, next, off, fetch, raw, pipe, hand, ops, slot, done, saving, file>>
    BY <1>7 DEF WorkerSession
  <2>2. \A w \in Workers \ {v} : Same(w) /\ done'[w] = done[w]
    BY <1>1, <2>1 DEF Same
  <2>3. Replay(v)'
    BY <1>6, <2>1
  <2> QED
    BY <1>1, <2>1, <2>2, <2>3, OneReplay
<1>8. CASE ChiefSession
  <2>1. /\ wpc[Chief] = "restored" /\ UNCHANGED <<conf, next, off, fetch, pipe, hand, done, file>>
        /\ slot' = [w \in Workers |-> NoOffsets] /\ saving'.off = NoOffsets
    BY <1>8 DEF ChiefSession, NoSave
  <2>2. \A w \in Workers : wpc[w] # "run"
    BY <1>1, <2>1 DEF StreamInv, ChiefRuns
  <2>3. \A w \in Workers : Replay(w)'
    BY <1>6, <2>1, <2>2
  <2>4. SavedInTopic'
    BY <1>1, <2>1 DEF SavedInTopic, InTopic, NoOffsets, End
  <2> QED
    BY <1>1, <2>1, <2>3, <2>4 DEF ReplayInv
<1>9. ASSUME NEW ws, NEW w \in ws, w \in Workers, Dead(ws), conf' = conf,
             slot'[w] = slot[w] \/ slot'[w] = NoOffsets
      PROVE  Replay(w)'
  <2>1. \A p \in PartsOf(w) : p \in Partitions /\ p % NumWorkers = w
    BY DEF PartsOf
  <2>2. \A p \in PartsOf(w) : next'[p] = StartAt /\ off'[p] = StartAt
    BY <1>9, <2>1 DEF Dead
  <2>3. fetch'[w] = <<>> /\ pipe'[w] = <<>> /\ hand'[w] = <<>> /\ done'[w] = {}
    BY <1>9 DEF Dead
  <2> QED
    BY <1>3, <1>4, <1>9, <2>1, <2>2, <2>3
<1>10. CASE WorkerCrash(v)
  <2>1. Dead({v}) /\ UNCHANGED <<conf, slot, saving, file>>
    BY <1>10 DEF WorkerCrash
  <2>2. /\ wpc' = [w \in Workers |-> IF w \in {v} THEN "down" ELSE wpc[w]]
        /\ next' = [p \in Partitions |-> IF p % NumWorkers \in {v} THEN StartAt ELSE next[p]]
        /\ off' = [p \in Partitions |-> IF p % NumWorkers \in {v} THEN StartAt ELSE off[p]]
        /\ fetch' = [w \in Workers |-> IF w \in {v} THEN <<>> ELSE fetch[w]]
        /\ raw' = [w \in Workers |-> IF w \in {v} THEN <<>> ELSE raw[w]]
        /\ pipe' = [w \in Workers |-> IF w \in {v} THEN <<>> ELSE pipe[w]]
        /\ hand' = [w \in Workers |-> IF w \in {v} THEN <<>> ELSE hand[w]]
        /\ ops' = [w \in Workers |-> IF w \in {v} THEN {} ELSE ops[w]]
        /\ done' = [w \in Workers |-> IF w \in {v} THEN {} ELSE done[w]]
    BY <2>1 DEF Dead
  <2>3. ASSUME NEW w \in Workers \ {v}
        PROVE  Same(w) /\ done'[w] = done[w]
    <3>1. \A p \in PartsOf(w) : next'[p] = next[p] /\ off'[p] = off[p]
      BY <2>2, OwnParts
    <3> QED
      BY <2>1, <2>2, <3>1 DEF Same
  <2>4. Replay(v)'
    BY <1>9, <2>1
  <2> QED
    BY <2>1, <2>2, <2>3, <2>4, OneReplay
<1>11. CASE JobCrash
  <2>1. Dead(Workers) /\ conf' = conf /\ slot' = [w \in Workers |-> NoOffsets]
        /\ saving' = NoSave /\ file' = file
    BY <1>11 DEF JobCrash
  <2>2. \A w \in Workers : Replay(w)'
    BY <1>9, <2>1
  <2>3. SavedInTopic'
    BY <1>1, <2>1 DEF SavedInTopic, InTopic, NoSave, NoOffsets, End
  <2>4. DOMAIN done' = Workers
    BY <2>1 DEF Dead
  <2> QED
    BY <2>2, <2>3, <2>4 DEF ReplayInv
<1> QED
  BY <1>5, <1>7, <1>8, <1>10, <1>11

(* What is saved comes from the slots.                                     *)
LEMMA SaveReplay ==
  ASSUME StreamInv, ReplayInv, SaveStep \/ UNCHANGED streamVars
  PROVE  ReplayInv'
<1> USE DEF readVars, pipeVars, psVars, saveVars, diskVars, pastVars
<1>1. UNCHANGED <<conf, wpc, next, off, fetch, raw, pipe, hand, ops, slot, done>>
  BY DEF SaveStep, SaveBegin, ReadOffsets, WriteFile, SaveVars, streamVars
<1>2. \A w \in Workers : Same(w) /\ done'[w] = done[w]
  BY <1>1 DEF Same
<1>3. \A w \in Workers : Replay(w)'
  BY <1>1, <1>2, ReplayStays DEF ReplayInv, StreamInv, InOrder
<1>4. SavedInTopic
  BY DEF ReplayInv
<1>5. \A o : InTopic(o)' = InTopic(o)
  BY <1>1 DEF InTopic, End
<1>6. InTopic(saving'.off) /\ \A n \in DOMAIN file' : InTopic(file'[n])
  <2>1. CASE SaveBegin
    <3>1. saving'.off = NoOffsets /\ file' = file
      BY <2>1 DEF SaveBegin, NoSave
    <3> QED
      BY <1>4, <3>1 DEF SavedInTopic, InTopic, NoOffsets
  <2>2. CASE ReadOffsets
    <3>1. saving'.off = Merged /\ file' = file
      BY <2>2 DEF ReadOffsets, StreamInv, Shapes
    <3>2. InTopic(Merged)
      <4> SUFFICES ASSUME conf.input = "kafka", NEW p \in DOMAIN Merged PROVE Merged[p] <= End(p)
        BY DEF InTopic
      <4> DEFINE u == CHOOSE w \in Workers : p \in DOMAIN slot[w]
      <4>1. \E w \in Workers : p \in DOMAIN slot[w]
        BY DEF Merged
      <4>2. u \in Workers /\ p \in DOMAIN slot[u]
        BY <4>1
      <4>3. Merged[p] = slot[u][p]
        BY DEF Merged
      <4> HIDE DEF u
      <4>4. InTopic(slot[u])
        BY <4>2 DEF ReplayInv, Replay, Within
      <4> QED
        BY <4>2, <4>3, <4>4 DEF InTopic
    <3> QED
      BY <1>4, <3>1, <3>2 DEF SavedInTopic
  <2>3. CASE WriteFile
    <3>1. saving' = saving
          /\ file' = [n \in DOMAIN file \cup {saving.step} |->
                        IF n = saving.step THEN saving.off ELSE file[n]]
      BY <2>3 DEF WriteFile
    <3> QED
      BY <1>4, <3>1 DEF SavedInTopic
  <2>4. CASE SaveVars
    <3>1. saving'.off = NoOffsets /\ file' = [n \in {saving.step} \cap DOMAIN file |-> file[n]]
      BY <2>4 DEF SaveVars, NoSave
    <3>2. InTopic(NoOffsets)
      BY DEF InTopic, NoOffsets
    <3> QED
      BY <1>4, <3>1, <3>2 DEF SavedInTopic
  <2>5. CASE UNCHANGED streamVars
    BY <1>4, <2>5 DEF SavedInTopic, streamVars
  <2> QED
    BY <2>1, <2>2, <2>3, <2>4, <2>5 DEF SaveStep
<1>7. SavedInTopic'
  BY <1>5, <1>6 DEF SavedInTopic
<1> QED
  BY <1>1, <1>3, <1>7 DEF ReplayInv

(* Nobody has trained at the start.                                        *)
LEMMA ReplayInit == StreamInit => ReplayInv
<1> SUFFICES ASSUME StreamInit PROVE ReplayInv
  OBVIOUS
<1>1. /\ conf \in Confs /\ next = [p \in Partitions |-> StartAt] /\ off = next
      /\ fetch = [w \in Workers |-> <<>>] /\ pipe = [w \in Workers |-> <<>>]
      /\ hand = [w \in Workers |-> <<>>] /\ done = [w \in Workers |-> {}]
      /\ slot = [w \in Workers |-> NoOffsets] /\ saving.off = NoOffsets /\ DOMAIN file = {}
  BY DEF StreamInit, NoSave
<1>2. ASSUME NEW w \in Workers
      PROVE  Replay(w)
  <2>1. \A p \in PartsOf(w) : next[p] = off[p] /\ next[p] <= End(p)
    BY <1>1, ReplayNumbers, WorkersNumbered
  <2>2. InTopic(slot[w]) /\ DOMAIN pipe[w] = {} /\ DOMAIN hand[w] = {} /\ fetch[w] = <<>>
    BY <1>1 DEF InTopic, NoOffsets
  <2> QED
    BY <1>1, <2>1, <2>2, EmptyReplay DEF Fetched, Within
<1>3. SavedInTopic
  BY <1>1 DEF SavedInTopic, InTopic, NoOffsets
<1> QED
  BY <1>1, <1>2, <1>3 DEF ReplayInv

(* Every step keeps what may be repeated within its bounds.                *)
LEMMA ReplayStep == StreamInv /\ ReplayInv /\ [StreamNext]_streamVars => ReplayInv'
<1> SUFFICES ASSUME StreamInv, ReplayInv, [StreamNext]_streamVars PROVE ReplayInv'
  OBVIOUS
<1>1. Chief \in Workers
  BY WorkersNumbered
<1>2. ASSUME NEW w \in Workers, Step(w)
      PROVE  ReplayInv'
  <2>1. CASE Restore(w) \/ WorkerSession(w) \/ (w = Chief /\ ChiefSession)
    BY <2>1, RestReplay
  <2>2. CASE FetchDone(w) \/ \E p \in Partitions : Read(w, p)
    BY <2>2, FetchDoneReplay, ReadReplay
  <2>3. CASE \E i \in DOMAIN pipe[w] : Compare(w, i) \/ Record(w, i) \/ Dump(w, i)
    BY <2>3, CompareReplay, RecordReplay, DumpReplay
  <2>4. CASE NextBatch(w) \/ Assign(w) \/ Apply(w)
    BY <2>4, NextBatchReplay, TrainReplay
  <2> QED
    BY <1>2, <2>1, <2>2, <2>3, <2>4 DEF Step
<1>3. CASE SaveStep \/ UNCHANGED streamVars
  BY <1>3, SaveReplay
<1>4. CASE JobCrash \/ \E w \in Workers : WorkerCrash(w)
  BY <1>1, <1>4, RestReplay
<1> QED
  BY <1>2, <1>3, <1>4 DEF StreamNext, JobStep

(* Of the offsets that are saved, those of a worker are its slot's; the    *)
(* batch in hand of a worker that is not the chief may not be in them yet. *)
LEMMA AgainBounded ==
  ASSUME StreamInv, ReplayInv, ReadOffsets, Orderly, NEW w \in Workers
  PROVE  Cardinality(Again(w, saving'.off)) <= Unsettled(w) + Repeats(w)
<1>1. saving'.off = Merged /\ spc = "offsets"
  BY DEF ReadOffsets, StreamInv, Shapes
<1>2. /\ InOrder(w) /\ Replay(w) /\ conf \in Confs /\ BatchSize \in Nat
      /\ \A u \in Workers : slot[u] \in OffsetsOf(u)
  BY WorkersNumbered DEF StreamInv, Shapes, InOrder, Typed, ReplayInv
<1>3. /\ ReplayOf(w) \in Nat
      /\ Unsettled(w) + Repeats(w) = ReplayOf(w) + (IF w = Chief THEN 0 ELSE BatchSize)
  BY <1>2, ReplayNumbers
<1> DEFINE late == IF w = Chief THEN 0 ELSE BatchSize
<1>4. late \in Nat /\ AtMost(InHand(w), late)
  <2>1. CASE w = Chief
    <3>1. InHand(w) = {}
      BY <1>1, <2>1 DEF StreamInv, Saves, InHand
    <3> QED
      BY <2>1, <3>1, AtMostNone
  <2>2. CASE w # Chief
    BY <1>2, <2>2, HandSmall
  <2> QED
    BY <2>1, <2>2
<1>5. AtMost(Repeated(IF "assign" \in ops[w] THEN done[w] \ InHand(w) ELSE Trained(w), slot[w]),
             ReplayOf(w))
  BY <1>2 DEF Replay, SlotReplay
<1>6. ASSUME NEW m \in Again(w, Merged), m \notin InHand(w)
      PROVE  m \in Repeated(IF "assign" \in ops[w] THEN done[w] \ InHand(w) ELSE Trained(w), slot[w])
  <2>1. m \in done[w] /\ m[1] \in DOMAIN Merged /\ m[2] >= Merged[m[1]]
    BY DEF Again
  <2>2. m[1] \in PartsOf(w)
    BY <1>2, <2>1 DEF Replay, ReadSoFar, Trained
  <2> DEFINE u == CHOOSE x \in Workers : m[1] \in DOMAIN slot[x]
  <2>3. u \in Workers /\ m[1] \in DOMAIN slot[u] /\ Merged[m[1]] = slot[u][m[1]]
    <3>1. \E x \in Workers : m[1] \in DOMAIN slot[x]
      BY <2>1 DEF Merged
    <3> QED
      BY <2>1, <3>1 DEF Merged
  <2> HIDE DEF u
  <2>4. m[1] \in PartsOf(u)
    BY <1>2, <2>3, OffsetsAre
  <2>5. u = w
    BY <2>2, <2>4 DEF PartsOf
  <2> QED
    BY <1>6, <2>1, <2>3, <2>5 DEF Repeated, Trained
<1> DEFINE R == Repeated(IF "assign" \in ops[w] THEN done[w] \ InHand(w) ELSE Trained(w), slot[w])
           A == Again(w, Merged)
           H == InHand(w)
<1>7. A \subseteq R \cup H /\ AtMost(R, ReplayOf(w)) /\ AtMost(H, late)
  BY <1>4, <1>5, <1>6
<1> HIDE DEF late, R, A, H
<1>8. AtMost(A, ReplayOf(w) + late)
  BY <1>3, <1>4, <1>7, AtMostBoth
<1> QED
  BY <1>1, <1>3, <1>8 DEF AtMost, A, late

(* ReplayBounded: a restart from offsets that are saved repeats a bounded  *)
(* number of messages, whatever the sizes, the shuffling, the parsing calls*)
(* and the crashes.                                                        *)
THEOREM ReplayIsBounded == StreamSpec => ReplayBounded
<1>1. StreamSpec => []ReplayInv
  BY StreamInvariant, ReplayInit, ReplayStep, PTL DEF StreamSpec
<1>2. StreamInv /\ ReplayInv /\ [StreamNext]_streamVars
        => [/\ spc = "offsets" /\ spc' = "file"
            /\ conf.input = "datahub" \/ 1 \in {conf.parallel, conf.shuffle}
            => \A w \in Workers :
                Cardinality(Again(w, saving'.off)) <= Unsettled(w) + Repeats(w)]_streamVars
  <2> SUFFICES ASSUME StreamInv, ReplayInv, StreamNext, spc = "offsets", spc' = "file", Orderly
               PROVE  \A w \in Workers :
                        Cardinality(Again(w, saving'.off)) <= Unsettled(w) + Repeats(w)
    BY DEF Orderly
  <2>1. ReadOffsets
    <3>1. ~SaveBegin /\ ~WriteFile /\ ~SaveVars
      BY DEF SaveBegin, WriteFile, SaveVars
    <3>2. ~JobCrash /\ ~ \E w \in Workers : WorkerCrash(w)
      BY DEF JobCrash, WorkerCrash, saveVars
    <3>3. ~ \E w \in Workers : Restore(w) \/ WorkerSession(w) \/ ChiefSession \/ FetchDone(w)
      BY DEF Restore, WorkerSession, ChiefSession, FetchDone, saveVars
    <3>4. ~ \E w \in Workers : \E p \in Partitions : Read(w, p)
      BY DEF Read, saveVars
    <3>5. ~ \E w \in Workers : \E i \in DOMAIN pipe[w] : Compare(w, i) \/ Record(w, i) \/ Dump(w, i)
      BY DEF Compare, Record, Dump, saveVars
    <3>6. ~ \E w \in Workers : NextBatch(w) \/ Assign(w) \/ Apply(w)
      BY DEF NextBatch, Assign, Apply, saveVars
    <3> QED
      BY <3>1, <3>2, <3>3, <3>4, <3>5, <3>6, Zenon DEF StreamNext, JobStep, Step, SaveStep
  <2> QED
    BY <2>1, AgainBounded
<1> QED
  BY <1>1, <1>2, StreamInvariant, PTL DEF StreamSpec, ReplayBounded
=============================================================================
