------------------------ MODULE EmbeddingParts_proof ------------------------
(***************************************************************************)
(* What holds of the division of an embedding among ranks, and of the jobs *)
(* that save and restore it one after the other, for any number of rows, of*)
(* ranks at the save and of ranks at the restore.                          *)
(***************************************************************************)
EXTENDS EmbeddingParts, FiniteSetTheorems, TLAPS

(* There is only one way to divide.                                        *)
LEMMA DivisionUnique ==
  ASSUME NEW n \in Nat \ {0}, NEW p \in 0..(n - 1), NEW q \in 0..(n - 1),
         NEW i \in Int, NEW j \in Int, p + i * n = q + j * n
  PROVE  p = q /\ i = j
  OBVIOUS

(* Division as multiplication: n rows a position, and the rest.            *)
LEMMA DivisionRest ==
  ASSUME NEW r \in Nat, NEW n \in Nat \ {0}
  PROVE  /\ r \div n \in Nat /\ (r % n) \in 0..(n - 1)
         /\ r = (r % n) + (r \div n) * n
<1>1. (r % n) \in 0..(n - 1) /\ r \div n \in Int
  OBVIOUS
<1>2. r = (r % n) + (r \div n) * n
  OBVIOUS
<1>3. r \div n >= 0
  BY <1>1, <1>2
<1> QED
  BY <1>1, <1>2, <1>3

(* A part has room for its rows, and for less than one in each rank more.  *)
LEMMA PartSizeBounds ==
  ASSUME NEW n \in Nat \ {0}
  PROVE  /\ PartSize(n) \in Nat
         /\ PartSize(n) * n >= NumBuckets
         /\ (PartSize(n) - 1) * n < NumBuckets
  BY PartsAssumption DEF PartSize

Rows == 0..(NumBuckets - 1)

(* Each row has one place: the lookup, the saver and the loader agree on it*)
(* for any number of ranks.                                                *)
LEMMA OnePlace ==
  ASSUME NEW r \in Rows, NEW n \in Nat \ {0}
  PROVE  /\ RankOf(r, n) \in 0..(n - 1)
         /\ PositionOf(r, n) \in 1..PartSize(n) /\ PositionOf(r, n) \in 1..NumBuckets
         /\ RowId(RankOf(r, n), PositionOf(r, n), n) = r
         /\ \A p \in 0..(n - 1), i \in Int :
              RowId(p, i, n) = r => p = RankOf(r, n) /\ i = PositionOf(r, n)
<1> DEFINE q == r % n
           d == r \div n
<1>1. r \in Nat /\ r < NumBuckets /\ NumBuckets \in Nat
  BY PartsAssumption DEF Rows
<1>2. d \in Nat /\ q \in 0..(n - 1) /\ r = q + d * n
  BY <1>1, DivisionRest
<1> HIDE DEF q, d
<1>3. d < PartSize(n) /\ PartSize(n) \in Nat
  <2>1. d * n < PartSize(n) * n /\ PartSize(n) \in Nat
    BY <1>1, <1>2, PartSizeBounds
  <2> QED
    BY <1>2, <2>1
<1>4. d < NumBuckets
  BY <1>1, <1>2
<1>5. ASSUME NEW p \in 0..(n - 1), NEW i \in Int, p + (i - 1) * n = r
      PROVE  p = q /\ i = d + 1
  <2>1. i - 1 \in Int /\ d \in Int
    BY <1>2
  <2> DEFINE j == i - 1
  <2>2. j \in Int /\ p + j * n = q + d * n
    BY <1>2, <1>5, <2>1
  <2> HIDE DEF j
  <2>3. p = q /\ j = d
    BY <1>2, <2>1, <2>2, DivisionUnique
  <2> QED
    BY <1>2, <2>3 DEF j
<1>6. q + ((d + 1) - 1) * n = r
  BY <1>2
<1> QED
  BY <1>1, <1>2, <1>3, <1>4, <1>5, <1>6 DEF RankOf, PositionOf, RowId, q, d

(* The part files of n ranks, each with the rows of its rank as they were  *)
(* at step s.                                                              *)
PartsOf(parts, n, s) ==
  /\ n \in Nat \ {0} /\ Cardinality(parts) = n
  /\ \A p \in 0..(n - 1) : \E f \in parts : f.part = p
  /\ \A f \in parts :
       /\ f.part \in 0..(n - 1) /\ DOMAIN f.body = 1..PartSize(n)
       /\ \A r \in Rows : RankOf(r, n) = f.part => f.body[PositionOf(r, n)] = <<r, s>>

(* Every row is found, and it is the row that was saved.                   *)
LEMMA RowFound ==
  ASSUME NEW parts, NEW n, NEW s, PartsOf(parts, n, s),
         NEW m \in Nat \ {0}, NEW p \in 0..(m - 1), NEW i \in 1..PartSize(m),
         RowId(p, i, m) \in Rows
  PROVE  Sources(parts, p, i, m) # {} /\ Loaded(parts, p, m)[i] = <<RowId(p, i, m), s>>
<1> DEFINE r == RowId(p, i, m)
           found == Sources(parts, p, i, m)
<1>1. n \in Nat \ {0} /\ Cardinality(parts) = n /\ r \in Rows
  BY DEF PartsOf
<1>2. /\ RankOf(r, n) \in 0..(n - 1)
      /\ PositionOf(r, n) \in 1..PartSize(n) /\ PositionOf(r, n) \in 1..NumBuckets
      /\ RowId(RankOf(r, n), PositionOf(r, n), n) = r
      /\ \A q \in 0..(n - 1), j \in Int :
           RowId(q, j, n) = r => q = RankOf(r, n) /\ j = PositionOf(r, n)
  BY <1>1, OnePlace
<1>3. PICK f \in parts : f.part = RankOf(r, n)
  BY <1>2 DEF PartsOf
<1>4. <<f, PositionOf(r, n)>> \in found
  <2>1. PositionOf(r, n) \in DOMAIN f.body
    BY <1>2, <1>3 DEF PartsOf
  <2> QED
    BY <1>1, <1>2, <1>3, <2>1 DEF Sources
<1>5. ASSUME NEW src \in found PROVE src[1].body[src[2]] = <<r, s>>
  <2>1. /\ src[1] \in parts /\ src[2] \in 1..NumBuckets
        /\ RowId(src[1].part, src[2], n) = r
    BY <1>1, <1>5 DEF Sources
  <2>2. src[1].part = RankOf(r, n) /\ src[2] = PositionOf(r, n)
    BY <1>2, <2>1 DEF PartsOf
  <2> QED
    BY <1>1, <2>1, <2>2 DEF PartsOf
<1> HIDE DEF found
<1>6. found # {}
  BY <1>4
<1>7. (CHOOSE src \in found : TRUE) \in found
  BY <1>6
<1>8. Loaded(parts, p, m)[i] = <<r, s>>
  BY <1>5, <1>6, <1>7 DEF Loaded, found
<1> QED
  BY <1>6, <1>8 DEF found

(* Part files that n ranks saved are restored by any other number of ranks:*)
(* the lookup finds every row as it was saved, and LoadEmbedOp takes the   *)
(* part of each rank for filled.                                           *)
THEOREM RestoredByAnySize ==
  ASSUME NEW parts, NEW n, NEW s, PartsOf(parts, n, s),
         NEW m \in Nat \ {0}, NEW p \in 0..(m - 1)
  PROVE  /\ \A r \in Rows : RankOf(r, m) = p =>
              Loaded(parts, p, m)[PositionOf(r, m)] = <<r, s>>
         /\ Filled(parts, p, m)
<1>1. ASSUME NEW r \in Rows, RankOf(r, m) = p
      PROVE  Loaded(parts, p, m)[PositionOf(r, m)] = <<r, s>>
  <2>1. PositionOf(r, m) \in 1..PartSize(m) /\ RowId(p, PositionOf(r, m), m) = r
    BY <1>1, OnePlace
  <2> QED
    BY <2>1, RowFound
<1>2. Filled(parts, p, m)
  <2> DEFINE full == 1..(PartSize(m) - 1)
             found == {i \in 1..PartSize(m) : Sources(parts, p, i, m) # {}}
  <2>1. PartSize(m) \in Nat /\ (PartSize(m) - 1) * m < NumBuckets /\ NumBuckets \in Nat
    BY PartSizeBounds, PartsAssumption
  <2>2. ASSUME NEW i \in full PROVE i \in found
    <3>1. i \in 1..PartSize(m) /\ i \in Int /\ i - 1 >= 0 /\ i <= PartSize(m) - 1
      BY <2>1
    <3>2. i * m <= (PartSize(m) - 1) * m
      BY <2>1, <3>1
    <3>3. p + (i - 1) * m >= 0
      BY <3>1
    <3>4. p + (i - 1) * m < i * m
      BY <3>1
    <3>5. RowId(p, i, m) \in Rows
      BY <2>1, <3>1, <3>2, <3>3, <3>4 DEF RowId, Rows
    <3> QED
      BY <3>1, <3>5, RowFound
  <2>3. IsFiniteSet(1..PartSize(m)) /\ found \subseteq 1..PartSize(m)
    BY <2>1, FS_Interval
  <2>4. IsFiniteSet(found) /\ IsFiniteSet(full)
    <3>1. PartSize(m) - 1 \in Int
      BY <2>1
    <3>2. IsFiniteSet(full)
      BY <3>1, FS_Interval
    <3> HIDE DEF found
    <3>3. IsFiniteSet(found)
      BY <2>3, FS_Subset
    <3> QED
      BY <3>2, <3>3
  <2>5. Cardinality(full) <= Cardinality(found)
    BY <2>2, <2>4, FS_Subset
  <2>6. Cardinality(full) = PartSize(m) - 1 \/ PartSize(m) - 1 <= 0
    BY <2>1, FS_Interval
  <2>7. Cardinality(found) \in Nat
    BY <2>4, FS_CardinalityType
  <2> HIDE DEF found, full
  <2>8. Cardinality(found) >= PartSize(m) - 1
    <3>1. Cardinality(full) \in Nat
      BY <2>4, FS_CardinalityType
    <3> QED
      BY <2>1, <2>5, <2>6, <2>7, <3>1
  <2> QED
    BY <2>8 DEF Filled, found
<1> QED
  BY <1>1, <1>2

---------------------------------------------------------------------------
(* The jobs.                                                               *)

(* What rank p of n is to hold of the dynamic embedding, and of the table. *)
KeysOf(p, n, s) == {<<k, s>> : k \in {k \in Keys : k % n = p}}

RowsRight(rows, p, n, s) ==
  \A r \in Rows : RankOf(r, n) = p => rows[PositionOf(r, n)] = <<r, s>>

(* The types, and that a rank has one file of a kind and step.             *)
Begins == {"restoring", "restored", "failed"}
Works == {"saving", "training"}
Kinds == {"bin", "key", "val", "index", "state"}
Value == Int \X Nat

FilesOK ==
  \A f \in files :
    /\ f.step \in Nat /\ f.part \in Nat /\ (f.kind = "bin" => f.body \in Seq(Value))
    /\ \A g \in files : g.step = f.step /\ g.kind = f.kind /\ g.part = f.part => g = f

JobOK ==
  /\ doing \in [Ranks -> Begins \cup Works] /\ ops \in [Ranks -> SUBSET Kinds]
  /\ table \in [Ranks -> [1..PartSize(size) -> Value]] /\ DOMAIN pairs = Ranks
  /\ (\A p \in Ranks : doing[p] \in Begins) \/ (\A p \in Ranks : doing[p] \in Works)

PartsTypeOK ==
  /\ setting \in Settings /\ size \in 0..MaxRanks /\ step \in Nat
  /\ latest \in Nat \cup {-1} /\ torn \in BOOLEAN
  /\ FilesOK /\ (size > 0 => JobOK)

(* What a rank has restored is that of the latest checkpoint.              *)
RestoreInv ==
  \A p \in Ranks : doing[p] \in Begins =>
    /\ "bin" \notin ops[p] => RowsRight(table[p], p, size, step)
    /\ "key" \notin ops[p] /\ setting.kv => pairs[p] = KeysOf(p, size, step)
    /\ "key" \in ops[p] => setting.kv
    /\ step = (IF latest = -1 THEN 0 ELSE latest) /\ (latest = -1 => ops[p] = {})
    /\ doing[p] = "failed" => setting.kv /\ ~setting.lib
    /\ doing[p] = "restored" => ops[p] = {}

(* What a rank trains is of the step.                                      *)
WorkInv ==
  \A p \in Ranks : doing[p] \in Works =>
    /\ RowsRight(table[p], p, size, step)
    /\ setting.kv => pairs[p] = KeysOf(p, size, step)
    /\ doing[p] = "training" => ops[p] = {}

(* What is not left to do of a save is done.                               *)
HasFile(kind, p, body) == \E f \in FilesOf(step, kind) : f.part = p /\ f.body = body

SaveInv ==
  (\E p \in Ranks : doing[p] = "saving") =>
    /\ \A p \in Ranks :
         /\ "bin" \notin ops[p] => HasFile("bin", p, table[p])
         /\ setting.kv /\ "key" \notin ops[p] => HasFile("key", p, pairs[p])
         /\ setting.kv /\ ops[p] \cap {"key", "val"} = {} => HasFile("val", p, pairs[p])
         /\ "state" \notin ops[p] => latest = step
    /\ "bin" \notin ops[0] => \A f \in FilesOf(step, "bin") : f.part < size
    /\ "index" \notin ops[0] => FilesOf(step, "index") # {}
    /\ setting.kv /\ ops[0] \cap {"key", "val"} = {} =>
         \A f \in FilesOf(step, "key") \cup FilesOf(step, "val") : f.part < size

(* The latest checkpoint is whole, unless it is being written.             *)
LatestInv == latest # -1 /\ ~(Saving /\ latest = step) => Whole(latest)

PartsInv == PartsTypeOK /\ (~torn => RestoreInv /\ WorkInv /\ SaveInv /\ LatestInv)

---------------------------------------------------------------------------
(* Tables and checkpoints.                                                 *)

(* A part of a table is a sequence.                                        *)
LEMMA PartIsSeq ==
  ASSUME NEW n \in Nat, NEW S, NEW f \in [1..n -> S]
  PROVE  f \in Seq(S) /\ Len(f) = n
  OBVIOUS

(* A new part has its rows in their places.                                *)
LEMMA FreshRight ==
  ASSUME NEW n \in Nat \ {0}, NEW p \in 0..(n - 1)
  PROVE  Fresh(p, n) \in [1..PartSize(n) -> Value] /\ RowsRight(Fresh(p, n), p, n, 0)
<1>1. PartSize(n) \in Nat
  BY PartSizeBounds
<1>2. \A i \in 1..PartSize(n) : p + (i - 1) * n \in Int
  BY <1>1
<1>3. Fresh(p, n) \in [1..PartSize(n) -> Value]
  BY <1>1, <1>2 DEF Fresh, Value
<1>4. ASSUME NEW r \in Rows, RankOf(r, n) = p
      PROVE  Fresh(p, n)[PositionOf(r, n)] = <<r, 0>>
  BY <1>4, OnePlace DEF Fresh, RowId
<1> QED
  BY <1>3, <1>4 DEF RowsRight

(* A training step updates the rows where they are.                        *)
LEMMA TrainedRight ==
  ASSUME NEW n \in Nat \ {0}, NEW p \in 0..(n - 1), NEW s \in Nat, NEW t \in Nat,
         NEW rows \in [1..PartSize(n) -> Value], RowsRight(rows, p, n, s)
  PROVE  LET new == [i \in DOMAIN rows |->
               IF RowId(p, i, n) < NumBuckets THEN <<rows[i][1], t>> ELSE rows[i]]
         IN new \in [1..PartSize(n) -> Value] /\ RowsRight(new, p, n, t)
<1> DEFINE new == [i \in DOMAIN rows |->
             IF RowId(p, i, n) < NumBuckets THEN <<rows[i][1], t>> ELSE rows[i]]
<1>1. new \in [1..PartSize(n) -> Value]
  <2>1. \A i \in 1..PartSize(n) : rows[i] \in Value /\ <<rows[i][1], t>> \in Value
    BY DEF Value
  <2>2. DOMAIN rows = 1..PartSize(n)
    OBVIOUS
  <2> QED
    BY <2>1, <2>2
<1>2. ASSUME NEW r \in Rows, RankOf(r, n) = p PROVE new[PositionOf(r, n)] = <<r, t>>
  <2>1. PositionOf(r, n) \in DOMAIN rows /\ RowId(p, PositionOf(r, n), n) = r
    BY <1>2, OnePlace
  <2>2. rows[PositionOf(r, n)] = <<r, s>> /\ r < NumBuckets
    BY <1>2, PartsAssumption DEF RowsRight, Rows
  <2> QED
    BY <2>1, <2>2
<1> QED
  BY <1>1, <1>2 DEF RowsRight

(* The part files of a whole checkpoint are those of some number of ranks. *)
LEMMA WholeParts ==
  ASSUME FilesOK, NEW s, Whole(s)
  PROVE  \E n \in Nat \ {0} : PartsOf(FilesOf(s, "bin"), n, s)
<1> DEFINE parts == FilesOf(s, "bin")
<1>1. PICK n \in 1..MaxRanks :
        /\ {f.part : f \in parts} = 0..(n - 1)
        /\ \A f \in parts : Len(f.body) = PartSize(n)
        /\ \A r \in Rows : \A f \in parts :
             f.part = RankOf(r, n) => f.body[PositionOf(r, n)] = <<r, s>>
  BY DEF Whole, Rows
<1>2. n \in Nat \ {0} /\ PartSize(n) \in Nat
  BY PartsAssumption, PartSizeBounds
<1>3. /\ \A f \in parts : f.kind = "bin" /\ f.body \in Seq(Value)
      /\ \A f, g \in parts : f.part = g.part => f = g
  BY DEF FilesOK, FilesOf
<1> HIDE DEF parts
<1>4. Cardinality(parts) = n
  <2> DEFINE h == [f \in parts |-> f.part]
  <2>1. h \in [parts -> 0..(n - 1)] /\ \A q \in 0..(n - 1) : \E f \in parts : h[f] = q
    BY <1>1
  <2>2. \A f, g \in parts : h[f] = h[g] => f = g
    BY <1>3
  <2> HIDE DEF h
  <2>3. h \in Injection(parts, 0..(n - 1)) /\ h \in Surjection(parts, 0..(n - 1))
    BY <2>1, <2>2 DEF Injection, Surjection, IsInjective
  <2>4. IsFiniteSet(0..(n - 1)) /\ Cardinality(0..(n - 1)) = n
    <3>1. 0 \in Int /\ n - 1 \in Int /\ 0 <= n - 1
      BY <1>2
    <3>2. IsFiniteSet(0..(n - 1)) /\ Cardinality(0..(n - 1)) = (n - 1) - 0 + 1
      BY <3>1, FS_Interval
    <3> QED
      BY <1>2, <3>2
  <2> QED
    BY <2>3, <2>4, FS_Injection
<1>5. \A p \in 0..(n - 1) : \E f \in parts : f.part = p
  BY <1>1
<1>6. \A f \in parts : f.part \in 0..(n - 1) /\ DOMAIN f.body = 1..PartSize(n)
  BY <1>1, <1>2, <1>3
<1> QED
  BY <1>1, <1>2, <1>4, <1>5, <1>6 DEF PartsOf, parts

(* Any number of ranks restores the table of a whole checkpoint.           *)
LEMMA LoadedRight ==
  ASSUME FilesOK, NEW s, Whole(s), NEW m \in Nat \ {0}, NEW p \in 0..(m - 1)
  PROVE  /\ RowsRight(Loaded(FilesOf(s, "bin"), p, m), p, m, s)
         /\ Filled(FilesOf(s, "bin"), p, m)
<1>1. PICK n \in Nat \ {0} : PartsOf(FilesOf(s, "bin"), n, s)
  BY WholeParts
<1> QED
  BY <1>1, RestoredByAnySize DEF RowsRight

(* What is loaded is a part of a table.                                    *)
LEMMA LoadedType ==
  ASSUME FilesOK, NEW s, NEW m, NEW p
  PROVE  Loaded(FilesOf(s, "bin"), p, m) \in [1..PartSize(m) -> Value]
<1> DEFINE parts == FilesOf(s, "bin")
<1>1. \A f \in parts : f.body \in Seq(Value)
  BY DEF FilesOK, FilesOf
<1> HIDE DEF parts
<1>2. ASSUME NEW i \in 1..PartSize(m), Sources(parts, p, i, m) # {}
      PROVE  LET src == CHOOSE src \in Sources(parts, p, i, m) : TRUE
             IN src[1].body[src[2]] \in Value
  <2> DEFINE src == CHOOSE src \in Sources(parts, p, i, m) : TRUE
  <2>1. src \in Sources(parts, p, i, m)
    BY <1>2
  <2> HIDE DEF src
  <2>2. src[1] \in parts /\ src[2] \in DOMAIN src[1].body
    BY <2>1 DEF Sources
  <2>3. src[1].body[src[2]] \in Value
    BY <1>1, <2>2
  <2> QED
    BY <2>3 DEF src
<1>3. Zero \in Value
  BY DEF Zero, Value
<1>4. Loaded(parts, p, m) \in [1..PartSize(m) -> Value]
  BY <1>2, <1>3 DEF Loaded
<1> QED
  BY <1>4 DEF parts

(* And so are the keys, which all have their values.                       *)
LEMMA KeysLoaded ==
  ASSUME NEW s, Whole(s), setting.kv, NEW m \in Nat \ {0}, NEW p \in 0..(m - 1)
  PROVE  LET keys == FilesOf(s, "key") IN
         /\ {kv \in UNION {f.body : f \in keys} : kv[1] % m = p} = KeysOf(p, m, s)
         /\ \A f \in keys : \E g \in FilesOf(s, "val") : g.part = f.part /\ g.body = f.body
<1> DEFINE keys == FilesOf(s, "key")
           vals == FilesOf(s, "val")
<1>1. PICK n \in 1..MaxRanks :
        /\ {<<f.part, f.body>> : f \in keys} = {<<q, KeysOf(q, n, s)>> : q \in 0..(n - 1)}
        /\ {<<f.part, f.body>> : f \in vals} = {<<q, KeysOf(q, n, s)>> : q \in 0..(n - 1)}
  BY DEF Whole, KeysOf
<1>2. n \in Nat \ {0} /\ Keys \subseteq Int /\ \A k \in Keys : k % n \in 0..(n - 1)
  BY PartsAssumption
<1> HIDE DEF keys, vals
<1>3. \A f \in keys : \E q \in 0..(n - 1) : f.part = q /\ f.body = KeysOf(q, n, s)
  <2> SUFFICES ASSUME NEW f \in keys
               PROVE  \E q \in 0..(n - 1) : f.part = q /\ f.body = KeysOf(q, n, s)
    OBVIOUS
  <2>1. <<f.part, f.body>> \in {<<q, KeysOf(q, n, s)>> : q \in 0..(n - 1)}
    BY <1>1
  <2> QED
    BY <2>1
<1>4. \A q \in 0..(n - 1) : \E f \in keys : f.part = q /\ f.body = KeysOf(q, n, s)
  <2> SUFFICES ASSUME NEW q \in 0..(n - 1)
               PROVE  \E f \in keys : f.part = q /\ f.body = KeysOf(q, n, s)
    OBVIOUS
  <2>1. <<q, KeysOf(q, n, s)>> \in {<<f.part, f.body>> : f \in keys}
    BY <1>1
  <2> QED
    BY <2>1
<1>5. \A q \in 0..(n - 1) : \E f \in vals : f.part = q /\ f.body = KeysOf(q, n, s)
  <2> SUFFICES ASSUME NEW q \in 0..(n - 1)
               PROVE  \E f \in vals : f.part = q /\ f.body = KeysOf(q, n, s)
    OBVIOUS
  <2>1. <<q, KeysOf(q, n, s)>> \in {<<f.part, f.body>> : f \in vals}
    BY <1>1
  <2> QED
    BY <2>1
<1>6. UNION {f.body : f \in keys} = {<<k, s>> : k \in Keys}
  <2>1. ASSUME NEW x \in UNION {f.body : f \in keys} PROVE x \in {<<k, s>> : k \in Keys}
    BY <1>3, <2>1 DEF KeysOf
  <2>2. ASSUME NEW k \in Keys PROVE <<k, s>> \in UNION {f.body : f \in keys}
    <3>1. PICK f \in keys : f.body = KeysOf(k % n, n, s)
      BY <1>2, <1>4
    <3> QED
      BY <3>1 DEF KeysOf
  <2> QED
    BY <2>1, <2>2
<1>7. {kv \in UNION {f.body : f \in keys} : kv[1] % m = p} = KeysOf(p, m, s)
  BY <1>6 DEF KeysOf
<1>8. \A f \in keys : \E g \in vals : g.part = f.part /\ g.body = f.body
  BY <1>3, <1>5
<1> QED
  BY <1>7, <1>8 DEF keys, vals

(* A save that nobody has anything left to do of makes a whole checkpoint. *)
LEMMA SavedWhole ==
  PartsTypeOK /\ SaveInv /\ WorkInv /\ ~Saving /\ (\E p \in Ranks : doing[p] = "saving")
    => Whole(step) /\ latest = step
<1> SUFFICES ASSUME PartsTypeOK, SaveInv, WorkInv, ~Saving,
                    NEW u \in Ranks, doing[u] = "saving"
             PROVE  Whole(step) /\ latest = step
  OBVIOUS
<1>1. size \in 1..MaxRanks /\ size \in Nat \ {0} /\ 0 \in Ranks /\ JobOK /\ FilesOK
  BY PartsAssumption DEF PartsTypeOK, Ranks
<1>2. \A p \in Ranks : doing[p] \in Works
  BY <1>1 DEF JobOK, Begins, Works
<1>3. \A p \in Ranks : ops[p] = {} /\ RowsRight(table[p], p, size, step)
                       /\ (setting.kv => pairs[p] = KeysOf(p, size, step))
  BY <1>2 DEF Saving, WorkInv, Works
<1>4. /\ \A p \in Ranks : HasFile("bin", p, table[p])
      /\ setting.kv => \A p \in Ranks : HasFile("key", p, pairs[p]) /\ HasFile("val", p, pairs[p])
      /\ \A f \in FilesOf(step, "bin") : f.part < size
      /\ FilesOf(step, "index") # {} /\ latest = step
      /\ setting.kv => \A f \in FilesOf(step, "key") \cup FilesOf(step, "val") : f.part < size
  BY <1>1, <1>3 DEF SaveInv
<1>5. \A kind : \A f, g \in FilesOf(step, kind) :
        f.part \in Nat /\ (f.part = g.part => f = g)
  BY <1>1 DEF FilesOK, FilesOf
<1>6. \A f \in FilesOf(step, "bin") : f.part \in Ranks /\ f.body = table[f.part]
  <2> SUFFICES ASSUME NEW f \in FilesOf(step, "bin")
               PROVE  f.part \in Ranks /\ f.body = table[f.part]
    OBVIOUS
  <2>1. f.part \in Ranks
    BY <1>1, <1>4, <1>5 DEF Ranks
  <2>2. PICK g \in FilesOf(step, "bin") : g.part = f.part /\ g.body = table[f.part]
    BY <1>4, <2>1 DEF HasFile
  <2> QED
    BY <1>5, <2>1, <2>2
<1>7. {f.part : f \in FilesOf(step, "bin")} = 0..(size - 1)
  BY <1>4, <1>6 DEF HasFile, Ranks
<1>8. \A f \in FilesOf(step, "bin") : Len(f.body) = PartSize(size)
  <2>1. PartSize(size) \in Nat
    BY <1>1, PartSizeBounds
  <2>2. \A p \in Ranks : Len(table[p]) = PartSize(size)
    BY <1>1, <2>1, PartIsSeq DEF JobOK
  <2> QED
    BY <1>6, <2>2
<1>9. \A r \in Rows : \A f \in FilesOf(step, "bin") :
        f.part = RankOf(r, size) => f.body[PositionOf(r, size)] = <<r, step>>
  BY <1>3, <1>6 DEF RowsRight
<1>10. ASSUME setting.kv, NEW kind \in {"key", "val"}
       PROVE  {<<f.part, f.body>> : f \in FilesOf(step, kind)} =
                {<<p, KeysOf(p, size, step)>> : p \in 0..(size - 1)}
  <2>1. ASSUME NEW f \in FilesOf(step, kind)
        PROVE  f.part \in Ranks /\ f.body = KeysOf(f.part, size, step)
    <3>1. f.part \in Ranks
      BY <1>1, <1>4, <1>5, <1>10 DEF Ranks
    <3>2. PICK g \in FilesOf(step, kind) : g.part = f.part /\ g.body = pairs[f.part]
      BY <1>4, <1>10, <3>1 DEF HasFile
    <3> QED
      BY <1>3, <1>5, <1>10, <3>1, <3>2
  <2>2. ASSUME NEW p \in Ranks
        PROVE  \E f \in FilesOf(step, kind) : f.part = p /\ f.body = KeysOf(p, size, step)
    BY <1>3, <1>4, <1>10 DEF HasFile
  <2> QED
    BY <2>1, <2>2 DEF Ranks
<1> QED
  BY <1>1, <1>4, <1>7, <1>8, <1>9, <1>10 DEF Whole, Rows, KeysOf

---------------------------------------------------------------------------
(* The files.                                                              *)

(* A file that is written takes the place of the one of its name, and what *)
(* is swept with it is none of the job's ranks'.                           *)
LEMMA FilesWritten ==
  ASSUME FilesOK, step \in Nat, size \in Nat, step' = step, size' = size,
         NEW p \in Nat, p < size, NEW kind, NEW body, NEW kinds,
         kind = "bin" => body \in Seq(Value),
         files' = Swept(Written(kind, p, body), kinds, p)
  PROVE  /\ FilesOK'
         /\ \A f : f.step # step => (f \in files' <=> f \in files)
         /\ \A f : f.kind # kind /\ f.kind \notin kinds => (f \in files' <=> f \in files)
         /\ \A f \in files : f.part < size /\ ~(f.step = step /\ f.kind = kind /\ f.part = p)
                               => f \in files'
         /\ \A f \in files' : f \in files \/ f = File(kind, p, body)
         /\ File(kind, p, body) \in files'
         /\ p = 0 => \A f \in files' : f.step = step /\ f.kind \in kinds => f.part < size
<1> DEFINE new == File(kind, p, body)
<1>1. new.step = step /\ new.kind = kind /\ new.part = p /\ new.body = body
  BY DEF File
<1> HIDE DEF new
<1>2. \A f : f \in files' <=>
        /\ f = new \/ (f \in files /\ ~(f.step = step /\ f.kind = kind /\ f.part = p))
        /\ p = 0 => ~(f.step = step /\ f.kind \in kinds /\ f.part >= size)
  BY DEF Swept, Written, new
<1>3. \A f \in files : f.part \in Nat
  BY DEF FilesOK
<1>4. FilesOK'
  BY <1>1, <1>2 DEF FilesOK
<1>5. \A f : f.step # step => (f \in files' <=> f \in files)
  BY <1>1, <1>2
<1>6. \A f : f.kind # kind /\ f.kind \notin kinds => (f \in files' <=> f \in files)
  BY <1>1, <1>2
<1>7. \A f \in files : f.part < size /\ ~(f.step = step /\ f.kind = kind /\ f.part = p)
                         => f \in files'
  BY <1>2, <1>3
<1>8. \A f \in files' : f \in files \/ f = new
  BY <1>2
<1>9. new \in files'
  BY <1>1, <1>2
<1>10. p = 0 => \A f \in files' : f.step = step /\ f.kind \in kinds => f.part < size
  BY <1>1, <1>2, <1>3
<1> QED
  BY <1>4, <1>5, <1>6, <1>7, <1>8, <1>9, <1>10 DEF new

(* A checkpoint is as whole as its files.                                  *)
LEMMA WholeKept ==
  ASSUME NEW s, Whole(s), setting' = setting,
         \A f : f.step = s => (f \in files' <=> f \in files)
  PROVE  Whole(s)'
<1>1. \A kind : {f \in files' : f.step = s /\ f.kind = kind} = FilesOf(s, kind)
  BY DEF FilesOf
<1> QED
  BY <1>1 DEF Whole, FilesOf

---------------------------------------------------------------------------
(* Each step.                                                              *)

(* There are ranks while a job runs.                                       *)
LEMMA RanksOfJob ==
  ASSUME PartsTypeOK, NEW p \in Ranks
  PROVE  /\ size \in 1..MaxRanks /\ size \in Nat \ {0} /\ 0 \in Ranks /\ JobOK
         /\ p \in Nat /\ p < size /\ p \in 0..(size - 1)
  BY PartsAssumption DEF PartsTypeOK, Ranks

(* The steps of a restore.                                                 *)
LEMMA RestoreStep ==
  ASSUME PartsInv, NEW p \in Ranks,
         RestoreDense(p) \/ RestoreKv(p) \/ RestoreVariables(p) \/ Restored(p)
  PROVE  PartsInv'
<1>1. /\ PartsTypeOK /\ FilesOK /\ JobOK /\ size \in Nat \ {0} /\ p \in 0..(size - 1)
      /\ doing \in [Ranks -> Begins \cup Works] /\ ops \in [Ranks -> SUBSET Kinds]
      /\ table \in [Ranks -> [1..PartSize(size) -> Value]] /\ DOMAIN pairs = Ranks
  BY RanksOfJob DEF PartsInv, PartsTypeOK, JobOK
<1>2. /\ setting' = setting /\ size' = size /\ step' = step /\ files' = files
      /\ latest' = latest /\ torn' = torn /\ Ranks' = Ranks
  BY DEF RestoreDense, RestoreKv, RestoreVariables, Restored, Ranks
<1>3. doing[p] = "restoring"
  BY DEF RestoreDense, RestoreKv, RestoreVariables, Restored
<1>4. \A q \in Ranks : doing[q] \in Begins
  BY <1>1, <1>3 DEF JobOK, Begins, Works
<1>5. doing' = doing \/ \E d \in {"restored", "failed"} : doing' = [doing EXCEPT ![p] = d]
  BY DEF RestoreDense, RestoreKv, RestoreVariables, Restored
<1>6. /\ doing' \in [Ranks -> Begins \cup Works] /\ \A q \in Ranks : doing'[q] \in Begins
      /\ \A q \in Ranks \ {p} : doing'[q] = doing[q]
  BY <1>1, <1>4, <1>5 DEF Begins
<1>7. ops' = ops \/ \E op \in Kinds : ops' = [ops EXCEPT ![p] = @ \ {op}]
  BY DEF RestoreDense, RestoreKv, RestoreVariables, Restored, Kinds
<1>8. ops' \in [Ranks -> SUBSET Kinds] /\ \A q \in Ranks \ {p} : ops'[q] = ops[q]
  BY <1>1, <1>7
<1>9. /\ table' \in [Ranks -> [1..PartSize(size) -> Value]]
      /\ \A q \in Ranks \ {p} : table'[q] = table[q]
  BY <1>1, LoadedType DEF RestoreDense, RestoreKv, RestoreVariables, Restored
<1>10. DOMAIN pairs' = Ranks /\ \A q \in Ranks \ {p} : pairs'[q] = pairs[q]
  BY <1>1 DEF RestoreDense, RestoreKv, RestoreVariables, Restored
<1>11. PartsTypeOK'
  BY <1>1, <1>2, <1>6, <1>8, <1>9, <1>10 DEF PartsTypeOK, FilesOK, JobOK, PartSize
<1> SUFFICES ASSUME ~torn PROVE RestoreInv' /\ WorkInv' /\ SaveInv' /\ LatestInv'
  BY <1>2, <1>11 DEF PartsInv
<1>12. RestoreInv /\ LatestInv
  BY DEF PartsInv
<1>13. WorkInv' /\ SaveInv' /\ ~Saving' /\ ~Saving
  BY <1>2, <1>4, <1>6 DEF WorkInv, SaveInv, Saving, Begins, Works
<1>14. LatestInv'
  BY <1>2, <1>12, <1>13, WholeKept DEF LatestInv
<1>15. /\ "bin" \notin ops[p] => RowsRight(table[p], p, size, step)
       /\ "key" \notin ops[p] /\ setting.kv => pairs[p] = KeysOf(p, size, step)
       /\ "key" \in ops[p] => setting.kv
       /\ step = (IF latest = -1 THEN 0 ELSE latest) /\ (latest = -1 => ops[p] = {})
  BY <1>3, <1>12 DEF RestoreInv, Begins
<1>16. latest # -1 => Whole(latest) /\ step = latest
  BY <1>12, <1>13, <1>15 DEF LatestInv
<1>17. /\ "bin" \notin ops'[p] => RowsRight(table'[p], p, size, step)
       /\ "key" \notin ops'[p] /\ setting.kv => pairs'[p] = KeysOf(p, size, step)
       /\ "key" \in ops'[p] => setting.kv
       /\ latest = -1 => ops'[p] = {}
       /\ doing'[p] = "failed" => setting.kv /\ ~setting.lib
       /\ doing'[p] = "restored" => ops'[p] = {}
  <2>1. CASE RestoreDense(p)
    <3>1. "bin" \in ops[p] /\ ops'[p] = ops[p] \ {"bin"} /\ pairs' = pairs
      BY <1>1, <2>1 DEF RestoreDense
    <3>2. latest # -1 /\ step = latest
      BY <1>15, <1>16, <3>1
    <3>3. /\ RowsRight(Loaded(FilesOf(latest, "bin"), p, size), p, size, latest)
          /\ Filled(FilesOf(latest, "bin"), p, size)
      BY <1>1, <1>16, <3>2, LoadedRight
    <3>4. table'[p] = Loaded(FilesOf(latest, "bin"), p, size) /\ doing' = doing
      BY <1>1, <2>1, <3>3 DEF RestoreDense
    <3> QED
      BY <1>3, <1>15, <3>1, <3>2, <3>3, <3>4
  <2>2. CASE RestoreKv(p)
    <3>1. "key" \in ops[p] /\ ops'[p] = ops[p] \ {"key"} /\ table' = table
      BY <1>1, <2>2 DEF RestoreKv
    <3>2. latest # -1 /\ step = latest
      BY <1>15, <1>16, <3>1
    <3>3. pairs'[p] = {kv \in UNION {f.body : f \in FilesOf(latest, "key")} : kv[1] % size = p}
      BY <1>1, <2>2 DEF RestoreKv
    <3>4. setting.kv => pairs'[p] = KeysOf(p, size, latest)
      BY <1>1, <1>16, <3>2, <3>3, KeysLoaded
    <3>5. setting.kv /\ setting.lib => doing' = doing
      <4> SUFFICES ASSUME setting.kv, setting.lib PROVE doing' = doing
        OBVIOUS
      <4>1. \A f \in FilesOf(latest, "key") :
              \E g \in FilesOf(latest, "val") : g.part = f.part /\ g.body = f.body
        BY <1>1, <1>16, <3>2, KeysLoaded
      <4> QED
        BY <2>2, <4>1 DEF RestoreKv
    <3>6. doing' = doing \/ doing'[p] = "failed"
      BY <1>1, <2>2 DEF RestoreKv
    <3>7. setting.kv
      BY <1>15, <3>1
    <3> QED
      BY <1>3, <1>15, <3>1, <3>2, <3>4, <3>5, <3>6, <3>7
  <2>3. CASE RestoreVariables(p)
    <3>1. "index" \in ops[p] /\ ops'[p] = ops[p] \ {"index"} /\ table' = table /\ pairs' = pairs
      BY <1>1, <2>3 DEF RestoreVariables
    <3>2. latest # -1
      BY <1>15, <3>1
    <3>3. FilesOf(latest, "index") # {}
      BY <1>16, <3>2 DEF Whole
    <3>4. doing' = doing
      BY <2>3, <3>3 DEF RestoreVariables
    <3> QED
      BY <1>3, <1>15, <3>1, <3>4
  <2>4. CASE Restored(p)
    <3>1. ops[p] = {} /\ ops' = ops /\ table' = table /\ pairs' = pairs /\ doing'[p] = "restored"
      BY <1>1, <2>4 DEF Restored
    <3> QED
      BY <1>15, <3>1
  <2> QED
    BY <2>1, <2>2, <2>3, <2>4
<1>18. RestoreInv'
  BY <1>2, <1>6, <1>8, <1>9, <1>10, <1>12, <1>15, <1>17 DEF RestoreInv
<1> QED
  BY <1>13, <1>14, <1>18

(* A job starts: each rank has its initial values, and the files are those *)
(* that the jobs before have left.                                         *)
LEMMA LaunchStep ==
  ASSUME PartsInv, NEW n \in 1..MaxRanks, Launch(n)
  PROVE  PartsInv'
<1>1. /\ setting' = setting /\ files' = files /\ latest' = latest /\ torn' = torn
      /\ size = 0 /\ size' = n /\ step' = (IF latest = -1 THEN 0 ELSE latest)
      /\ doing' = [p \in 0..(n - 1) |-> "restoring"]
      /\ ops' = [p \in 0..(n - 1) |-> IF latest = -1 THEN {} ELSE FilesRead]
      /\ table' = [p \in 0..(n - 1) |-> Fresh(p, n)]
      /\ pairs' = [p \in 0..(n - 1) |-> {<<k, 0>> : k \in {k \in Keys : setting.kv /\ k % n = p}}]
  BY DEF Launch
<1>2. n \in Nat \ {0} /\ n \in 0..MaxRanks /\ Ranks' = 0..(n - 1) /\ Ranks = {}
  BY <1>1, PartsAssumption DEF Ranks
<1>3. FilesRead \subseteq Kinds /\ "bin" \in FilesRead /\ (setting.kv <=> "key" \in FilesRead)
  BY DEF FilesRead, Kinds
<1>4. JobOK'
  BY <1>1, <1>2, <1>3, FreshRight DEF JobOK, Begins
<1>5. PartsTypeOK'
  BY <1>1, <1>2, <1>4 DEF PartsInv, PartsTypeOK, FilesOK
<1> SUFFICES ASSUME ~torn PROVE RestoreInv' /\ WorkInv' /\ SaveInv' /\ LatestInv'
  BY <1>1, <1>5 DEF PartsInv
<1>6. WorkInv' /\ SaveInv' /\ ~Saving' /\ ~Saving
  BY <1>1, <1>2 DEF WorkInv, SaveInv, Saving, Works
<1>7. LatestInv'
  BY <1>1, <1>6, WholeKept DEF PartsInv, LatestInv
<1>8. ASSUME NEW p \in 0..(n - 1)
      PROVE  /\ "bin" \notin ops'[p] => RowsRight(table'[p], p, n, step')
             /\ "key" \notin ops'[p] /\ setting.kv => pairs'[p] = KeysOf(p, n, step')
             /\ "key" \in ops'[p] => setting.kv
             /\ latest = -1 => ops'[p] = {}
             /\ doing'[p] = "restoring"
  <2>1. latest = -1 => RowsRight(table'[p], p, n, 0)
    BY <1>1, <1>2, FreshRight
  <2>2. setting.kv => pairs'[p] = KeysOf(p, n, 0)
    BY <1>1 DEF KeysOf
  <2>3. ops'[p] = (IF latest = -1 THEN {} ELSE FilesRead) /\ doing'[p] = "restoring"
    BY <1>1
  <2> QED
    BY <1>1, <1>3, <2>1, <2>2, <2>3
<1>9. RestoreInv'
  BY <1>1, <1>2, <1>8 DEF RestoreInv
<1> QED
  BY <1>6, <1>7, <1>9

(* The broadcast: all ranks have the rows and keys of the checkpoint.      *)
LEMMA BroadcastStep ==
  ASSUME PartsInv, Broadcast
  PROVE  PartsInv'
<1>1. /\ setting' = setting /\ files' = files /\ latest' = latest /\ torn' = torn
      /\ size' = size /\ size > 0 /\ step' = step /\ table' = table /\ pairs' = pairs
      /\ doing' = [p \in Ranks |-> "saving"] /\ ops' = [p \in Ranks |-> SaveOps(p)]
      /\ \A p \in Ranks : doing[p] = "restored"
  BY DEF Broadcast
<1>2. PartsTypeOK /\ JobOK /\ size \in Nat \ {0} /\ 0 \in Ranks /\ Ranks' = Ranks
  BY <1>1, PartsAssumption DEF PartsInv, PartsTypeOK, Ranks
<1>3. \A p \in Ranks : /\ SaveOps(p) \subseteq Kinds /\ {"bin", "state"} \subseteq SaveOps(p)
                       /\ setting.kv => "key" \in SaveOps(p)
                       /\ "index" \in SaveOps(0)
  BY DEF SaveOps, FilesRead, Kinds
<1>4. PartsTypeOK'
  BY <1>1, <1>2, <1>3 DEF PartsTypeOK, FilesOK, JobOK, PartSize, Works
<1> SUFFICES ASSUME ~torn PROVE RestoreInv' /\ WorkInv' /\ SaveInv' /\ LatestInv'
  BY <1>1, <1>4 DEF PartsInv
<1>5. \A p \in Ranks : /\ RowsRight(table[p], p, size, step)
                       /\ setting.kv => pairs[p] = KeysOf(p, size, step)
                       /\ step = (IF latest = -1 THEN 0 ELSE latest)
  BY <1>1 DEF PartsInv, RestoreInv, Begins
<1>6. RestoreInv' /\ WorkInv'
  BY <1>1, <1>2, <1>5 DEF RestoreInv, WorkInv, Begins
<1>7. SaveInv'
  BY <1>1, <1>2, <1>3 DEF SaveInv
<1>8. ~Saving
  BY <1>1 DEF Saving
<1>9. LatestInv'
  BY <1>1, <1>8, WholeKept DEF PartsInv, LatestInv
<1> QED
  BY <1>6, <1>7, <1>9

(* All ranks train a step, and begin to save it if it is one to save.      *)
LEMMA TrainStepStep ==
  ASSUME PartsInv, TrainStep
  PROVE  PartsInv'
<1> DEFINE Trained(p) == [i \in DOMAIN table[p] |->
             IF RowId(p, i, size) < NumBuckets THEN <<table[p][i][1], step'>> ELSE table[p][i]]
<1>1. /\ setting' = setting /\ files' = files /\ latest' = latest /\ torn' = torn
      /\ size' = size /\ size > 0 /\ step' = step + 1 /\ \A p \in Ranks : doing[p] = "training"
      /\ table' = [p \in Ranks |-> Trained(p)]
      /\ pairs' = [p \in Ranks |-> {<<kv[1], step'>> : kv \in pairs[p]}]
  BY DEF TrainStep
<1>2. \/ doing' = [p \in Ranks |-> "saving"] /\ ops' = [p \in Ranks |-> SaveOps(p)]
      \/ doing' = doing /\ ops' = ops
  BY DEF TrainStep
<1>3. /\ PartsTypeOK /\ JobOK /\ size \in Nat \ {0}
      /\ 0 \in Ranks /\ Ranks' = Ranks /\ Ranks = 0..(size - 1)
      /\ step \in Nat /\ step' \in Nat
  BY <1>1, PartsAssumption DEF PartsInv, PartsTypeOK, Ranks
<1>4. \A p \in Ranks : /\ SaveOps(p) \subseteq Kinds /\ {"bin", "state"} \subseteq SaveOps(p)
                       /\ setting.kv => "key" \in SaveOps(p)
                       /\ "index" \in SaveOps(0)
  BY DEF SaveOps, FilesRead, Kinds
<1>5. \A p \in Ranks : Trained(p) \in [1..PartSize(size) -> Value]
  <2> SUFFICES ASSUME NEW p \in Ranks PROVE Trained(p) \in [1..PartSize(size) -> Value]
    OBVIOUS
  <2>1. table[p] \in [1..PartSize(size) -> Value]
    BY <1>3 DEF JobOK
  <2>2. \A i \in 1..PartSize(size) : table[p][i] \in Value /\ <<table[p][i][1], step'>> \in Value
    BY <1>3, <2>1 DEF Value
  <2>3. DOMAIN table[p] = 1..PartSize(size)
    BY <2>1
  <2> QED
    BY <2>2, <2>3
<1>6. /\ doing' \in [Ranks -> Begins \cup Works] /\ ops' \in [Ranks -> SUBSET Kinds]
      /\ \A p \in Ranks : doing'[p] \in Works
  <2>1. CASE doing' = [p \in Ranks |-> "saving"] /\ ops' = [p \in Ranks |-> SaveOps(p)]
    BY <1>4, <2>1 DEF Works
  <2>2. CASE doing' = doing /\ ops' = ops
    BY <1>1, <1>3, <2>2 DEF JobOK, Works
  <2> QED
    BY <1>2, <2>1, <2>2
<1>7. table' \in [Ranks -> [1..PartSize(size) -> Value]] /\ DOMAIN pairs' = Ranks
  BY <1>1, <1>5
<1>8. PartsTypeOK'
  BY <1>1, <1>3, <1>6, <1>7 DEF PartsTypeOK, FilesOK, JobOK, PartSize
<1> SUFFICES ASSUME ~torn PROVE RestoreInv' /\ WorkInv' /\ SaveInv' /\ LatestInv'
  BY <1>1, <1>8 DEF PartsInv
<1>9. \A p \in Ranks : /\ RowsRight(table[p], p, size, step) /\ ops[p] = {}
                       /\ setting.kv => pairs[p] = KeysOf(p, size, step)
  BY <1>1 DEF PartsInv, WorkInv, Works
<1>10. \A p \in Ranks : RowsRight(table'[p], p, size, step')
  <2> SUFFICES ASSUME NEW p \in Ranks PROVE RowsRight(Trained(p), p, size, step')
    BY <1>1
  <2>1. table[p] \in [1..PartSize(size) -> Value] /\ p \in 0..(size - 1)
    BY <1>3 DEF JobOK
  <2> QED
    BY <1>3, <1>9, <2>1, TrainedRight
<1> HIDE DEF Trained
<1>11. ASSUME NEW p \in Ranks, setting.kv PROVE pairs'[p] = KeysOf(p, size, step')
  <2>1. pairs[p] = {<<k, step>> : k \in {k \in Keys : k % size = p}}
    BY <1>9, <1>11 DEF KeysOf
  <2>2. pairs'[p] = {<<kv[1], step'>> : kv \in pairs[p]}
    BY <1>1
  <2> DEFINE K == {k \in Keys : k % size = p}
  <2>3. pairs[p] = {<<k, step>> : k \in K}
    BY <2>1
  <2> HIDE DEF K
  <2>4. ASSUME NEW x \in pairs'[p] PROVE \E k \in K : x = <<k, step'>>
    BY <2>2, <2>3
  <2>5. ASSUME NEW k \in K PROVE <<k, step'>> \in pairs'[p]
    <3>1. <<k, step>> \in pairs[p] /\ <<k, step>>[1] = k
      BY <2>3
    <3> QED
      BY <2>2, <3>1
  <2>6. pairs'[p] = {<<k, step'>> : k \in K}
    BY <2>4, <2>5
  <2> QED
    BY <2>6 DEF KeysOf, K
<1>12. RestoreInv'
  BY <1>3, <1>6 DEF RestoreInv, Begins, Works
<1>13. WorkInv'
  <2>1. \A p \in Ranks : doing'[p] = "training" => ops'[p] = {}
    BY <1>2, <1>9
  <2> QED
    BY <1>1, <1>3, <1>10, <1>11, <2>1 DEF WorkInv
<1>14. SaveInv'
  <2>1. CASE doing' = [p \in Ranks |-> "saving"] /\ ops' = [p \in Ranks |-> SaveOps(p)]
    BY <1>1, <1>3, <1>4, <2>1 DEF SaveInv
  <2>2. CASE doing' = doing /\ ops' = ops
    BY <1>1, <1>3, <2>2 DEF SaveInv
  <2> QED
    BY <1>2, <2>1, <2>2
<1>15. ~Saving
  BY <1>1 DEF Saving
<1>16. LatestInv'
  BY <1>1, <1>15, WholeKept DEF PartsInv, LatestInv
<1> QED
  BY <1>12, <1>13, <1>14, <1>16

(* The job is gone: what it has not announced is of no other checkpoint.   *)
LEMMA GoneStep ==
  ASSUME PartsInv, Gone
  PROVE  PartsInv'
<1>1. /\ setting' = setting /\ files' = files /\ latest' = latest /\ step' = step
      /\ size' = 0 /\ torn' = (torn \/ (Saving /\ latest = step))
  BY DEF Gone
<1>2. Ranks' = {}
  BY <1>1 DEF Ranks
<1>3. PartsTypeOK'
  BY <1>1, PartsAssumption DEF PartsInv, PartsTypeOK, FilesOK
<1>4. RestoreInv' /\ WorkInv' /\ SaveInv' /\ ~Saving'
  BY <1>2 DEF RestoreInv, WorkInv, SaveInv, Saving
<1>5. ~torn' => LatestInv'
  BY <1>1, WholeKept DEF PartsInv, LatestInv
<1> QED
  BY <1>3, <1>4, <1>5 DEF PartsInv

(* A rank has saved.                                                       *)
LEMMA SavedStep ==
  ASSUME PartsInv, NEW p \in Ranks, Saved(p)
  PROVE  PartsInv'
<1>1. /\ setting' = setting /\ files' = files /\ latest' = latest /\ torn' = torn
      /\ size' = size /\ step' = step /\ table' = table /\ pairs' = pairs /\ ops' = ops
      /\ doing[p] = "saving" /\ ops[p] = {} /\ doing' = [doing EXCEPT ![p] = "training"]
  BY DEF Saved
<1>2. PartsTypeOK /\ JobOK /\ Ranks' = Ranks /\ doing \in [Ranks -> Begins \cup Works]
  BY <1>1, RanksOfJob DEF PartsInv, JobOK, Ranks
<1>3. \A q \in Ranks : doing[q] \in Works /\ doing'[q] \in Works
  BY <1>1, <1>2 DEF JobOK, Begins, Works
<1>4. doing' \in [Ranks -> Begins \cup Works]
  BY <1>1, <1>2 DEF Works
<1>5. PartsTypeOK'
  BY <1>1, <1>2, <1>3, <1>4 DEF PartsTypeOK, FilesOK, JobOK, PartSize
<1> SUFFICES ASSUME ~torn PROVE RestoreInv' /\ WorkInv' /\ SaveInv' /\ LatestInv'
  BY <1>1, <1>5 DEF PartsInv
<1>6. RestoreInv' /\ WorkInv'
  BY <1>1, <1>2, <1>3 DEF PartsInv, RestoreInv, WorkInv, Begins, Works
<1>7. SaveInv'
  BY <1>1, <1>2 DEF PartsInv, SaveInv, HasFile, FilesOf
<1>8. Saving' <=> Saving
  BY <1>1, <1>2 DEF Saving
<1>9. LatestInv'
  BY <1>1, <1>8, WholeKept DEF PartsInv, LatestInv
<1> QED
  BY <1>6, <1>7, <1>9

(* What a write of a rank leaves alone.                                    *)
LEMMA WritingTyped ==
  ASSUME PartsInv, NEW p \in Ranks, NEW op, NEW next \in SUBSET Kinds, Does(p, op, next),
         FilesOK', latest' \in {latest, step}
  PROVE  /\ PartsTypeOK' /\ torn' = torn
         /\ ~torn => RestoreInv' /\ WorkInv'
<1>1. /\ setting' = setting /\ torn' = torn
      /\ size' = size /\ step' = step /\ table' = table /\ pairs' = pairs
      /\ doing[p] = "saving" /\ doing' = doing /\ ops' = [ops EXCEPT ![p] = (@ \ {op}) \cup next]
  BY DEF Does
<1>2. PartsTypeOK /\ JobOK /\ Ranks' = Ranks /\ ops \in [Ranks -> SUBSET Kinds]
  BY <1>1, RanksOfJob DEF PartsInv, JobOK, Ranks
<1>3. \A q \in Ranks : doing[q] \in Works
  BY <1>1, <1>2 DEF JobOK, Begins, Works
<1>4. ops' \in [Ranks -> SUBSET Kinds]
  BY <1>1, <1>2
<1>5. PartsTypeOK'
  BY <1>1, <1>2, <1>4 DEF PartsTypeOK, JobOK, PartSize
<1>6. ASSUME ~torn PROVE RestoreInv' /\ WorkInv'
  <2>1. RestoreInv'
    BY <1>1, <1>2, <1>3 DEF RestoreInv, Begins, Works
  <2>2. \A q \in Ranks : doing[q] = "training" => ops'[q] = ops[q]
    BY <1>1, <1>2
  <2>3. WorkInv'
    BY <1>1, <1>2, <1>6, <2>2 DEF PartsInv, WorkInv
  <2> QED
    BY <2>1, <2>3
<1> QED
  BY <1>1, <1>5, <1>6

(* And so does the last step of a save.                                    *)
LEMMA SavedWholeNext ==
  (PartsTypeOK /\ SaveInv /\ WorkInv /\ ~Saving /\ (\E p \in Ranks : doing[p] = "saving")
     => Whole(step) /\ latest = step)'
  BY SavedWhole, PTL

(* A write that makes no other checkpoint's files other ones.              *)
LEMMA LatestStep ==
  ASSUME PartsInv, ~torn, NEW p \in Ranks, NEW op, NEW next, Does(p, op, next),
         latest' \in {latest, step}, PartsTypeOK', SaveInv', WorkInv',
         \A f : f.step # step => (f \in files' <=> f \in files)
  PROVE  LatestInv'
<1>1. setting' = setting /\ step' = step /\ Ranks' = Ranks /\ doing'[p] = "saving"
  BY DEF Does, Ranks
<1>2. CASE latest' = step
  <2>1. (PartsTypeOK /\ SaveInv /\ WorkInv /\ ~Saving /\ (\E q \in Ranks : doing[q] = "saving")
           => Whole(step) /\ latest = step)'
    BY SavedWholeNext
  <2>2. ~Saving' => Whole(step)'
    BY <1>1, <2>1
  <2>3. latest' = step'
    BY <1>1, <1>2
  <2>4. Whole(step)' => Whole(latest)'
    BY <2>3, SMTT(60) DEF Whole, PartSize, FilesOf
  <2> QED
    BY <2>2, <2>3, <2>4, Zenon DEF LatestInv
<1>3. CASE latest' # step
  <2>1. latest' = latest /\ (latest # -1 => Whole(latest))
    BY <1>3 DEF PartsInv, LatestInv
  <2>2. latest # -1 => Whole(latest)'
    BY <1>1, <1>3, <2>1, WholeKept
  <2> QED
    BY <2>1, <2>2 DEF LatestInv
<1> QED
  BY <1>2, <1>3

(* A rank writes a file of its part.                                       *)
LEMMA WriteStep ==
  ASSUME PartsInv, NEW p \in Ranks,
         WriteDense(p) \/ WriteKeys(p) \/ WriteValues(p) \/ WriteIndex(p)
  PROVE  PartsInv'
<1>1. /\ PartsTypeOK /\ FilesOK /\ JobOK /\ size \in Nat \ {0} /\ step \in Nat /\ 0 \in Ranks
      /\ p \in Nat /\ p < size /\ ops \in [Ranks -> SUBSET Kinds]
  BY RanksOfJob DEF PartsInv, PartsTypeOK, JobOK
<1>2. PICK op \in Kinds, next \in SUBSET Kinds, kind \in Kinds,
           kinds \in SUBSET Kinds, body \in {table[p], pairs[p], {}} :
        /\ Does(p, op, next) /\ latest' = latest
        /\ files' = Swept(Written(kind, p, body), kinds, p)
        /\ \/ op = "bin" /\ next = {} /\ kind = "bin" /\ kinds = {"bin"} /\ body = table[p]
           \/ op = "key" /\ next = {"val"} /\ kind = "key" /\ kinds = {} /\ body = pairs[p]
           \/ op = "val" /\ next = {} /\ kind = "val" /\ kinds = {"key", "val"} /\ body = pairs[p]
           \/ op = "index" /\ next = {} /\ kind = "index" /\ kinds = {} /\ body = {}
  <2>1. \A F : Swept(F, {}, p) = F
    BY DEF Swept
  <2>2. {"bin", "key", "val", "index"} \subseteq Kinds
    BY DEF Kinds
  <2>3. CASE WriteDense(p)
    BY <2>2, <2>3 DEF WriteDense
  <2>4. CASE WriteKeys(p)
    BY <2>1, <2>2, <2>4 DEF WriteKeys
  <2>5. CASE WriteValues(p)
    BY <2>2, <2>5 DEF WriteValues
  <2>6. CASE WriteIndex(p)
    BY <2>1, <2>2, <2>6 DEF WriteIndex
  <2> QED
    BY <2>3, <2>4, <2>5, <2>6
<1>3. /\ setting' = setting /\ size' = size /\ step' = step /\ table' = table /\ pairs' = pairs
      /\ doing[p] = "saving" /\ doing' = doing /\ Ranks' = Ranks
      /\ op \in ops[p] /\ ops' = [ops EXCEPT ![p] = (@ \ {op}) \cup next]
  BY <1>2 DEF Does, Ranks
<1>4. kind = "bin" => body \in Seq(Value)
  <2>1. table[p] \in [1..PartSize(size) -> Value] /\ PartSize(size) \in Nat
    BY <1>1, PartSizeBounds DEF JobOK
  <2> QED
    BY <1>2, <2>1, PartIsSeq
<1>5. /\ FilesOK'
      /\ \A f : f.step # step => (f \in files' <=> f \in files)
      /\ \A f : f.kind # kind /\ f.kind \notin kinds => (f \in files' <=> f \in files)
      /\ \A f \in files : f.part < size /\ ~(f.step = step /\ f.kind = kind /\ f.part = p)
                            => f \in files'
      /\ \A f \in files' : f \in files \/ f = File(kind, p, body)
      /\ File(kind, p, body) \in files'
      /\ p = 0 => \A f \in files' : f.step = step /\ f.kind \in kinds => f.part < size
  BY <1>1, <1>2, <1>3, <1>4, FilesWritten
<1>6. PartsTypeOK' /\ torn' = torn /\ (~torn => RestoreInv' /\ WorkInv')
  BY <1>2, <1>5, WritingTyped
<1> SUFFICES ASSUME ~torn PROVE SaveInv' /\ LatestInv'
  BY <1>6 DEF PartsInv
<1>7. /\ \A q \in Ranks :
           /\ "bin" \notin ops[q] => HasFile("bin", q, table[q])
           /\ setting.kv /\ "key" \notin ops[q] => HasFile("key", q, pairs[q])
           /\ setting.kv /\ ops[q] \cap {"key", "val"} = {} => HasFile("val", q, pairs[q])
           /\ "state" \notin ops[q] => latest = step
      /\ "bin" \notin ops[0] => \A f \in FilesOf(step, "bin") : f.part < size
      /\ "index" \notin ops[0] => FilesOf(step, "index") # {}
      /\ setting.kv /\ ops[0] \cap {"key", "val"} = {} =>
           \A f \in FilesOf(step, "key") \cup FilesOf(step, "val") : f.part < size
  BY <1>3 DEF PartsInv, SaveInv
<1>8. \A q \in Ranks : q \in Nat /\ q < size
  BY <1>1 DEF Ranks
<1>9. ASSUME NEW q \in Ranks, NEW k \in Kinds, NEW b, k # kind \/ q # p, HasFile(k, q, b)
      PROVE  \E f \in files' : f.step = step /\ f.kind = k /\ f.part = q /\ f.body = b
  <2>1. PICK f \in files : f.step = step /\ f.kind = k /\ f.part = q /\ f.body = b
    BY <1>9 DEF HasFile, FilesOf
  <2> QED
    BY <1>5, <1>8, <1>9, <2>1
<1>10. \E f \in files' : f.step = step /\ f.kind = kind /\ f.part = p /\ f.body = body
  BY <1>5 DEF File
<1>11. \A q \in Ranks \ {p} : ops'[q] = ops[q]
  BY <1>1, <1>3
<1>12. ops'[p] = (ops[p] \ {op}) \cup next
  BY <1>1, <1>3
<1> DEFINE Has(k, q, b) == \E f \in files' : f.step = step /\ f.kind = k /\ f.part = q /\ f.body = b
<1>13. ASSUME NEW q \in Ranks
       PROVE  /\ "bin" \notin ops'[q] => Has("bin", q, table[q])
              /\ setting.kv /\ "key" \notin ops'[q] => Has("key", q, pairs[q])
              /\ setting.kv /\ ops'[q] \cap {"key", "val"} = {} => Has("val", q, pairs[q])
              /\ "state" \notin ops'[q] => latest = step
  <2> HIDE DEF Has
  <2>1. \A k \in Kinds : \A b : (k # kind \/ q # p) /\ HasFile(k, q, b) => Has(k, q, b)
    BY <1>9 DEF Has
  <2>2. Has(kind, p, body)
    BY <1>10 DEF Has
  <2>3. CASE q # p
    BY <1>7, <1>11, <2>1, <2>3 DEF Kinds
  <2>4. CASE q = p
    BY <1>2, <1>7, <1>12, <2>1, <2>2, <2>4 DEF Kinds
  <2> QED
    BY <2>3, <2>4
<1>14. /\ "bin" \notin ops'[0] => \A f \in files' : f.step = step /\ f.kind = "bin" => f.part < size
       /\ "index" \notin ops'[0] => \E f \in files' : f.step = step /\ f.kind = "index"
       /\ setting.kv /\ ops'[0] \cap {"key", "val"} = {} =>
            \A f \in files' : f.step = step /\ f.kind \in {"key", "val"} => f.part < size
  <2>1. \A f \in files' : f \in files \/ (f.kind = kind /\ f.part = p /\ f.part < size)
    BY <1>1, <1>5 DEF File
  <2>2. /\ "bin" \notin ops[0] => \A f \in files : f.step = step /\ f.kind = "bin" => f.part < size
        /\ "index" \notin ops[0] => \E f \in files : f.step = step /\ f.kind = "index"
        /\ setting.kv /\ ops[0] \cap {"key", "val"} = {} =>
             \A f \in files : f.step = step /\ f.kind \in {"key", "val"} => f.part < size
    BY <1>7 DEF FilesOf
  <2>3. "index" \notin ops'[0] => \E f \in files' : f.step = step /\ f.kind = "index"
    <3>1. CASE kind = "index"
      BY <1>10, <3>1
    <3>2. CASE kind # "index"
      <4>1. "index" \notin kinds /\ ("index" \notin ops'[0] => "index" \notin ops[0])
        BY <1>1, <1>2, <1>11, <1>12, <3>2
      <4> QED
        BY <1>5, <2>2, <3>2, <4>1
    <3> QED
      BY <3>1, <3>2
  <2>4. CASE p # 0
    <3>1. ops'[0] = ops[0]
      BY <1>1, <1>11, <2>4
    <3> QED
      BY <2>1, <2>2, <2>3, <3>1
  <2>5. CASE p = 0
    <3>1. \A f \in files' : f.step = step /\ f.kind \in kinds => f.part < size
      BY <1>5, <2>5
    <3>2. CASE kind = "bin"
      <4>1. ops'[0] \cap {"key", "val"} = ops[0] \cap {"key", "val"} /\ kinds = {"bin"}
        BY <1>2, <1>12, <2>5, <3>2
      <4> QED
        BY <2>1, <2>2, <2>3, <3>1, <3>2, <4>1
    <3>3. CASE kind = "key"
      <4>1. "val" \in ops'[0] /\ ("bin" \notin ops'[0] => "bin" \notin ops[0])
        BY <1>2, <1>12, <2>5, <3>3
      <4> QED
        BY <2>1, <2>2, <2>3, <3>3, <4>1
    <3>4. CASE kind = "val"
      <4>1. kinds = {"key", "val"} /\ ("bin" \notin ops'[0] => "bin" \notin ops[0])
        BY <1>2, <1>12, <2>5, <3>4
      <4> QED
        BY <2>1, <2>2, <2>3, <3>1, <3>4, <4>1
    <3>5. CASE kind = "index"
      <4>1. /\ "bin" \notin ops'[0] => "bin" \notin ops[0]
            /\ ops'[0] \cap {"key", "val"} = ops[0] \cap {"key", "val"}
        BY <1>2, <1>12, <2>5, <3>5
      <4> QED
        BY <2>1, <2>2, <2>3, <3>5, <4>1
    <3> QED
      BY <1>2, <3>2, <3>3, <3>4, <3>5
  <2> QED
    BY <2>4, <2>5
<1>15. SaveInv'
  <2>1. \A k, q, b : Has(k, q, b) => \E f \in {f \in files' : f.step = step /\ f.kind = k} :
                                       f.part = q /\ f.body = b
    OBVIOUS
  <2> HIDE DEF Has
  <2> QED
    BY <1>2, <1>3, <1>13, <1>14, <2>1 DEF SaveInv, HasFile, FilesOf
<1>16. LatestInv'
  BY <1>2, <1>5, <1>6, <1>15, LatestStep
<1> QED
  BY <1>15, <1>16

(* The first rank to be done announces the checkpoint.                     *)
LEMMA AnnounceStep ==
  ASSUME PartsInv, NEW p \in Ranks, WriteState(p)
  PROVE  PartsInv'
<1>1. /\ Does(p, "state", {}) /\ files' = files /\ latest' = step /\ ops[p] = {"state"}
      /\ setting' = setting /\ size' = size /\ step' = step /\ table' = table /\ pairs' = pairs
      /\ doing[p] = "saving" /\ doing' = doing /\ ops' = [ops EXCEPT ![p] = (@ \ {"state"}) \cup {}]
  BY DEF WriteState, Does
<1>2. /\ PartsTypeOK /\ FilesOK /\ JobOK /\ 0 \in Ranks /\ Ranks' = Ranks
      /\ ops \in [Ranks -> SUBSET Kinds]
  BY <1>1, RanksOfJob DEF PartsInv, PartsTypeOK, JobOK, Ranks
<1>3. FilesOK'
  BY <1>1, <1>2 DEF FilesOK
<1>4. PartsTypeOK' /\ torn' = torn /\ (~torn => RestoreInv' /\ WorkInv')
  BY <1>1, <1>3, WritingTyped
<1> SUFFICES ASSUME ~torn PROVE SaveInv' /\ LatestInv'
  BY <1>4 DEF PartsInv
<1>5. \A q \in Ranks : \A k \in {"bin", "key", "val", "index"} : k \in ops'[q] <=> k \in ops[q]
  BY <1>1, <1>2
<1>6. \A q \in Ranks : ops'[q] \cap {"key", "val"} = ops[q] \cap {"key", "val"}
  BY <1>5
<1>7. SaveInv'
  BY <1>1, <1>2, <1>5, <1>6 DEF PartsInv, SaveInv, HasFile, FilesOf
<1>8. LatestInv'
  BY <1>1, <1>4, <1>7, LatestStep
<1> QED
  BY <1>7, <1>8

---------------------------------------------------------------------------
(* The theorems.                                                           *)

(* The invariant of the jobs, one after the other, each of any size.       *)
THEOREM PartsInvariant == PartsSpec => []PartsInv
<1>1. PartsInit => PartsInv
  <2> SUFFICES ASSUME PartsInit PROVE PartsInv
    OBVIOUS
  <2>1. Ranks = {} /\ size = 0 /\ step = 0 /\ latest = -1 /\ files = {}
    BY DEF PartsInit, Ranks
  <2>2. PartsTypeOK
    <3>1. torn \in BOOLEAN
      BY Zenon DEF PartsInit
    <3>2. 0 \in 0..MaxRanks
      BY PartsAssumption
    <3>3. setting \in Settings /\ FilesOK
      BY <2>1 DEF PartsInit, FilesOK
    <3> QED
      BY <2>1, <3>1, <3>2, <3>3 DEF PartsTypeOK
  <2> QED
    BY <2>1, <2>2 DEF PartsInv, RestoreInv, WorkInv, SaveInv, LatestInv
<1>2. PartsInv /\ [PartsNext]_vars => PartsInv'
  <2> SUFFICES ASSUME PartsInv, [PartsNext]_vars PROVE PartsInv'
    OBVIOUS
  <2>1. CASE UNCHANGED vars
    <3>1. /\ setting' = setting /\ size' = size /\ step' = step /\ doing' = doing /\ ops' = ops
          /\ table' = table /\ pairs' = pairs /\ files' = files /\ latest' = latest /\ torn' = torn
          /\ Ranks' = Ranks
      BY <2>1 DEF vars, Ranks
    <3>2. PartsTypeOK'
      BY <3>1 DEF PartsInv, PartsTypeOK, JobOK, FilesOK, PartSize
    <3> SUFFICES ASSUME ~torn PROVE RestoreInv' /\ WorkInv' /\ SaveInv' /\ LatestInv'
      BY <3>1, <3>2 DEF PartsInv
    <3>3. RestoreInv' /\ WorkInv'
      BY <3>1 DEF PartsInv, RestoreInv, WorkInv
    <3>4. SaveInv'
      BY <3>1 DEF PartsInv, SaveInv, HasFile, FilesOf
    <3>5. Saving' <=> Saving
      BY <3>1 DEF Saving
    <3>6. LatestInv'
      BY <3>1, <3>5, WholeKept DEF PartsInv, LatestInv
    <3> QED
      BY <3>3, <3>4, <3>6
  <2> QED
    BY <2>1, LaunchStep, RestoreStep, WriteStep, AnnounceStep, SavedStep, BroadcastStep,
       TrainStepStep, GoneStep
    DEF PartsNext
<1> QED
  BY <1>1, <1>2, PTL DEF PartsSpec

(* For any number of rows, keys, ranks, steps and jobs: outside of a save  *)
(* the announced checkpoint is whole, unless a job died while it was being *)
(* written.                                                                *)
THEOREM LatestIsWhole == PartsSpec => []LatestWhole
<1>1. PartsInv => LatestWhole
  BY DEF PartsInv, LatestInv, LatestWhole
<1> QED
  BY PartsInvariant, <1>1, PTL

(* For any number of rows, keys, ranks, steps and jobs: a job of any size  *)
(* restores exactly what the job of any other size has saved.              *)
THEOREM RestoredAsSaved == PartsSpec => []RestoredExact
<1>1. PartsInv => RestoredExact
  <2> SUFFICES ASSUME PartsInv, ~torn, latest # -1, NEW p \in Ranks
               PROVE  /\ doing[p] = "failed" => setting.kv /\ ~setting.lib
                      /\ doing[p] = "restored" =>
                           /\ RowsRight(table[p], p, size, latest)
                           /\ setting.kv => pairs[p] = KeysOf(p, size, latest)
    BY DEF RestoredExact, RowsRight, KeysOf, Rows
  <2> QED
    BY DEF PartsInv, RestoreInv, Begins
<1> QED
  BY PartsInvariant, <1>1, PTL
=============================================================================
