---------------------------- MODULE CriteoReader ----------------------------
(***************************************************************************)
(* BinaryDataset of input/criteo_binary_reader.py: where the batches of a  *)
(* rank are in the files, and the queue of batches being prefetched.       *)
(*                                                                         *)
(* Files are counted from 1, rows in a file from 0; a row is its file and  *)
(* its place there.  Reading is by position in files that do not change,   *)
(* so what a prefetched batch holds depends on its number only and not on  *)
(* when its thread runs.                                                   *)
(***************************************************************************)
EXTENDS Integers, Sequences, FiniteSets, FiniteSetsExt

CONSTANTS BatchSize, Prefetch

ASSUME ReaderAssumption == BatchSize \in Nat \ {0} /\ Prefetch \in Nat \ {0}

RowsOf(files) == UNION {{f} \X (0..(files[f] - 1)) : f \in DOMAIN files}

(* Rows in the files before file f, and in all of them.                    *)
FirstOf(files, f) == Cardinality({row \in RowsOf(files) : row[1] < f})
Total(files) == Cardinality(RowsOf(files))

---------------------------------------------------------------------------
(* _compute_global_start_pos: the share of a rank, all of the same size.   *)

NumSamples(files, size) ==
  Total(files) \div size + (IF Total(files) % size > 0 THEN 1 ELSE 0)

GlobalStart(files, rank, size) ==
  LET avg == Total(files) \div size
      res == Total(files) % size
  IN IF res = 0 THEN avg * rank
     ELSE IF rank < res THEN (avg + 1) * rank
     ELSE avg * rank + res - 1

(* drop_last is never set: the last batch may be short.                    *)
NumEntries(files, size) == (NumSamples(files, size) + BatchSize - 1) \div BatchSize

(* The search for the first file.  Passing over a file it adds the rows of *)
(* the file after it.                                                      *)
PassedRows(files, f) == Cardinality({row \in RowsOf(files) : row[1] \in 2..f})

StartFile(files, start) ==
  Min({f \in DOMAIN files : PassedRows(files, f) + files[f] > start})

(* The batches: file and row of the first row of each, in file order.      *)
BatchStart(files, rank, size, k) ==
  LET start == GlobalStart(files, rank, size)
      first == StartFile(files, start)
      row   == FirstOf(files, first) + start - PassedRows(files, first) + k * BatchSize
      file  == Min({f \in first..Len(files) : FirstOf(files, f + 1) > row})
  IN <<file, row - FirstOf(files, file)>>

(* _get: rows from there on until a batch is full; from each further file  *)
(* as many as up to the end position counted in the first one.  The order  *)
(* of the rows of a batch is left out.                                     *)
BatchOf(files, at) ==
  LET end == at[2] + BatchSize
      Got(f) == {row \in RowsOf(files) : /\ row[1] \in at[1]..f /\ row[2] < end
                                         /\ row[1] = at[1] => row[2] >= at[2]}
      used == {f \in at[1]..Len(files) : f = at[1] \/ Cardinality(Got(f - 1)) < BatchSize}
  IN UNION {Got(f) : f \in used}

Batches(files, rank, size) ==
  [k \in 1..NumEntries(files, size) |-> BatchOf(files, BatchStart(files, rank, size, k - 1))]

---------------------------------------------------------------------------
(* __getitem__.  A reader is the batches of its rank, the number of the    *)
(* next item, the batches submitted and not handed out, and what the pass  *)
(* has handed out.                                                         *)

ClosedReader == [batches |-> <<>>, idx |-> 0, queue |-> <<>>, got |-> <<>>]

OpenReader(files, rank, size) ==
  [ClosedReader EXCEPT !.batches = Batches(files, rank, size)]

(* A new pass.  What an earlier one left in the queue stays there.         *)
Rewound(r) == [r EXCEPT !.idx = 0, !.got = <<>>]

Depth(r) == Min({Prefetch, Len(r.batches)})

(* Faulty variant: the next batch submitted is the last one submitted.     *)
SubmittedAgain(r) ==
  LET n == Len(r.batches)
      ahead == IF r.idx = 0 THEN SubSeq(r.batches, 1, Depth(r)) ELSE <<>>
      next  == IF r.idx < n - Depth(r) THEN <<r.batches[r.idx + Depth(r)]>> ELSE <<>>
  IN r.queue \o ahead \o next

Submitted(r) ==
  LET n == Len(r.batches)
      ahead == IF r.idx = 0 THEN SubSeq(r.batches, 1, Depth(r)) ELSE <<>>
      next  == IF r.idx < n - Depth(r) THEN <<r.batches[r.idx + Depth(r) + 1]>> ELSE <<>>
  IN r.queue \o ahead \o next

GetItem(r) ==
  IF Depth(r) <= 1
  THEN [r EXCEPT !.idx = @ + 1, !.got = Append(@, r.batches[r.idx + 1])]
  ELSE [r EXCEPT !.idx = @ + 1, !.got = Append(@, Head(Submitted(r))),
                 !.queue = Tail(Submitted(r))]
=============================================================================
