-------------------------- MODULE MCParquetLoader --------------------------
(* Instances of ParquetLoader for TLC: row counts of the input files.      *)
EXTENDS ParquetLoader

Len51 == <<5, 1>>
Len41 == <<4, 1>>
Len52 == <<5, 2>>
Len1 == <<1>>

(* The closed form of MyFiles against the loop over the file ids.          *)
ASSUME MyFilesIsFilter ==
  MyFiles = SelectSeq([i \in 1..FileNum |-> i - 1],
                      LAMBDA i : i % TaskNum = TaskIndex)
=============================================================================
