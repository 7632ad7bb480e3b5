---------------------------- MODULE SampleStream ----------------------------
(***************************************************************************)
(* What the readers of easy_rec/python/input promise the training loop:    *)
(* a pass over the data is a stream of batches of 1 to BatchSize rows in   *)
(* which no row comes twice, and which ends by itself only when no more    *)
(* than Slack rows have not come (the rows drop_remainder may drop).  It   *)
(* can be abandoned at any time, and opened again for the next pass.       *)
(***************************************************************************)
EXTENDS Integers, Sequences, FiniteSets, Functions

CONSTANTS AllRows, BatchSize, Slack

VARIABLES yielded, status

streamVars == <<yielded, status>>

(* The rows the pass has not given yet.                                    *)
Left == AllRows \ UNION {Range(yielded[i]) : i \in DOMAIN yielded}

StreamInit == yielded = <<>> /\ status = "off"

Open ==
  /\ status # "on"
  /\ yielded' = <<>> /\ status' = "off"

Start == status = "off" /\ status' = "on" /\ UNCHANGED yielded

Yield ==
  /\ status = "on"
  /\ \E n \in 1..BatchSize : \E rows \in Injection(1..n, Left) :
       yielded' = Append(yielded, rows)
  /\ UNCHANGED status

End ==
  /\ status = "on" /\ Cardinality(Left) <= Slack
  /\ status' = "ended" /\ UNCHANGED yielded

Abandon == status' = "off" /\ UNCHANGED yielded

StreamNext == Open \/ Start \/ Yield \/ End \/ Abandon

StreamSpec == StreamInit /\ [][StreamNext]_streamVars
=============================================================================
