-------------------------- MODULE MCStreamOffsets --------------------------
(* The settings and the topics that StreamOffsets is checked with.         *)
EXTENDS StreamOffsets

Setting(i, s, p, m) == [input |-> i, shuffle |-> s, parallel |-> p, msgs |-> m]

OneTopic == {Setting("kafka", 1, 1, <<2>>)}

(* Two batches for a worker and one for the chief; three for a worker,     *)
(* which can then be ahead of a checkpoint that is saved again; a DataHub  *)
(* topic that gives each of them one, and one that gives the worker two.   *)
SmallConfs ==
  {Setting("kafka", s[1], s[2], <<2, 4>>) : s \in {<<1, 1>>, <<2, 1>>, <<1, 2>>}}
    \cup {Setting("kafka", 1, 1, <<0, 6>>)}
    \cup {Setting("datahub", 1, 1, m) : m \in {<<2, 3>>, <<1, 4>>}}
=============================================================================
