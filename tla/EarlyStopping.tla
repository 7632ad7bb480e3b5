--------------------------- MODULE EarlyStopping ---------------------------
(* The decisions that compat/early_stopping.py and compat/exporter.py take *)
(* from the results of the evaluations, which both read from the event     *)
(* files of eval_val: the steps evaluated, and the metric of each (the     *)
(* bigger the better).                                                     *)
EXTENDS Integers, FiniteSets

(* The first of the best: a later result must be better to take its place. *)
Champion(results, metric) ==
  CHOOSE s \in results : \A e \in results :
    metric[e] < metric[s] \/ (metric[e] = metric[s] /\ s <= e)

(* stop_if_no_metric_improvement_fn.  The results are gone through in the  *)
(* order of their steps, from the first one on.                            *)
NoImprovement(results, metric, window) ==
  \E s \in results : s - Champion({e \in results : e <= s}, metric) >= window

(* BestExporter: whether a result is exported, and what an evaluator that  *)
(* has just started takes for the best so far.                             *)
None == -1

(* Faulty variant: the best is known to the evaluator that saw it only.    *)
BestBeforeInMemory(results, metric, s) == None

(* The best of the results at earlier steps, in the event files.           *)
BestBefore(results, metric, s) ==
  LET earlier == {e \in results : e < s}
  IN IF earlier = {} THEN None ELSE Champion(earlier, metric)

IsBetter(metric, s, best) == best = None \/ metric[s] > metric[best]

(* _garbage_collect_ckpts, and Saver's max_to_keep: the last steps stay.   *)
Newest(steps, keep) ==
  {s \in steps : Cardinality({e \in steps : e > s}) < keep}
=============================================================================
