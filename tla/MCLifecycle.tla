---------------------------- MODULE MCLifecycle ----------------------------
(* A chief and a worker with data for at most three steps, and an          *)
(* evaluator; it, or the job, may be restarted once.                       *)
EXTENDS Lifecycle

CONSTANTS c, w

MCWorkers == {c, w}

(* Metrics that rise, and that have their best in the middle, twice.       *)
Rises == [s \in 0..MaxStep |-> s]
Twice == [s \in 0..MaxStep |-> IF s \in {1, 2} THEN 2 ELSE s % 2]

Job(exporter, steps, early, oss, fit, metric) ==
  [exporter |-> exporter, steps |-> steps, early |-> early, oss |-> oss, fit |-> fit,
   metric |-> metric]

MCSettings ==
  {Job("final", 0, FALSE, FALSE, 0, Rises), Job("final", 1, FALSE, FALSE, 1, Rises),
   Job("best", 0, TRUE, FALSE, 0, Twice),   Job("none", 2, FALSE, TRUE, 0, Rises)}
=============================================================================
