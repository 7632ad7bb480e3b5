---------------------------- MODULE MCJobInputs ----------------------------
(* Instances of JobInputs: jobs of up to four processes and every input.   *)
EXTENDS JobInputs, TLC

AJob(launch, cmd, given, bare, method) ==
  [launch |-> launch, cmd |-> cmd, given |-> given, bare |-> bare, method |-> method]

MCJobs ==
  {AJob("pai", "train", given, bare, method) :
     bare \in BOOLEAN, method \in {"none", "master", "separate"},
     given \in {("ps" :> 1) @@ ("worker" :> 3), ("worker" :> 2),
               ("ps" :> 1) @@ ("chief" :> 1) @@ ("worker" :> 1) @@ ("evaluator" :> 1),
               ("master" :> 1) @@ ("worker" :> 2) @@ ("evaluator" :> 1)}}
  \cup {AJob("pai", "evaluate", ("worker" :> 1), TRUE, "none")}
  \cup {AJob("pai", "evaluate", ("ps" :> 1) @@ ("worker" :> 3), TRUE, "none")}
  \cup {AJob("ds", cmd, ("ps" :> 1) @@ ("worker" :> 3), TRUE, "none") :
           cmd \in {"train", "evaluate"}}
  \cup {AJob("plain", "train", ("master" :> 1) @@ ("worker" :> 2), FALSE, "none"),
        AJob("plain", "train", ("chief" :> 1) @@ ("worker" :> 1) @@ ("evaluator" :> 1),
             FALSE, "separate")}

Files(kind) == IF kind = "criteo" THEN {<<5>>, <<6>>} ELSE {<<2, 3>>, <<1, 1, 2, 1>>}

Input(kind, redundant, fileShard, shuffle, limited, files) ==
  [kind |-> kind, redundant |-> redundant, fileShard |-> fileShard, shuffle |-> shuffle,
   limited |-> limited, files |-> files]

(* Files that are shuffled: several of them, and one alone.                *)
Shuffled ==
  {Input(kind, r, fs, TRUE, FALSE, files) :
     kind \in {"csv", "hive", "tfrecord"}, r \in BOOLEAN, fs \in BOOLEAN,
     files \in {<<2, 3>>, <<4>>}}

MCDatas ==
  {d \in UNION {{Input(kind, r, fs, FALSE, l, files) :
                   r \in BOOLEAN, fs \in BOOLEAN, l \in BOOLEAN, files \in Files(kind)}
                : kind \in Kinds} \cup Shuffled :
     /\ d.limited => d.kind = "criteo"
     /\ d.kind = "criteo" => ~d.redundant
     /\ d.fileShard => d.kind \in {"csv", "hive"}}
=============================================================================
