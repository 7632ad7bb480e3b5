--------------------------- MODULE JobInputs_proof ---------------------------
(***************************************************************************)
(* That the tasks of a job divide the data, and that a criteo pass is      *)
(* whole, for every job and input that JobsAssumption and DatasAssumption  *)
(* admit.                                                                  *)
(***************************************************************************)
EXTENDS JobInputs, FiniteSetTheorems, TLAPS

---------------------------------------------------------------------------
(* The arrangement of a job, that every launch path must come to: the task *)
(* numbered 0 leads and 1..Followers are the workers.                      *)

Workers == Count(job, "worker")

(* How many of the first workers get other roles.                          *)
Leading ==
  IF job.launch = "pai" /\ "evaluator" \notin DOMAIN job.given
  THEN IF job.method = "separate" THEN 2 ELSE 1
  ELSE IF job.launch = "ds" THEN IF job.cmd = "train" THEN 2 ELSE 1
  ELSE 0

(* The evaluator trains with the workers.                                  *)
Joins == job.launch = "pai" /\ "evaluator" \in DOMAIN job.given /\ job.method # "separate"

Followers ==
  IF Leading = 0 THEN IF Joins THEN Workers + 1 ELSE Workers
  ELSE IF Workers > Leading THEN Workers - Leading ELSE 0

GivenLeader == IF "chief" \in DOMAIN job.given THEN "chief" ELSE "master"

ProcAt(n) ==
  IF n = 0 THEN IF Leading = 0 THEN Task(GivenLeader, 0) ELSE Task("worker", 0)
  ELSE IF Leading = 0 /\ n > Workers THEN Task("evaluator", 0)
  ELSE Task("worker", n + Leading - 1)

(* The process that evaluates alone.                                       *)
Alone(p) ==
  \/ p = Task("worker", 1) /\ Leading = 2
  \/ p.type = "evaluator" /\ ~Joins

LeaderNames == {"chief", "master"}

(* What an admitted job is.                                                *)
LEMMA JobFacts ==
  ASSUME job \in Jobs
  PROVE  /\ job.launch \in {"pai", "ds", "plain"} /\ job.cmd \in {"train", "evaluate"}
         /\ job.bare \in BOOLEAN /\ job.method \in {"none", "master", "separate"}
         /\ "worker" \in DOMAIN job.given /\ DOMAIN job.given \subseteq Names
         /\ \A name \in DOMAIN job.given : job.given[name] \in Nat \ {0}
         /\ \A name \in LeaderNames \cup {"evaluator"} :
              name \in DOMAIN job.given => job.given[name] = 1
         /\ ~("chief" \in DOMAIN job.given /\ "master" \in DOMAIN job.given)
         /\ "evaluator" \in DOMAIN job.given => LeaderNames \cap DOMAIN job.given # {}
         /\ job.launch = "pai" /\ LeaderNames \cap DOMAIN job.given # {} =>
              "evaluator" \in DOMAIN job.given
         /\ job.launch = "ds" =>
              LeaderNames \cap DOMAIN job.given = {} /\ "ps" \in DOMAIN job.given
         /\ job.launch = "plain" => LeaderNames \cap DOMAIN job.given # {}
         /\ job.cmd = "evaluate" =>
              /\ LeaderNames \cap DOMAIN job.given = {} /\ job.bare /\ job.method = "none"
              /\ "ps" \in DOMAIN job.given \/ job.given["worker"] = 1
         /\ job.launch = "pai" /\ job.method = "separate"
              /\ LeaderNames \cap DOMAIN job.given = {} => job.given["worker"] > 1
<1> DEFINE g == job.given
<1>1. /\ IsJob(job)
      /\ Leaders(job) <= 1 /\ Count(job, "evaluator") <= Leaders(job)
      /\ job.launch = "pai" => Leaders(job) = Count(job, "evaluator")
      /\ job.launch = "ds" => Leaders(job) = 0 /\ "ps" \in DOMAIN job.given
      /\ job.launch = "plain" => Leaders(job) = 1
      /\ job.cmd = "evaluate" =>
           /\ Leaders(job) = 0 /\ job.bare /\ job.method = "none"
           /\ "ps" \in DOMAIN job.given \/ Count(job, "worker") = 1
      /\ job.launch = "pai" /\ job.method = "separate" /\ Leaders(job) = 0 =>
           Count(job, "worker") > 1
  BY JobsAssumption
<1>2. /\ job.launch \in {"pai", "ds", "plain"} /\ job.cmd \in {"train", "evaluate"}
      /\ job.bare \in BOOLEAN /\ job.method \in {"none", "master", "separate"}
      /\ "worker" \in DOMAIN g /\ DOMAIN g \subseteq Names
      /\ \A name \in DOMAIN g : g[name] \in Nat \ {0}
  BY <1>1 DEF IsJob
<1>3. \A name \in Names : Count(job, name) = IF name \in DOMAIN g THEN g[name] ELSE 0
  BY DEF Count
<1>4. /\ Count(job, "chief") = IF "chief" \in DOMAIN g THEN g["chief"] ELSE 0
      /\ Count(job, "master") = IF "master" \in DOMAIN g THEN g["master"] ELSE 0
      /\ Count(job, "evaluator") = IF "evaluator" \in DOMAIN g THEN g["evaluator"] ELSE 0
      /\ Count(job, "worker") = g["worker"]
  BY <1>2 DEF Count
<1>5. Leaders(job) = Count(job, "chief") + Count(job, "master")
  BY DEF Leaders
<1>6. /\ "chief" \in DOMAIN g => g["chief"] \in Nat /\ g["chief"] > 0
      /\ "master" \in DOMAIN g => g["master"] \in Nat /\ g["master"] > 0
      /\ "evaluator" \in DOMAIN g => g["evaluator"] \in Nat /\ g["evaluator"] > 0
  BY <1>2
<1> HIDE DEF g
<1>7. /\ "chief" \in DOMAIN g => g["chief"] = 1 /\ "master" \notin DOMAIN g
      /\ "master" \in DOMAIN g => g["master"] = 1
      /\ "evaluator" \in DOMAIN g => g["evaluator"] = 1
      /\ Leaders(job) = 0 <=> "chief" \notin DOMAIN g /\ "master" \notin DOMAIN g
      /\ Count(job, "evaluator") = 0 <=> "evaluator" \notin DOMAIN g
  <2>1. "chief" \in DOMAIN g => g["chief"] = 1 /\ "master" \notin DOMAIN g
    BY <1>1, <1>4, <1>5, <1>6
  <2>2. "master" \in DOMAIN g => g["master"] = 1
    BY <1>1, <1>4, <1>5, <1>6
  <2>3. "evaluator" \in DOMAIN g => g["evaluator"] = 1
    BY <1>1, <1>4, <1>5, <1>6
  <2>4. Leaders(job) = 0 <=> "chief" \notin DOMAIN g /\ "master" \notin DOMAIN g
    BY <1>4, <1>5, <1>6
  <2>5. Count(job, "evaluator") = 0 <=> "evaluator" \notin DOMAIN g
    BY <1>4, <1>6
  <2> QED BY <2>1, <2>2, <2>3, <2>4, <2>5
<1>8. Leaders(job) = 0 <=> LeaderNames \cap DOMAIN g = {}
  BY <1>7 DEF LeaderNames
<1>9. Leaders(job) \in {0, 1} /\ Count(job, "evaluator") \in {0, 1}
  BY <1>1, <1>4, <1>5, <1>6, <1>7
<1>10. \A name \in LeaderNames \cup {"evaluator"} : name \in DOMAIN g => g[name] = 1
  BY <1>7 DEF LeaderNames
<1>11. "evaluator" \in DOMAIN g => LeaderNames \cap DOMAIN g # {}
  BY <1>1, <1>7, <1>8, <1>9
<1>12. job.launch = "pai" /\ LeaderNames \cap DOMAIN g # {} => "evaluator" \in DOMAIN g
  BY <1>1, <1>7, <1>8, <1>9
<1>13. job.launch = "ds" => LeaderNames \cap DOMAIN g = {} /\ "ps" \in DOMAIN g
  BY <1>1, <1>8 DEF g
<1>14. job.launch = "plain" => LeaderNames \cap DOMAIN g # {}
  BY <1>1, <1>8
<1>15. job.cmd = "evaluate" =>
          /\ LeaderNames \cap DOMAIN g = {} /\ job.bare /\ job.method = "none"
          /\ "ps" \in DOMAIN g \/ g["worker"] = 1
  BY <1>1, <1>4, <1>8 DEF g
<1>16. job.launch = "pai" /\ job.method = "separate" /\ LeaderNames \cap DOMAIN g = {} =>
          g["worker"] > 1
  BY <1>1, <1>4, <1>8
<1> QED
  BY <1>2, <1>7, <1>10, <1>11, <1>12, <1>13, <1>14, <1>15, <1>16 DEF g

(* The shape of an admitted job: some worker leads unless a leader is given*)
(* and only a job with no evaluator of its own sends workers off.          *)
LEMMA Shape ==
  ASSUME job \in Jobs
  PROVE  /\ Leading \in {0, 1, 2} /\ Workers \in Nat \ {0} /\ Followers \in Nat
         /\ Workers = job.given["worker"]
         /\ Leading = 0 <=> LeaderNames \cap DOMAIN job.given # {}
         /\ Leading = 0 => GivenLeader \in LeaderNames
                            /\ LeaderNames \cap DOMAIN job.given = {GivenLeader}
         /\ Leading # 0 => "evaluator" \notin DOMAIN job.given
         /\ Joins => Leading = 0 /\ "evaluator" \in DOMAIN job.given
<1> DEFINE g == job.given
<1>1. job.launch = "pai" \/ job.launch = "ds" \/ job.launch = "plain"
  BY JobFacts
<1>2. Workers \in Nat \ {0} /\ Workers = g["worker"]
  BY JobFacts DEF Workers, Count
<1>3. Leading \in {0, 1, 2}
  BY DEF Leading
<1>4. Followers \in Nat
  BY <1>2, <1>3 DEF Followers
<1>5. Leading = 0 <=> LeaderNames \cap DOMAIN g # {}
  <2>1. CASE job.launch = "pai"
    <3>1. "evaluator" \in DOMAIN g <=> LeaderNames \cap DOMAIN g # {}
      BY <2>1, JobFacts
    <3> QED BY <2>1, <3>1 DEF Leading
  <2>2. CASE job.launch = "ds"
    <3>1. LeaderNames \cap DOMAIN g = {}
      BY <2>2, JobFacts
    <3> QED BY <2>2, <3>1 DEF Leading
  <2>3. CASE job.launch = "plain"
    <3>1. LeaderNames \cap DOMAIN g # {}
      BY <2>3, JobFacts
    <3> QED BY <2>3, <3>1 DEF Leading
  <2> QED BY <1>1, <2>1, <2>2, <2>3
<1>6. LeaderNames \cap DOMAIN g # {} =>
        GivenLeader \in LeaderNames /\ LeaderNames \cap DOMAIN g = {GivenLeader}
  <2>1. ~("chief" \in DOMAIN g /\ "master" \in DOMAIN g)
    BY JobFacts
  <2> QED BY <2>1 DEF GivenLeader, LeaderNames
<1>7. "evaluator" \in DOMAIN g => LeaderNames \cap DOMAIN g # {}
  BY JobFacts
<1>8. Joins => "evaluator" \in DOMAIN g
  BY DEF Joins
<1> QED BY <1>2, <1>3, <1>4, <1>5, <1>6, <1>7, <1>8

---------------------------------------------------------------------------
(* Every process has its place in the arrangement, and only one.           *)

LEMMA ProcType ==
  ASSUME job \in Jobs, NEW p \in Procs
  PROVE  /\ p = Task(p.type, p.index) /\ p.type \in DOMAIN job.given
         /\ p.index \in 0..(job.given[p.type] - 1)
         /\ p.type \in LeaderNames \cup {"evaluator"} => p.index = 0
<1>1. PICK name \in DOMAIN job.given : p \in {Task(name, i) : i \in 0..(job.given[name] - 1)}
  BY DEF Procs
<1>2. PICK i \in 0..(job.given[name] - 1) : p = Task(name, i)
  BY <1>1
<1>3. p.type = name /\ p.index = i
  BY <1>2 DEF Task
<1>4. name \in LeaderNames \cup {"evaluator"} => i \in 0..0
  BY JobFacts
<1>5. name \in LeaderNames \cup {"evaluator"} => i = 0
  BY <1>4
<1> QED BY <1>2, <1>3, <1>5

LEMMA ProcIn ==
  ASSUME NEW name \in DOMAIN job.given, NEW i \in 0..(job.given[name] - 1)
  PROVE  Task(name, i) \in Procs
  BY DEF Procs

LEMMA TaskFields ==
  ASSUME NEW name, NEW i
  PROVE  Task(name, i).type = name /\ Task(name, i).index = i
  BY DEF Task

LEMMA PlaceOf ==
  ASSUME job \in Jobs, NEW p \in Procs, p.type # "ps", ~Alone(p)
  PROVE  \E n \in 0..Followers : p = ProcAt(n)
<1> DEFINE g == job.given
<1>1. /\ p = Task(p.type, p.index) /\ p.type \in DOMAIN g /\ p.index \in 0..(g[p.type] - 1)
      /\ p.type \in LeaderNames \cup {"evaluator"} => p.index = 0
  BY ProcType
<1>2. p.type \in LeaderNames \cup {"worker", "evaluator"}
  BY <1>1, JobFacts DEF Names, LeaderNames
<1>3. CASE p.type \in LeaderNames
  <2>1. Leading = 0 /\ p.type = GivenLeader
    BY <1>1, <1>3, Shape
  <2>2. p = ProcAt(0)
    BY <1>1, <1>3, <2>1 DEF ProcAt
  <2> QED BY <2>2, Shape
<1>4. CASE p.type = "evaluator"
  <2>1. Joins /\ p = Task("evaluator", 0)
    BY <1>1, <1>4 DEF Alone
  <2>2. Leading = 0 /\ Workers \in Nat \ {0}
    BY <2>1, Shape
  <2>3. Followers = Workers + 1
    BY <2>1, <2>2 DEF Followers
  <2>4. p = ProcAt(Followers)
    BY <2>1, <2>2, <2>3 DEF ProcAt
  <2> QED BY <2>2, <2>3, <2>4
<1>5. CASE p.type = "worker"
  <2>1. p.index \in 0..(Workers - 1) /\ Workers \in Nat \ {0} /\ p = Task("worker", p.index)
    BY <1>1, <1>5, Shape
  <2>2. Leading = 2 => p.index # 1
    BY <2>1 DEF Alone
  <2>3. CASE Leading = 0
    <3>1. p.index + 1 \in 1..Followers /\ p.index + 1 <= Workers
      BY <2>1, <2>3 DEF Followers
    <3>2. p = ProcAt(p.index + 1)
      BY <2>1, <2>3, <3>1 DEF ProcAt
    <3> QED BY <3>1, <3>2
  <2>4. CASE Leading # 0 /\ p.index = 0
    <3>1. p = ProcAt(0)
      BY <2>1, <2>4 DEF ProcAt
    <3> QED BY <3>1, Shape
  <2>5. CASE Leading # 0 /\ p.index # 0
    <3>1. Leading \in {1, 2} /\ p.index >= Leading
      BY <2>1, <2>2, <2>5, Shape
    <3>2. p.index - Leading + 1 \in 1..Followers
      BY <2>1, <3>1 DEF Followers
    <3>3. p = ProcAt(p.index - Leading + 1)
      BY <2>1, <3>1, <3>2 DEF ProcAt
    <3> QED BY <3>2, <3>3
  <2> QED BY <2>3, <2>4, <2>5
<1> QED BY <1>2, <1>3, <1>4, <1>5

LEMMA PlaceIsProc ==
  ASSUME job \in Jobs, NEW n \in 0..Followers
  PROVE  /\ ProcAt(n) \in Procs /\ ProcAt(n).type # "ps" /\ ~Alone(ProcAt(n))
<1> DEFINE g == job.given
<1>1. /\ Leading \in {0, 1, 2} /\ Workers \in Nat \ {0} /\ Workers = g["worker"]
      /\ "worker" \in DOMAIN g
  BY Shape, JobFacts
<1>2. CASE n = 0 /\ Leading = 0
  <2>1. ProcAt(n) = Task(GivenLeader, 0) /\ GivenLeader \in LeaderNames /\ GivenLeader \in DOMAIN g
    BY <1>2, Shape DEF ProcAt
  <2>2. g[GivenLeader] = 1
    BY <2>1, JobFacts
  <2>3. ProcAt(n) \in Procs
    BY <2>1, <2>2, ProcIn
  <2> QED BY <1>2, <2>1, <2>3, TaskFields DEF Alone, LeaderNames, Task
<1>3. CASE n = 0 /\ Leading # 0
  <2>1. ProcAt(n) = Task("worker", 0) /\ 0 \in 0..(Workers - 1)
    BY <1>1, <1>3 DEF ProcAt
  <2>2. ProcAt(n) \in Procs
    BY <1>1, <2>1, ProcIn
  <2> QED BY <2>1, <2>2, TaskFields DEF Alone, Task
<1>4. CASE n # 0 /\ Leading = 0 /\ n > Workers
  <2>1. Joins
    BY <1>1, <1>4 DEF Followers
  <2>2. ProcAt(n) = Task("evaluator", 0) /\ "evaluator" \in DOMAIN g
    BY <1>4, <2>1 DEF ProcAt, Joins
  <2>3. g["evaluator"] = 1
    BY <2>2, JobFacts
  <2>4. ProcAt(n) \in Procs
    BY <2>2, <2>3, ProcIn
  <2> QED BY <2>1, <2>2, <2>4, TaskFields DEF Alone, Task
<1>5. CASE n # 0 /\ ~(Leading = 0 /\ n > Workers)
  <2>1. ProcAt(n) = Task("worker", n + Leading - 1)
    BY <1>5 DEF ProcAt
  <2>2. n + Leading - 1 \in 0..(Workers - 1) /\ (Leading = 2 => n + Leading - 1 # 1)
    BY <1>1, <1>5 DEF Followers
  <2>3. ProcAt(n) \in Procs
    BY <1>1, <2>1, <2>2, ProcIn
  <2> QED BY <2>1, <2>2, <2>3, TaskFields DEF Alone, Task
<1> QED BY <1>2, <1>3, <1>4, <1>5

LEMMA PlacesDiffer ==
  ASSUME job \in Jobs, NEW m \in 0..Followers, NEW n \in 0..Followers, ProcAt(m) = ProcAt(n)
  PROVE  m = n
<1> DEFINE TypeAt(k) == ProcAt(k).type
           IndexAt(k) == ProcAt(k).index
<1>1. /\ Leading \in {0, 1, 2} /\ Workers \in Nat \ {0} /\ Followers \in Nat
      /\ Leading = 0 => GivenLeader \in LeaderNames
  BY Shape
<1>2. Leading = 0 => Followers <= Workers + 1
  BY <1>1 DEF Followers
<1>3. ASSUME NEW k \in 0..Followers
      PROVE  \/ k = 0 /\ Leading = 0 /\ TypeAt(k) \in LeaderNames
             \/ k = 0 /\ Leading # 0 /\ TypeAt(k) = "worker" /\ IndexAt(k) = 0
             \/ k = Workers + 1 /\ Leading = 0 /\ TypeAt(k) = "evaluator"
             \/ k \in 1..Followers /\ TypeAt(k) = "worker" /\ IndexAt(k) = k + Leading - 1
  BY <1>1, <1>2, TaskFields DEF ProcAt
<1>4. TypeAt(m) = TypeAt(n) /\ IndexAt(m) = IndexAt(n)
  OBVIOUS
<1> HIDE DEF TypeAt, IndexAt
<1> QED BY <1>1, <1>3, <1>4 DEF LeaderNames

---------------------------------------------------------------------------
(* What the rewritings come to.                                            *)

LeaderTasks == {Task(name, 0) : name \in LeaderNames}

ArrangedTask(task, p) ==
  /\ p.type = "ps" => task = p
  /\ Alone(p) => task = Task("evaluator", 0)
  /\ p = ProcAt(0) => task \in LeaderTasks
  /\ \A n \in 1..Followers : p = ProcAt(n) => task = Task("worker", n - 1)

ArrangedCluster(cluster) ==
  /\ "worker" \in DOMAIN cluster
  /\ cluster["worker"] = [i \in 1..Followers |-> ProcAt(i)]
  /\ LeaderNames \cap DOMAIN cluster # {}
  /\ \A name \in LeaderNames \cap DOMAIN cluster : cluster[name] = <<ProcAt(0)>>
  /\ "ps" \in DOMAIN cluster => cluster["ps"] = HostsOf("ps")
  /\ "evaluator" \in DOMAIN cluster =>
       \A p \in Procs : Alone(p) => cluster["evaluator"] = <<p>>

Arranged(cfg, p) == ArrangedCluster(cfg.cluster) /\ ArrangedTask(cfg.task, p)

Given(p) == [cluster |-> [name \in DOMAIN job.given |-> HostsOf(name)], task |-> p]

(* What Configure makes of it.                                             *)
Conf(p) ==
  CASE job.launch = "pai"   -> OnPai(Given(p), p)
    [] job.launch = "ds"    -> OnDs(Given(p), p)
    [] job.launch = "plain" -> Given(p)

(* A host list of one.                                                     *)
LEMMA OneHost ==
  ASSUME job \in Jobs, NEW name \in LeaderNames \cup {"evaluator"}, name \in DOMAIN job.given
  PROVE  HostsOf(name) = <<Task(name, 0)>>
<1>1. Count(job, name) = 1
  BY JobFacts DEF Count
<1>2. HostsOf(name) = [i \in 1..1 |-> Task(name, i - 1)]
  BY <1>1 DEF HostsOf
<1>3. DOMAIN HostsOf(name) = 1..1 /\ HostsOf(name)[1] = Task(name, 1 - 1)
  BY <1>2
<1> QED BY <1>2, <1>3

(* The tasks that keep the number the platform gave them.                  *)
LEMMA TaskAsGiven ==
  ASSUME job \in Jobs, NEW p \in Procs, Leading = 0, ~Joins
  PROVE  ArrangedTask(p, p)
<1>1. Followers = Workers /\ Workers \in Nat
  BY Shape DEF Followers
<1>2. Alone(p) => p = Task("evaluator", 0)
  BY ProcType DEF Alone
<1>3. p = ProcAt(0) => p \in LeaderTasks
  BY Shape DEF ProcAt, LeaderTasks
<1>4. \A n \in 1..Followers : ProcAt(n) = Task("worker", n - 1)
  BY <1>1 DEF ProcAt
<1> QED BY <1>2, <1>3, <1>4 DEF ArrangedTask

LEMMA ClusterAsGiven ==
  ASSUME job \in Jobs, Leading = 0, ~Joins, NEW cluster,
         DOMAIN cluster \in {DOMAIN job.given, DOMAIN job.given \ {"evaluator"}},
         \A name \in DOMAIN cluster : cluster[name] = HostsOf(name)
  PROVE  ArrangedCluster(cluster)
<1>1. Followers = Workers /\ Workers \in Nat
  BY Shape DEF Followers
<1>2. /\ "worker" \in DOMAIN cluster
      /\ LeaderNames \cap DOMAIN cluster = {GivenLeader} /\ GivenLeader \in LeaderNames
      /\ GivenLeader \in DOMAIN job.given
  BY JobFacts, Shape DEF LeaderNames
<1>3. cluster["worker"] = [i \in 1..Followers |-> ProcAt(i)]
  <2>1. \A i \in 1..Followers : ProcAt(i) = Task("worker", i - 1)
    BY <1>1 DEF ProcAt
  <2>2. cluster["worker"] = [i \in 1..Followers |-> Task("worker", i - 1)]
    BY <1>1, <1>2 DEF HostsOf, Workers
  <2> QED BY <2>1, <2>2
<1>4. cluster[GivenLeader] = <<ProcAt(0)>>
  <2>1. ProcAt(0) = Task(GivenLeader, 0)
    BY DEF ProcAt
  <2>2. HostsOf(GivenLeader) = <<Task(GivenLeader, 0)>>
    BY <1>2, OneHost
  <2> QED BY <1>2, <2>1, <2>2
<1>5. ASSUME "evaluator" \in DOMAIN cluster, NEW p \in Procs, Alone(p)
      PROVE  cluster["evaluator"] = <<p>>
  <2>1. p.type = "evaluator"
    BY <1>5 DEF Alone
  <2>2. p = Task("evaluator", 0) /\ "evaluator" \in DOMAIN job.given
    BY <2>1, ProcType
  <2>3. HostsOf("evaluator") = <<Task("evaluator", 0)>>
    BY <2>2, OneHost
  <2> QED BY <1>5, <2>2, <2>3
<1> QED BY <1>2, <1>3, <1>4, <1>5 DEF ArrangedCluster

(* The first workers take the roles of a chief and an evaluator.           *)
LEMMA ArrangedByLead ==
  ASSUME job \in Jobs, NEW p \in Procs, NEW roles,
         \/ Leading = 1 /\ roles = <<"chief">>
         \/ Leading = 2 /\ roles = <<"chief", "evaluator">>
  PROVE  /\ Arranged(Lead(roles, Given(p), p), p)
         /\ "chief" \in DOMAIN Lead(roles, Given(p), p).cluster
<1> DEFINE led == Lead(roles, Given(p), p)
           workers == HostsOf("worker")
           names == {"chief", "worker"} \cup (DOMAIN job.given \cap {"ps"})
                      \cup (IF ~job.bare /\ Len(roles) = 2 THEN {"evaluator"} ELSE {})
           cl == led.cluster
<1>1. /\ Len(roles) = Leading /\ Leading \in {1, 2} /\ roles[1] = "chief"
      /\ Leading = 2 => roles[2] = "evaluator"
  <2>1. CASE Leading = 1 /\ roles = <<"chief">>
    BY <2>1
  <2>2. CASE Leading = 2 /\ roles = <<"chief", "evaluator">>
    BY <2>2
  <2> QED BY <2>1, <2>2
<1>2. /\ Workers \in Nat \ {0} /\ Followers = IF Workers > Leading THEN Workers - Leading ELSE 0
      /\ Workers = job.given["worker"] /\ "worker" \in DOMAIN job.given
  BY <1>1, Shape, JobFacts DEF Followers
<1>3. /\ Given(p).cluster = [name \in DOMAIN job.given |-> HostsOf(name)]
      /\ DOMAIN Given(p).cluster = DOMAIN job.given
  BY DEF Given
<1>4. /\ DOMAIN cl = names /\ cl["chief"] = <<workers[1]>>
      /\ cl["worker"] = SubSeq(workers, Leading + 1, Len(workers))
      /\ "evaluator" \in names => cl["evaluator"] = <<workers[2]>>
      /\ "ps" \in names => cl["ps"] = HostsOf("ps")
  BY <1>1, <1>3 DEF Lead
<1>5. led.task = IF p.type = "ps" THEN p
                 ELSE IF p.index < Leading THEN Task(roles[p.index + 1], 0)
                 ELSE Task("worker", p.index - Leading)
  BY <1>1 DEF Lead
<1> HIDE DEF led, cl
<1>6. workers = [i \in 1..Workers |-> Task("worker", i - 1)] /\ Len(workers) = Workers
  BY <1>2 DEF HostsOf, Workers
<1> HIDE DEF workers
<1>7. ProcAt(0) = Task("worker", 0) /\ \A n \in 1..Followers : ProcAt(n) = Task("worker", n + Leading - 1)
  BY <1>1, <1>2 DEF ProcAt
<1>8. ArrangedTask(led.task, p)
  <2>1. Alone(p) => p = Task("worker", 1) /\ Leading = 2
    <3>1. "evaluator" \notin DOMAIN job.given
      BY <1>1, Shape
    <3>2. p.type # "evaluator"
      BY <3>1, ProcType
    <3> QED BY <3>2 DEF Alone
  <2>2. Alone(p) => led.task = Task("evaluator", 0)
    BY <1>1, <1>5, <2>1, TaskFields
  <2>3. p = ProcAt(0) => led.task \in LeaderTasks
    BY <1>1, <1>5, <1>7, TaskFields DEF LeaderNames, LeaderTasks
  <2>4. ASSUME NEW n \in 1..Followers, p = ProcAt(n) PROVE led.task = Task("worker", n - 1)
    <3>1. p.type = "worker" /\ p.index = n + Leading - 1
      BY <1>7, <2>4, TaskFields
    <3>2. ~(p.index < Leading) /\ p.index - Leading = n - 1
      BY <1>1, <1>2, <3>1
    <3> QED BY <1>5, <3>1, <3>2
  <2> QED BY <1>5, <2>2, <2>3, <2>4 DEF ArrangedTask
<1>9. cl["worker"] = [i \in 1..Followers |-> ProcAt(i)]
  <2>1. SubSeq(workers, Leading + 1, Workers)
          = [i \in 1..(Workers - (Leading + 1) + 1) |-> workers[i + (Leading + 1) - 1]]
    <3>1. workers \in Seq(Procs \cup {Task("worker", i) : i \in Nat})
      BY <1>2, <1>6
    <3> QED BY <1>1, <1>2, <1>6, <3>1
  <2>2. 1..(Workers - (Leading + 1) + 1) = 1..Followers
    BY <1>1, <1>2
  <2>3. \A i \in 1..Followers : workers[i + (Leading + 1) - 1] = ProcAt(i)
    <3> SUFFICES ASSUME NEW i \in 1..Followers PROVE workers[i + (Leading + 1) - 1] = ProcAt(i)
      OBVIOUS
    <3>1. i + Leading \in 1..Workers /\ i + (Leading + 1) - 1 = i + Leading
      BY <1>1, <1>2
    <3>2. workers[i + Leading] = Task("worker", i + Leading - 1)
      BY <1>6, <3>1
    <3> QED BY <1>7, <3>1, <3>2
  <2>4. SubSeq(workers, Leading + 1, Workers) = [i \in 1..Followers |-> ProcAt(i)]
    BY <2>1, <2>2, <2>3
  <2> QED BY <1>4, <1>6, <2>4
<1>10. cl["chief"] = <<ProcAt(0)>> /\ LeaderNames \cap DOMAIN cl = {"chief"}
  <2>1. workers[1] = Task("worker", 0)
    BY <1>2, <1>6
  <2> QED BY <1>4, <1>7, <2>1 DEF LeaderNames
<1>11. ASSUME "evaluator" \in DOMAIN cl, NEW q \in Procs, Alone(q)
       PROVE  cl["evaluator"] = <<q>>
  <2>1. "evaluator" \notin DOMAIN job.given
    BY <1>1, Shape
  <2>2. q = Task("worker", 1)
    BY <1>11, <2>1, ProcType DEF Alone
  <2>3. 1 \in 0..(Workers - 1)
    BY <1>2, <2>2, ProcType, TaskFields
  <2>4. workers[2] = Task("worker", 1)
    BY <1>2, <1>6, <2>3
  <2> QED BY <1>4, <1>11, <2>2, <2>4
<1>12. ArrangedCluster(cl)
  BY <1>4, <1>9, <1>10, <1>11 DEF ArrangedCluster
<1> QED BY <1>8, <1>10, <1>12 DEF Arranged, led, cl

(* The evaluator becomes the last worker.                                  *)
LEMMA ArrangedByJoin ==
  ASSUME job \in Jobs, NEW p \in Procs, Joins
  PROVE  Arranged(AllTrain(Given(p), p), p)
<1> DEFINE all == AllTrain(Given(p), p)
           cl == all.cluster
           given == Given(p).cluster
           rest == Without(given, "evaluator")
           trainers == 1 + Leaders(job) + Count(job, "worker")
<1>1. /\ Leading = 0 /\ "evaluator" \in DOMAIN job.given /\ Workers \in Nat \ {0}
      /\ Workers = job.given["worker"] /\ "worker" \in DOMAIN job.given
      /\ GivenLeader \in LeaderNames /\ LeaderNames \cap DOMAIN job.given = {GivenLeader}
  BY Shape, JobFacts
<1>2. Followers = Workers + 1
  BY <1>1 DEF Followers
<1>3. /\ given = [name \in DOMAIN job.given |-> HostsOf(name)]
      /\ DOMAIN given = DOMAIN job.given
  BY DEF Given
<1>4. /\ DOMAIN rest = DOMAIN job.given \ {"evaluator"}
      /\ \A name \in DOMAIN rest : rest[name] = HostsOf(name)
  BY <1>3 DEF Without
<1>5. /\ cl = [rest EXCEPT !["worker"] = Append(rest["worker"], given["evaluator"][1])]
      /\ all.task = IF p.type = "evaluator" THEN Task("worker", trainers - 2) ELSE p
  BY <1>1, <1>3 DEF AllTrain
<1>6. /\ DOMAIN cl = DOMAIN job.given \ {"evaluator"}
      /\ cl["worker"] = Append(HostsOf("worker"), HostsOf("evaluator")[1])
      /\ \A name \in DOMAIN cl \ {"worker"} : cl[name] = HostsOf(name)
  <2>1. "worker" \in DOMAIN rest /\ given["evaluator"] = HostsOf("evaluator")
    BY <1>1, <1>3, <1>4
  <2> HIDE DEF cl, rest, given
  <2> QED BY <1>4, <1>5, <2>1
<1>7. trainers = Workers + 2
  <2>1. Leaders(job) = 1
    <3>1. "chief" \in DOMAIN job.given \/ "master" \in DOMAIN job.given
      BY <1>1 DEF LeaderNames
    <3>2. CASE "chief" \in DOMAIN job.given
      <4>1. job.given["chief"] = 1 /\ "master" \notin DOMAIN job.given
        BY <3>2, JobFacts DEF LeaderNames
      <4> QED BY <3>2, <4>1 DEF Leaders, Count
    <3>3. CASE "chief" \notin DOMAIN job.given
      <4>1. "master" \in DOMAIN job.given /\ job.given["master"] = 1
        BY <3>1, <3>3, JobFacts DEF LeaderNames
      <4> QED BY <3>3, <4>1 DEF Leaders, Count
    <3> QED BY <3>2, <3>3
  <2> QED BY <1>1, <2>1 DEF Workers
<1> HIDE DEF all, cl, given, rest, trainers
<1>8. /\ ProcAt(0) = Task(GivenLeader, 0) /\ ProcAt(Workers + 1) = Task("evaluator", 0)
      /\ \A n \in 1..Workers : ProcAt(n) = Task("worker", n - 1)
  BY <1>1 DEF ProcAt
<1>9. ArrangedTask(all.task, p)
  <2>1. ~Alone(p)
    <3>1. Leading # 2
      BY <1>1
    <3> QED BY <3>1 DEF Alone
  <2>2. p = ProcAt(0) => all.task \in LeaderTasks
    BY <1>1, <1>5, <1>8, TaskFields DEF LeaderNames, LeaderTasks
  <2>3. ASSUME NEW n \in 1..Followers, p = ProcAt(n) PROVE all.task = Task("worker", n - 1)
    <3>1. CASE n = Workers + 1
      <4>1. p.type = "evaluator" /\ trainers - 2 = n - 1
        BY <1>1, <1>7, <1>8, <2>3, <3>1, TaskFields
      <4> QED BY <1>5, <4>1
    <3>2. CASE n \in 1..Workers
      <4>1. p = Task("worker", n - 1) /\ p.type = "worker"
        BY <1>8, <2>3, <3>2, TaskFields
      <4> QED BY <1>5, <4>1
    <3> QED BY <1>1, <1>2, <3>1, <3>2
  <2> QED BY <1>5, <2>1, <2>2, <2>3 DEF ArrangedTask
<1>10. cl["worker"] = [i \in 1..Followers |-> ProcAt(i)]
  <2>1. HostsOf("worker") = [i \in 1..Workers |-> Task("worker", i - 1)]
    BY DEF HostsOf, Workers
  <2>2. HostsOf("evaluator")[1] = Task("evaluator", 0)
    BY <1>1, OneHost
  <2>3. HostsOf("worker") \in Seq({Task("worker", i - 1) : i \in 1..Workers})
    BY <1>1, <2>1
  <2>4. Len(HostsOf("worker")) = Workers
    BY <1>1, <2>1
  <2>5. cl["worker"] = [i \in 1..(Workers + 1) |-> IF i = Workers + 1 THEN Task("evaluator", 0)
                                                   ELSE HostsOf("worker")[i]]
    BY <1>1, <1>6, <2>2, <2>3, <2>4
  <2>6. \A i \in 1..Followers : ProcAt(i) = IF i = Workers + 1 THEN Task("evaluator", 0)
                                            ELSE HostsOf("worker")[i]
    BY <1>1, <1>2, <1>8, <2>1
  <2> QED BY <1>2, <2>5, <2>6
<1>11. LeaderNames \cap DOMAIN cl = {GivenLeader} /\ cl[GivenLeader] = <<ProcAt(0)>>
  <2>1. LeaderNames \cap DOMAIN cl = {GivenLeader}
    BY <1>1, <1>6 DEF LeaderNames
  <2>2. GivenLeader \in DOMAIN cl \ {"worker"} /\ GivenLeader \in DOMAIN job.given
    BY <1>1, <2>1 DEF LeaderNames
  <2>3. HostsOf(GivenLeader) = <<Task(GivenLeader, 0)>>
    BY <1>1, <2>2, OneHost
  <2> QED BY <1>6, <1>8, <2>1, <2>2, <2>3
<1>12. ArrangedCluster(cl)
  BY <1>1, <1>6, <1>10, <1>11 DEF ArrangedCluster
<1> QED BY <1>9, <1>12 DEF Arranged, all, cl

(* A chief may be renamed to a master, and a master to a chief that is in  *)
(* no cluster: the arrangement stays.                                      *)
LEMMA ArrangedRetyped ==
  ASSUME job \in Jobs, NEW p \in Procs, NEW task, ArrangedTask(task, p),
         NEW from \in LeaderNames, NEW to \in LeaderNames
  PROVE  ArrangedTask(Retyped(task, from, to), p)
<1> DEFINE new == Retyped(task, from, to)
<1>1. task.type # from => new = task
  BY DEF Retyped
<1>2. task.type = from => new = [task EXCEPT !.type = to]
  BY DEF Retyped
<1> HIDE DEF new
<1>3. p.type = "ps" \/ Alone(p) \/ p = ProcAt(0) \/ \E n \in 1..Followers : p = ProcAt(n)
  <2>1. p.type = "ps" \/ Alone(p) \/ \E n \in 0..Followers : p = ProcAt(n)
    BY PlaceOf
  <2>2. \A n \in 0..Followers : n = 0 \/ n \in 1..Followers
    BY Shape
  <2> QED BY <2>1, <2>2
<1>4. CASE p = ProcAt(0)
  <2>1. PICK name \in LeaderNames : task = Task(name, 0)
    BY <1>4 DEF ArrangedTask, LeaderTasks
  <2>2. new \in LeaderTasks
    BY <1>1, <1>2, <2>1 DEF Task, LeaderTasks, LeaderNames
  <2>3. p.type # "ps" /\ ~Alone(p) /\ \A n \in 1..Followers : p # ProcAt(n)
    BY <1>4, PlaceIsProc, PlacesDiffer, Shape
  <2> QED BY <2>2, <2>3 DEF ArrangedTask, new
<1>5. CASE p # ProcAt(0)
  <2>1. p.type = "ps" => task.type = "ps"
    BY DEF ArrangedTask
  <2>2. Alone(p) => task.type = "evaluator"
    BY TaskFields DEF ArrangedTask
  <2>3. (\E n \in 1..Followers : p = ProcAt(n)) => task.type = "worker"
    BY TaskFields DEF ArrangedTask
  <2>4. task.type # from
    BY <1>3, <1>5, <2>1, <2>2, <2>3 DEF LeaderNames
  <2> QED BY <1>1, <2>4 DEF new
<1> QED BY <1>4, <1>5

LEMMA ArrangedAsMaster ==
  ASSUME job \in Jobs, NEW p \in Procs, NEW cfg, Arranged(cfg, p)
  PROVE  Arranged(ChiefToMaster(cfg), p)
<1>1. CASE "chief" \notin DOMAIN cfg.cluster
  BY <1>1 DEF ChiefToMaster
<1>2. CASE "chief" \in DOMAIN cfg.cluster
  <2> DEFINE new == ChiefToMaster(cfg)
             cl == With(Without(cfg.cluster, "chief"), "master", cfg.cluster["chief"])
  <2>1. new.cluster = cl /\ new.task = Retyped(cfg.task, "chief", "master")
    BY <1>2 DEF ChiefToMaster
  <2>2. /\ DOMAIN cl = (DOMAIN cfg.cluster \ {"chief"}) \cup {"master"}
        /\ cl["master"] = cfg.cluster["chief"]
        /\ \A name \in DOMAIN cfg.cluster \ {"chief", "master"} : cl[name] = cfg.cluster[name]
    BY DEF With, Without
  <2>3. ArrangedCluster(cfg.cluster) /\ ArrangedTask(cfg.task, p)
    BY DEF Arranged
  <2> HIDE DEF cl, new
  <2>4. ArrangedCluster(cl)
    BY <1>2, <2>2, <2>3 DEF ArrangedCluster, LeaderNames
  <2>5. ArrangedTask(new.task, p)
    BY <2>1, <2>3, ArrangedRetyped DEF LeaderNames
  <2> QED BY <2>1, <2>4, <2>5 DEF Arranged, new
<1> QED BY <1>1, <1>2

LEMMA ArrangedAsChief ==
  ASSUME job \in Jobs, NEW p \in Procs, NEW cfg, Arranged(cfg, p)
  PROVE  Arranged(MasterToChief(cfg), p)
<1>1. CASE "master" \notin DOMAIN cfg.cluster
  BY <1>1 DEF MasterToChief
<1>2. CASE "master" \in DOMAIN cfg.cluster
  <2> DEFINE new == MasterToChief(cfg)
             cl == Without(cfg.cluster, "chief")
  <2>1. new.cluster = cl /\ new.task = Retyped(cfg.task, "master", "chief")
    BY <1>2 DEF MasterToChief
  <2>2. /\ DOMAIN cl = DOMAIN cfg.cluster \ {"chief"}
        /\ \A name \in DOMAIN cl : cl[name] = cfg.cluster[name]
    BY DEF Without
  <2>3. ArrangedCluster(cfg.cluster) /\ ArrangedTask(cfg.task, p)
    BY DEF Arranged
  <2> HIDE DEF cl, new
  <2>4. ArrangedCluster(cl)
    BY <1>2, <2>2, <2>3 DEF ArrangedCluster, LeaderNames
  <2>5. ArrangedTask(new.task, p)
    BY <2>1, <2>3, ArrangedRetyped DEF LeaderNames
  <2> QED BY <2>1, <2>4, <2>5 DEF Arranged, new
<1> QED BY <1>1, <1>2

(* So every process comes to its place in the arrangement.                 *)
LEMMA ConfArranged ==
  ASSUME job \in Jobs, NEW p \in Procs
  PROVE  Arranged(Conf(p), p)
<1> DEFINE cfg == Given(p)
<1>1. /\ DOMAIN cfg.cluster = DOMAIN job.given /\ cfg.task = p
      /\ \A name \in DOMAIN job.given : cfg.cluster[name] = HostsOf(name)
  BY DEF Given
<1>2. ASSUME Leading = 0, ~Joins PROVE Arranged(cfg, p)
  BY <1>1, <1>2, TaskAsGiven, ClusterAsGiven DEF Arranged
<1> HIDE DEF cfg
<1>3. CASE job.launch = "pai" /\ job.method = "separate"
  <2>1. Conf(p) = Separate(cfg, p)
    BY <1>3 DEF Conf, OnPai, cfg
  <2>2. CASE "evaluator" \in DOMAIN job.given
    <3>1. Leading = 0 /\ ~Joins
      BY <1>3, <2>2 DEF Leading, Joins
    <3>2. CASE ~job.bare
      BY <1>1, <1>2, <2>1, <2>2, <3>1, <3>2 DEF Separate
    <3>3. CASE job.bare
      <4> DEFINE cl == Without(cfg.cluster, "evaluator")
      <4>1. Conf(p) = [cfg EXCEPT !.cluster = cl]
        BY <1>1, <2>1, <2>2, <3>3 DEF Separate
      <4>2. Conf(p).cluster = cl /\ Conf(p).task = p
        BY <1>1, <4>1 DEF cfg, Given
      <4>3. /\ DOMAIN cl = DOMAIN job.given \ {"evaluator"}
            /\ \A name \in DOMAIN cl : cl[name] = HostsOf(name)
        BY <1>1 DEF Without
      <4> HIDE DEF cl
      <4>4. ArrangedCluster(cl)
        BY <3>1, <4>3, ClusterAsGiven
      <4> QED BY <3>1, <4>2, <4>4, TaskAsGiven DEF Arranged
    <3> QED BY <3>2, <3>3
  <2>3. CASE "evaluator" \notin DOMAIN job.given
    <3>1. Leading = 2
      BY <1>3, <2>3 DEF Leading
    <3>2. Conf(p) = Lead(<<"chief", "evaluator">>, cfg, p)
      BY <1>1, <2>1, <2>3 DEF Separate
    <3> QED BY <3>1, <3>2, ArrangedByLead DEF cfg
  <2> QED BY <2>2, <2>3
<1>4. CASE job.launch = "pai" /\ job.method # "separate"
  <2>1. Conf(p) = ForMethod(AllTrain(cfg, p))
    BY <1>4 DEF Conf, OnPai, cfg
  <2>2. Arranged(AllTrain(cfg, p), p)
    <3>1. CASE "evaluator" \in DOMAIN job.given
      <4>1. Joins
        BY <1>4, <3>1 DEF Joins
      <4> QED BY <4>1, ArrangedByJoin DEF cfg
    <3>2. CASE "evaluator" \notin DOMAIN job.given
      <4>1. Leading = 1
        BY <1>4, <3>2 DEF Leading
      <4>2. AllTrain(cfg, p) = Lead(<<"chief">>, cfg, p)
        BY <1>1, <3>2 DEF AllTrain
      <4> QED BY <4>1, <4>2, ArrangedByLead DEF cfg
    <3> QED BY <3>1, <3>2
  <2>3. job.method = "none" \/ job.method = "master"
    BY <1>4, JobFacts
  <2> QED BY <2>1, <2>2, <2>3, ArrangedAsMaster, ArrangedAsChief DEF ForMethod
<1>5. CASE job.launch = "ds"
  <2> DEFINE roles == IF job.cmd = "train" THEN <<"chief", "evaluator">> ELSE <<"chief">>
             led == Lead(roles, cfg, p)
             cl == Without(led.cluster, "evaluator")
  <2>1. /\ "ps" \in DOMAIN job.given /\ "evaluator" \notin DOMAIN job.given
    BY <1>5, JobFacts
  <2>2. Conf(p) = OnDs(cfg, p)
    BY <1>5 DEF Conf, cfg
  <2>3. Conf(p) = [led EXCEPT !.cluster = cl]
    BY <1>1, <2>1, <2>2 DEF OnDs
  <2>4. \/ Leading = 1 /\ roles = <<"chief">>
        \/ Leading = 2 /\ roles = <<"chief", "evaluator">>
    BY <1>5 DEF Leading
  <2> HIDE DEF roles
  <2>5. Arranged(led, p)
    BY <2>4, ArrangedByLead DEF cfg
  <2>6. Conf(p).cluster = cl /\ Conf(p).task = led.task
    BY <2>3 DEF Lead
  <2> HIDE DEF led
  <2>7. /\ DOMAIN cl = DOMAIN led.cluster \ {"evaluator"}
        /\ \A name \in DOMAIN cl : cl[name] = led.cluster[name]
    BY DEF Without
  <2> HIDE DEF cl
  <2>8. ArrangedCluster(led.cluster) /\ ArrangedTask(led.task, p)
    BY <2>5 DEF Arranged
  <2>9. ArrangedCluster(cl)
    BY <2>7, <2>8 DEF ArrangedCluster, LeaderNames
  <2> QED BY <2>6, <2>8, <2>9 DEF Arranged
<1>6. CASE job.launch = "plain"
  <2>1. Leading = 0 /\ ~Joins
    BY <1>6 DEF Leading, Joins
  <2>2. Conf(p) = cfg
    BY <1>6 DEF Conf, cfg
  <2> QED BY <1>2, <2>1, <2>2
<1> QED BY <1>3, <1>4, <1>5, <1>6, JobFacts

(* All see the same cluster: nothing in it depends on who rewrites it.     *)
LEMMA SameClusters ==
  ASSUME job \in Jobs, NEW p \in Procs, NEW q \in Procs
  PROVE  /\ Given(p).cluster = Given(q).cluster
         /\ Conf(p).cluster = Conf(q).cluster
         /\ ChiefToMaster(Conf(p)).cluster = ChiefToMaster(Conf(q)).cluster
<1>1. Given(p).cluster = Given(q).cluster
  BY DEF Given
<1>2. ASSUME NEW a, NEW b, a.cluster = b.cluster
      PROVE  /\ ChiefToMaster(a).cluster = ChiefToMaster(b).cluster
             /\ MasterToChief(a).cluster = MasterToChief(b).cluster
  BY <1>2 DEF ChiefToMaster, MasterToChief
<1>3. ASSUME NEW roles PROVE Lead(roles, Given(p), p).cluster = Lead(roles, Given(q), q).cluster
  BY <1>1 DEF Lead
<1>4. AllTrain(Given(p), p).cluster = AllTrain(Given(q), q).cluster
  BY <1>1, <1>3 DEF AllTrain
<1>5. Separate(Given(p), p).cluster = Separate(Given(q), q).cluster
  BY <1>1, <1>3 DEF Separate, Given
<1>6. OnPai(Given(p), p).cluster = OnPai(Given(q), q).cluster
  <2>1. CASE job.method = "separate"
    BY <1>5, <2>1 DEF OnPai
  <2>2. CASE job.method = "none"
    BY <1>2, <1>4, <2>2 DEF OnPai, ForMethod
  <2>3. CASE job.method = "master"
    BY <1>2, <1>4, <2>3 DEF OnPai, ForMethod
  <2> QED BY <2>1, <2>2, <2>3, JobFacts
<1>7. OnDs(Given(p), p).cluster = OnDs(Given(q), q).cluster
  <2> DEFINE roles == IF job.cmd = "train" THEN <<"chief", "evaluator">> ELSE <<"chief">>
  <2>1. Lead(roles, Given(p), p).cluster = Lead(roles, Given(q), q).cluster
    BY <1>3
  <2>2. \A r \in {p, q} : /\ "cluster" \in DOMAIN Lead(roles, Given(r), r)
                          /\ "cluster" \in DOMAIN Given(r)
    BY DEF Lead, Given
  <2> QED BY <1>1, <2>1, <2>2 DEF OnDs
<1>8. Conf(p).cluster = Conf(q).cluster
  BY <1>1, <1>6, <1>7, JobFacts DEF Conf
<1> QED BY <1>1, <1>2, <1>8

---------------------------------------------------------------------------
(* What an arranged process answers about itself.                          *)
LEMMA Answers ==
  ASSUME job \in Jobs, NEW p \in Procs, Arranged(tfConfig[p], p)
  PROVE  /\ IsPs(p) <=> p.type = "ps"
         /\ IsEvaluator(p) <=> Alone(p)
         /\ IsChief(p) <=> p = ProcAt(0)
         /\ \A n \in 0..Followers : p = ProcAt(n) =>
              /\ TaskIndex(p) = n /\ TaskNum(p) = Followers + 1
              /\ n # 0 => TaskOf(p) = Task("worker", n - 1)
<1> DEFINE task == tfConfig[p].task
           cl == tfConfig[p].cluster
<1>1. ArrangedCluster(cl) /\ ArrangedTask(task, p)
  BY DEF Arranged
<1>2. TaskOf(p) = task /\ ClusterOf(p) = cl
  BY DEF TaskOf, ClusterOf
<1> HIDE DEF task, cl
<1>3. Followers \in Nat
  BY Shape
<1>4. p.type = "ps" \/ Alone(p) \/ p = ProcAt(0) \/ \E n \in 1..Followers : p = ProcAt(n)
  <2>1. p.type = "ps" \/ Alone(p) \/ \E n \in 0..Followers : p = ProcAt(n)
    BY PlaceOf
  <2>2. \A n \in 0..Followers : n = 0 \/ n \in 1..Followers
    BY <1>3
  <2> QED BY <2>1, <2>2
<1>5. \A n \in 0..Followers : p = ProcAt(n) => p.type # "ps" /\ ~Alone(p)
  BY PlaceIsProc
<1>6. Alone(p) => p.type # "ps"
  BY TaskFields DEF Alone
<1>7. p.type = "ps" => task.type = "ps"
  BY <1>1 DEF ArrangedTask
<1>8. Alone(p) => task.type = "evaluator"
  BY <1>1, TaskFields DEF ArrangedTask
<1>9. p = ProcAt(0) => task.type \in {"chief", "master"} /\ task.index = 0
  BY <1>1, TaskFields DEF ArrangedTask, LeaderTasks, LeaderNames
<1>10. \A n \in 1..Followers : p = ProcAt(n) =>
         task = Task("worker", n - 1) /\ task.type = "worker" /\ task.index = n - 1
  BY <1>1, TaskFields DEF ArrangedTask
<1>11. 0 \in 0..Followers /\ \A n \in 1..Followers : n \in 0..Followers
  BY <1>3
<1>12. IsPs(p) <=> p.type = "ps"
  BY <1>2, <1>4, <1>7, <1>8, <1>9, <1>10 DEF IsPs
<1>13. IsEvaluator(p) <=> Alone(p)
  BY <1>2, <1>4, <1>7, <1>8, <1>9, <1>10 DEF IsEvaluator
<1>14. IsChief(p) <=> p = ProcAt(0)
  BY <1>2, <1>4, <1>7, <1>8, <1>9, <1>10 DEF IsChief
<1>15. HasLeader(p) /\ "worker" \in DOMAIN cl /\ Len(cl["worker"]) = Followers
  <2>1. Len([i \in 1..Followers |-> ProcAt(i)]) = Followers
    BY <1>3
  <2> QED BY <1>1, <1>2, <2>1 DEF ArrangedCluster, HasLeader, LeaderNames
<1>16. ASSUME NEW n \in 0..Followers, p = ProcAt(n)
       PROVE  /\ TaskIndex(p) = n /\ TaskNum(p) = Followers + 1
              /\ n # 0 => TaskOf(p) = Task("worker", n - 1)
  <2>1. ~IsEvaluator(p)
    BY <1>5, <1>13, <1>16
  <2>2. TaskNum(p) = Followers + 1
    BY <1>2, <1>3, <1>15, <2>1 DEF TaskNum
  <2>3. CASE n = 0
    BY <1>2, <1>9, <1>14, <1>15, <1>16, <2>1, <2>2, <2>3 DEF TaskIndex
  <2>4. CASE n # 0
    <3>1. n \in 1..Followers
      BY <1>3, <2>4
    <3>2. ~IsChief(p)
      BY <1>2, <1>10, <1>16, <3>1 DEF IsChief
    <3>3. task.index + 1 = n
      BY <1>10, <1>16, <3>1
    <3> QED BY <1>2, <1>10, <1>15, <1>16, <2>1, <2>2, <3>1, <3>2, <3>3 DEF TaskIndex
  <2> QED BY <2>3, <2>4
<1> QED BY <1>12, <1>13, <1>14, <1>16

(* The address of its task is its own.                                     *)
LEMMA OwnAddress ==
  ASSUME job \in Jobs, NEW p \in Procs, Arranged(tfConfig[p], p),
         TaskOf(p).type \in DOMAIN ClusterOf(p)
  PROVE  ClusterOf(p)[TaskOf(p).type][TaskOf(p).index + 1] = p
<1> DEFINE task == tfConfig[p].task
           cl == tfConfig[p].cluster
<1>1. ArrangedCluster(cl) /\ ArrangedTask(task, p)
  BY DEF Arranged
<1>2. TaskOf(p) = task /\ ClusterOf(p) = cl /\ task.type \in DOMAIN cl
  BY DEF TaskOf, ClusterOf
<1> HIDE DEF task, cl
<1>3. CASE p.type = "ps"
  <2>1. task = p /\ cl["ps"] = HostsOf("ps")
    BY <1>1, <1>2, <1>3 DEF ArrangedTask, ArrangedCluster
  <2>2. /\ p = Task("ps", p.index) /\ "ps" \in DOMAIN job.given
        /\ p.index \in 0..(job.given["ps"] - 1) /\ job.given["ps"] \in Nat
    BY <1>3, ProcType, JobFacts
  <2>3. p.index + 1 \in 1..Count(job, "ps")
    BY <2>2 DEF Count
  <2>4. ASSUME NEW i \in 1..Count(job, "ps") PROVE HostsOf("ps")[i] = Task("ps", i - 1)
    BY DEF HostsOf
  <2>5. HostsOf("ps")[p.index + 1] = Task("ps", (p.index + 1) - 1)
    BY <2>3, <2>4, Zenon
  <2>6. (p.index + 1) - 1 = p.index
    BY <2>2
  <2> QED BY <1>2, <1>3, <2>1, <2>2, <2>5, <2>6
<1>4. CASE Alone(p)
  <2>1. task.type = "evaluator" /\ task.index = 0
    BY <1>1, <1>4, TaskFields DEF ArrangedTask
  <2>2. cl["evaluator"] = <<p>>
    BY <1>1, <1>2, <1>4, <2>1 DEF ArrangedCluster
  <2> QED BY <1>2, <2>1, <2>2
<1>5. CASE p = ProcAt(0)
  <2>1. task.type \in LeaderNames /\ task.index = 0
    BY <1>1, <1>5, TaskFields DEF ArrangedTask, LeaderTasks
  <2>2. cl[task.type] = <<p>>
    BY <1>1, <1>2, <1>5, <2>1 DEF ArrangedCluster
  <2> QED BY <1>2, <2>1, <2>2
<1>6. ASSUME NEW n \in 1..Followers, p = ProcAt(n)
      PROVE  cl[task.type][task.index + 1] = p
  <2>1. task.type = "worker" /\ task.index = n - 1
    BY <1>1, <1>6, TaskFields DEF ArrangedTask
  <2>2. task.index + 1 = n
    BY <2>1, Shape
  <2> QED BY <1>1, <1>6, <2>1, <2>2 DEF ArrangedCluster
<1>7. p.type = "ps" \/ Alone(p) \/ p = ProcAt(0) \/ \E n \in 1..Followers : p = ProcAt(n)
  <2>1. p.type = "ps" \/ Alone(p) \/ \E n \in 0..Followers : p = ProcAt(n)
    BY PlaceOf
  <2>2. \A n \in 0..Followers : n = 0 \/ n \in 1..Followers
    BY Shape
  <2> QED BY <2>1, <2>2
<1> QED BY <1>2, <1>3, <1>4, <1>5, <1>6, <1>7

---------------------------------------------------------------------------
(* The inductive invariant of the cluster: what a TF_CONFIG is at each     *)
(* stage.                                                                  *)
Stages == {"started", "configured", "evaluates"}

ConfigAt(s, p) ==
  CASE s = "started"    -> Given(p)
    [] s = "configured" -> Conf(p)
    [] s = "evaluates"  -> ChiefToMaster(Conf(p))

ClusterInv ==
  /\ job \in Jobs
  /\ stage \in [Procs -> Stages]
  /\ tfConfig = [p \in Procs |-> ConfigAt(stage[p], p)]
  /\ \A p \in Procs : stage[p] = "evaluates" => job.cmd = "evaluate"

LEMMA JobStays ==
  ASSUME UNCHANGED job
  PROVE  /\ Procs' = Procs
         /\ \A p : Given(p)' = Given(p) /\ Conf(p)' = Conf(p)
         /\ \A s, p : ConfigAt(s, p)' = ConfigAt(s, p)
<1>1. Procs' = Procs
  BY DEF Procs
<1>2. \A name : HostsOf(name)' = HostsOf(name)
  <2>1. \A name : Count(job, name)' = Count(job, name)
    BY DEF Count
  <2> QED BY <2>1 DEF HostsOf
<1>3. \A p : Given(p)' = Given(p)
  BY <1>2 DEF Given
<1>4. ASSUME NEW roles, NEW cfg, NEW p
      PROVE  Lead(roles, cfg, p)' = Lead(roles, cfg, p)
  <2>1. HostsOf("worker")' = HostsOf("worker") /\ job' = job
    BY <1>2
  <2> QED BY <2>1 DEF Lead
<1>5. \A cfg, p : Separate(cfg, p)' = Separate(cfg, p)
  BY <1>4 DEF Separate
<1>6. \A cfg, p : AllTrain(cfg, p)' = AllTrain(cfg, p)
  BY <1>4 DEF AllTrain, Leaders, Count
<1>7. \A cfg, p : OnPai(cfg, p)' = OnPai(cfg, p)
  <2>1. \A cfg : ForMethod(cfg)' = ForMethod(cfg)
    BY DEF ForMethod
  <2> QED BY <1>5, <1>6, <2>1 DEF OnPai
<1>8. \A cfg, p : OnDs(cfg, p)' = OnDs(cfg, p)
  BY <1>4 DEF OnDs
<1>9. \A p : Conf(p)' = Conf(p)
  BY <1>3, <1>7, <1>8 DEF Conf
<1>10. \A s, p : ConfigAt(s, p)' = ConfigAt(s, p)
  BY <1>3, <1>9 DEF ConfigAt
<1> QED BY <1>1, <1>3, <1>9, <1>10

LEMMA ClusterStepInv ==
  ASSUME ClusterInv, [JobNext]_jobVars
  PROVE  ClusterInv'
<1>1. CASE UNCHANGED clusterVars
  <2>1. UNCHANGED <<job, tfConfig, stage>>
    BY <1>1 DEF clusterVars
  <2> QED BY <2>1, JobStays DEF ClusterInv
<1>2. ASSUME NEW p \in Procs, Configure(p)
      PROVE  ClusterInv'
  <2>1. /\ stage[p] = "started" /\ UNCHANGED job
        /\ stage' = [stage EXCEPT ![p] = "configured"]
    BY <1>2 DEF Configure
  <2>2. tfConfig[p] = Given(p) /\ DOMAIN tfConfig = Procs
    BY <2>1 DEF ClusterInv, ConfigAt
  <2>3. tfConfig' = [tfConfig EXCEPT ![p] = Conf(p)]
    BY <1>2, <2>2 DEF Configure, Conf
  <2>4. stage' \in [Procs -> Stages]
    BY <2>1 DEF ClusterInv, Stages
  <2>5. tfConfig' = [q \in Procs |-> ConfigAt(stage'[q], q)]
    <3>1. ConfigAt("configured", p) = Conf(p)
      BY DEF ConfigAt
    <3>2. \A q \in Procs : tfConfig[q] = ConfigAt(stage[q], q)
      BY DEF ClusterInv
    <3>3. /\ stage \in [Procs -> Stages] /\ DOMAIN tfConfig = Procs
          /\ tfConfig = [q \in Procs |-> tfConfig[q]]
      BY DEF ClusterInv
    <3>4. \A q \in Procs : tfConfig'[q] = ConfigAt(stage'[q], q)
      BY <2>1, <2>3, <3>1, <3>2, <3>3
    <3> QED BY <2>1, <2>3, <3>3, <3>4
  <2>6. \A q \in Procs : stage'[q] = "evaluates" => job.cmd = "evaluate"
    BY <2>1 DEF ClusterInv
  <2>7. job' = job /\ Procs' = Procs
    BY <2>1, JobStays
  <2>8. [q \in Procs |-> ConfigAt(stage'[q], q)] = [q \in Procs |-> ConfigAt(stage[q], q)']
    BY <2>1, JobStays DEF ConfigAt
  <2> QED BY <2>4, <2>5, <2>6, <2>7, <2>8 DEF ClusterInv
<1>3. ASSUME NEW p \in Procs, DistributeEval(p)
      PROVE  ClusterInv'
  <2>1. /\ stage[p] = "configured" /\ UNCHANGED job /\ job.cmd = "evaluate"
        /\ stage' = [stage EXCEPT ![p] = "evaluates"]
        /\ tfConfig' = [tfConfig EXCEPT ![p] = ChiefToMaster(tfConfig[p])]
    BY <1>3 DEF DistributeEval
  <2>2. tfConfig[p] = Conf(p) /\ DOMAIN tfConfig = Procs
    BY <2>1 DEF ClusterInv, ConfigAt
  <2>3. stage' \in [Procs -> Stages]
    BY <2>1 DEF ClusterInv, Stages
  <2>4. tfConfig' = [q \in Procs |-> ConfigAt(stage'[q], q)]
    <3>1. ConfigAt("evaluates", p) = ChiefToMaster(Conf(p))
      BY DEF ConfigAt
    <3>2. \A q \in Procs : tfConfig[q] = ConfigAt(stage[q], q)
      BY DEF ClusterInv
    <3>3. /\ stage \in [Procs -> Stages] /\ DOMAIN tfConfig = Procs
          /\ tfConfig = [q \in Procs |-> tfConfig[q]]
      BY DEF ClusterInv
    <3>4. \A q \in Procs : tfConfig'[q] = ConfigAt(stage'[q], q)
      BY <2>1, <2>2, <3>1, <3>2, <3>3
    <3> QED BY <2>1, <2>2, <3>3, <3>4
  <2>5. \A q \in Procs : stage'[q] = "evaluates" => job.cmd = "evaluate"
    BY <2>1 DEF ClusterInv
  <2>6. job' = job /\ Procs' = Procs
    BY <2>1, JobStays
  <2>7. [q \in Procs |-> ConfigAt(stage'[q], q)] = [q \in Procs |-> ConfigAt(stage[q], q)']
    BY <2>1, JobStays DEF ConfigAt
  <2> QED BY <2>3, <2>4, <2>5, <2>6, <2>7 DEF ClusterInv
<1>4. \/ UNCHANGED clusterVars
      \/ \E p \in Procs : Configure(p) \/ DistributeEval(p)
  BY DEF JobNext, ClusterStep, Train, Evaluate, StartPass, NextItem, EndPass, jobVars
<1> QED BY <1>1, <1>2, <1>3, <1>4

(* On every launch path a TF_CONFIG is always the one its stage calls for. *)
THEOREM ConfigsAtStages == JobSpec => []ClusterInv
<1>1. InputsInit => ClusterInv
  <2> SUFFICES ASSUME InputsInit PROVE ClusterInv
    OBVIOUS
  <2>1. /\ job \in Jobs /\ stage = [p \in Procs |-> "started"]
        /\ tfConfig = [p \in Procs |-> Given(p)]
    BY DEF InputsInit, ClusterInit, Given
  <2>2. tfConfig = [p \in Procs |-> ConfigAt(stage[p], p)]
    BY <2>1 DEF ConfigAt
  <2> QED BY <2>1, <2>2 DEF ClusterInv, Stages
<1>2. ClusterInv /\ [JobNext]_jobVars => ClusterInv'
  BY ClusterStepInv
<1> QED BY <1>1, <1>2, PTL DEF JobSpec

LEMMA StagesArranged ==
  ASSUME ClusterInv, NEW p \in Procs, stage[p] # "started"
  PROVE  Arranged(tfConfig[p], p)
<1>1. job \in Jobs /\ stage[p] \in Stages /\ tfConfig[p] = ConfigAt(stage[p], p)
  BY DEF ClusterInv
<1>2. tfConfig[p] = Conf(p) \/ tfConfig[p] = ChiefToMaster(Conf(p))
  BY <1>1 DEF Stages, ConfigAt
<1> QED BY <1>1, <1>2, ConfArranged, ArrangedAsMaster

(* The tasks, once all are configured.                                     *)
LEMMA TasksArePlaces ==
  ASSUME ClusterInv, AllConfigured
  PROVE  {p \in Procs : ~IsPs(p) /\ ~IsEvaluator(p)} = {ProcAt(n) : n \in 0..Followers}
<1>1. job \in Jobs
  BY DEF ClusterInv
<1>2. \A p \in Procs : (IsPs(p) <=> p.type = "ps") /\ (IsEvaluator(p) <=> Alone(p))
  BY <1>1, StagesArranged, Answers DEF AllConfigured
<1> QED BY <1>1, <1>2, PlaceOf, PlaceIsProc

LEMMA PlacesCounted ==
  ASSUME job \in Jobs
  PROVE  /\ IsFiniteSet({ProcAt(n) : n \in 0..Followers})
         /\ Cardinality({ProcAt(n) : n \in 0..Followers}) = Followers + 1
<1> DEFINE S == {ProcAt(n) : n \in 0..Followers}
           f == [n \in 0..Followers |-> ProcAt(n)]
<1>1. Followers \in Nat
  BY Shape
<1>2. IsFiniteSet(0..Followers) /\ Cardinality(0..Followers) = Followers + 1
  BY <1>1, FS_Interval
<1>3. f \in Bijection(0..Followers, S)
  <2>1. f \in [0..Followers -> S]
    OBVIOUS
  <2>2. \A m, n \in 0..Followers : f[m] = f[n] => m = n
    BY PlacesDiffer
  <2>3. \A x \in S : \E n \in 0..Followers : f[n] = x
    OBVIOUS
  <2> QED BY <2>1, <2>2, <2>3 DEF Bijection, Injection, Surjection, IsInjective
<1>4. ExistsBijection(0..Followers, S)
  BY <1>3 DEF ExistsBijection
<1> QED BY <1>2, <1>4, FS_Bijection

(* TasksNumbered: once every process has rewritten its TF_CONFIG, the tasks*)
(* number themselves 0, 1, ... without a gap and agree on how many they    *)
(* are, on every launch path and for any number of workers.                *)
THEOREM TasksAreNumbered == JobSpec => []TasksNumbered
<1>1. ClusterInv => TasksNumbered
  <2> SUFFICES ASSUME ClusterInv, AllConfigured
               PROVE  LET tasks == {p \in Procs : ~IsPs(p) /\ ~IsEvaluator(p)} IN
                      /\ {TaskIndex(p) : p \in tasks} = 0..(Cardinality(tasks) - 1)
                      /\ \A p \in tasks : TaskNum(p) = Cardinality(tasks)
    BY DEF TasksNumbered
  <2> DEFINE S == {ProcAt(n) : n \in 0..Followers}
  <2>1. job \in Jobs /\ Followers \in Nat
    BY Shape DEF ClusterInv
  <2>2. {p \in Procs : ~IsPs(p) /\ ~IsEvaluator(p)} = S
    BY TasksArePlaces
  <2>3. Cardinality(S) = Followers + 1
    BY <2>1, PlacesCounted
  <2>4. \A n \in 0..Followers : TaskIndex(ProcAt(n)) = n /\ TaskNum(ProcAt(n)) = Followers + 1
    BY <2>1, PlaceIsProc, StagesArranged, Answers DEF AllConfigured
  <2>5. {TaskIndex(p) : p \in S} = 0..Followers
    BY <2>4
  <2>6. \A p \in S : TaskNum(p) = Followers + 1
    BY <2>4
  <2> HIDE DEF S
  <2> QED BY <2>1, <2>2, <2>3, <2>5, <2>6
<1> QED BY <1>1, ConfigsAtStages, PTL

(* AddressesFit: the address of its task is a process's own, all at the    *)
(* same stage see the same cluster, and one of them is the chief.          *)
THEOREM AddressesAreFit == JobSpec => []AddressesFit
<1>1. ClusterInv => AddressesFit
  <2> SUFFICES ASSUME ClusterInv, AllConfigured PROVE AddressesFit
    BY DEF AddressesFit
  <2>1. job \in Jobs /\ Followers \in Nat
    BY Shape DEF ClusterInv
  <2>2. \A p \in Procs : Arranged(tfConfig[p], p)
    BY StagesArranged DEF AllConfigured
  <2>3. \A p \in Procs : TaskOf(p).type \in DOMAIN ClusterOf(p) =>
          ClusterOf(p)[TaskOf(p).type][TaskOf(p).index + 1] = p
    BY <2>1, <2>2, OwnAddress
  <2>4. ASSUME NEW p \in Procs, NEW q \in Procs, stage[p] = stage[q]
        PROVE  ClusterOf(p) = ClusterOf(q)
    <3>1. tfConfig[p] = ConfigAt(stage[p], p) /\ tfConfig[q] = ConfigAt(stage[p], q)
          /\ stage[p] \in Stages
      BY <2>4 DEF ClusterInv
    <3> QED BY <2>1, <3>1, SameClusters DEF ConfigAt, Stages, ClusterOf
  <2>5. {p \in Procs : IsChief(p)} = {ProcAt(0)}
    BY <2>1, <2>2, PlaceIsProc, Answers
  <2>6. Cardinality({p \in Procs : IsChief(p)}) = 1
    BY <2>5, FS_Singleton
  <2> QED BY <2>3, <2>4, <2>6 DEF AddressesFit
<1> QED BY <1>1, ConfigsAtStages, PTL

---------------------------------------------------------------------------
(* The rows of an input, and the share of a task in them.                  *)

LEMMA DataFacts ==
  ASSUME data \in Datas
  PROVE  /\ data \in DataType /\ data.kind \in Kinds /\ data.redundant \in BOOLEAN
         /\ Len(data.files) \in Nat \ {0} /\ DOMAIN data.files = 1..Len(data.files)
         /\ \A f \in DOMAIN data.files : data.files[f] \in Nat \ {0}
         /\ data.kind = "criteo" => Len(data.files) = 1
<1>1. data \in DataType /\ Len(data.files) > 0 /\ (data.kind = "criteo" => Len(data.files) = 1)
  BY DatasAssumption
<1>2. data.files \in Seq(Nat \ {0}) /\ data.kind \in Kinds /\ data.redundant \in BOOLEAN
  BY <1>1 DEF DataType
<1>3. \A f \in DOMAIN data.files : data.files[f] \in Nat \ {0}
  BY <1>2
<1> QED BY <1>1, <1>2, <1>3

LEMMA RowFacts ==
  ASSUME NEW row \in Rows, data \in Datas
  PROVE  /\ row = <<row[1], row[2]>> /\ row[1] \in DOMAIN data.files
         /\ row[2] \in 0..(data.files[row[1]] - 1)
  BY DEF Rows, RowsOf

LEMMA RowsFinite ==
  ASSUME data \in Datas
  PROVE  IsFiniteSet(Rows)
<1> DEFINE Of(f) == {f} \X (0..(data.files[f] - 1))
           D == DOMAIN data.files
           S == {Of(f) : f \in D}
           g == [f \in D |-> Of(f)]
<1>1. D = 1..Len(data.files) /\ Len(data.files) \in Nat /\ \A f \in D : data.files[f] \in Nat
  BY DataFacts
<1>2. IsFiniteSet(D)
  BY <1>1, FS_Interval
<1>3. g \in Surjection(D, S)
  BY DEF Surjection
<1>4. IsFiniteSet(S)
  BY <1>2, <1>3, FS_Surjection
<1>5. ASSUME NEW f \in D PROVE IsFiniteSet(Of(f))
  <2>1. IsFiniteSet({f})
    BY FS_Singleton
  <2>2. data.files[f] - 1 \in Int
    BY <1>1
  <2>3. IsFiniteSet(0..(data.files[f] - 1))
    BY <2>2, FS_Interval
  <2> QED BY <2>1, <2>3, FS_Product
<1>6. \A T \in S : IsFiniteSet(T)
  BY <1>5
<1> HIDE DEF S
<1>7. IsFiniteSet(UNION S)
  BY <1>4, <1>6, FS_UNION
<1> QED BY <1>7 DEF S, Rows, RowsOf

(* The share of a task that takes the files in their order.                *)
ShareInOrder(mode, i, n) == Share(mode, i, n, InOrder)
UnitInOrder(mode, n, row) == UnitOf(mode, n, InOrder, row)

LEMMA UnitIsNat ==
  ASSUME data \in Datas, NEW mode, NEW n, NEW turn, NEW row \in Rows
  PROVE  UnitOf(mode, n, turn, row) \in Nat
<1>1. row[1] \in 1..Len(data.files) /\ row[2] \in Nat /\ Len(data.files) \in Nat
  <2>1. data.files[row[1]] \in Nat
    BY RowFacts, DataFacts
  <2> QED BY <2>1, RowFacts, DataFacts
<1>2. Place(turn, row) \in Nat
  <2> DEFINE before ==
             {r \in Rows : \/ turn[r[1]] < turn[row[1]]
                           \/ r[1] = row[1] /\ r[2] < row[2]}
  <2>1. IsFiniteSet(before)
    BY RowsFinite, FS_Subset
  <2>2. Cardinality(before) \in Nat
    BY <2>1, FS_CardinalityType
  <2> QED BY <2>2 DEF Place
<1> QED BY <1>1, <1>2 DEF UnitOf

LEMMA Remainder ==
  ASSUME NEW a \in Nat, NEW b \in Nat \ {0}
  PROVE  a % b \in 0..(b - 1)
  OBVIOUS

(* The row is in the share of the task with its remainder; with            *)
(* chief_redundant the tasks but the chief are numbered from 0.            *)
LEMMA ShareOf ==
  ASSUME data \in Datas, data.kind # "criteo", NEW mode, NEW n \in Nat \ {0}, Divides(mode, n),
         NEW row \in Rows, NEW i \in 0..(n - 1)
  PROVE  /\ ~SharesWithChief(mode) => (row \in ShareInOrder(mode, i, n) <=> UnitInOrder(mode, n, row) % n = i)
         /\ SharesWithChief(mode) /\ n = 1 => row \in ShareInOrder(mode, i, n)
         /\ SharesWithChief(mode) /\ n > 1 =>
              LET m == UnitInOrder(mode, n, row) % (n - 1) IN
              /\ m \in 0..(n - 2)
              /\ row \in ShareInOrder(mode, i, n) <=> i = m + 1 \/ (m = 0 /\ i = 0)
<1> DEFINE parts == IF SharesWithChief(mode) THEN AtLeast(n - 1, 1) ELSE n
           mine  == IF SharesWithChief(mode) THEN AtLeast(i - 1, 0) ELSE i
           u == UnitInOrder(mode, n, row)
<1>1. row \in ShareInOrder(mode, i, n) <=> u % parts = mine
  BY DEF ShareInOrder, UnitInOrder, Share, Parts
<1>2. u \in Nat
  BY UnitIsNat DEF UnitInOrder
<1> HIDE DEF u
<1>3. CASE ~SharesWithChief(mode)
  BY <1>1, <1>3 DEF u
<1>4. CASE SharesWithChief(mode) /\ n = 1
  <2>1. parts = 1 /\ mine = 0
    BY <1>4 DEF AtLeast
  <2>2. u % 1 = 0
    BY <1>2, Remainder
  <2> QED BY <1>1, <1>4, <2>1, <2>2
<1>5. CASE SharesWithChief(mode) /\ n > 1
  <2>1. parts = n - 1 /\ n - 1 \in Nat \ {0} /\ mine = IF i = 0 THEN 0 ELSE i - 1
    BY <1>5 DEF AtLeast
  <2>2. u % (n - 1) \in 0..(n - 2)
    BY <1>2, <2>1, Remainder
  <2>3. row \in ShareInOrder(mode, i, n) <=> u % (n - 1) = IF i = 0 THEN 0 ELSE i - 1
    BY <1>1, <2>1
  <2>4. (u % (n - 1) = IF i = 0 THEN 0 ELSE i - 1)
          <=> (i = (u % (n - 1)) + 1 \/ (u % (n - 1) = 0 /\ i = 0))
    BY <2>1, <2>2
  <2> QED BY <1>5, <2>2, <2>3, <2>4 DEF u
<1> QED BY <1>3, <1>4, <1>5

(* A task that has no order of its own gets the share it would get in the  *)
(* order of the files: they are not shuffled, or divided by file, or there *)
(* is only one of them, or only one share.                                 *)
LEMMA OrderIsNothing ==
  ASSUME data \in Datas, NEW mode, NEW n \in Nat \ {0}, NEW i \in 0..(n - 1),
         NEW turn \in FileOrders(mode), ~OwnOrder(mode, n)
  PROVE  Share(mode, i, n, turn) = ShareInOrder(mode, i, n)
<1>1. CASE ~ShufflesFiles(mode)
  BY <1>1 DEF FileOrders, ShareInOrder
<1>2. CASE ByFile(mode, n)
  BY <1>2 DEF Share, ShareInOrder, UnitOf
<1>3. CASE ShufflesFiles(mode) /\ ~(Len(data.files) > 1)
  <2>1. DOMAIN data.files = {1}
    BY <1>3, DataFacts
  <2>2. turn \in [{1} -> {1}] /\ InOrder \in [{1} -> {1}]
    BY <1>3, <2>1 DEF FileOrders, InOrder
  <2>3. turn = InOrder
    <3>1. turn = [f \in {1} |-> turn[f]] /\ InOrder = [f \in {1} |-> InOrder[f]]
      BY <2>2
    <3>2. turn[1] = 1 /\ InOrder[1] = 1
      BY <2>2
    <3> QED BY <3>1, <3>2
  <2> QED BY <2>3 DEF ShareInOrder
<1>4. CASE ~(Parts(mode, n) > 1)
  <2>1. Parts(mode, n) = 1
    BY <1>4 DEF Parts, AtLeast
  <2>2. \A row \in Rows : UnitOf(mode, n, turn, row) % 1 = UnitOf(mode, n, InOrder, row) % 1
    BY UnitIsNat
  <2>3. \A row \in Rows : UnitOf(mode, n, turn, row) % Parts(mode, n)
                           = UnitOf(mode, n, InOrder, row) % Parts(mode, n)
    BY <2>1, <2>2
  <2> QED BY <2>3 DEF Share, ShareInOrder
<1> QED BY <1>1, <1>2, <1>3, <1>4 DEF OwnOrder

---------------------------------------------------------------------------
(* The criteo reader with one file: the ranks' batches cover it.           *)

LEMMA Division ==
  ASSUME NEW i \in Nat, NEW d \in Nat \ {0}
  PROVE  /\ i \div d \in Nat /\ i % d \in 0..(d - 1)
         /\ i = d * (i \div d) + (i % d)
         /\ d * (i \div d) <= i /\ i < d * (i \div d) + d /\ d * (i \div d) \in Nat
<1>1. (i % d) \in 0..(d - 1) /\ i \div d \in Int
  OBVIOUS
<1>2. i = (i % d) + (i \div d) * d
  OBVIOUS
<1>3. i \div d >= 0
  BY <1>1, <1>2
<1> DEFINE q == i \div d
<1>4. q \in Nat
  BY <1>1, <1>3
<1>5. i = (i % d) + q * d
  BY <1>2
<1> HIDE DEF q
<1>6. q * d = d * q /\ d * q \in Nat
  BY <1>4
<1>7. i = (i % d) + d * q
  BY <1>5, <1>6
<1> DEFINE b == d * q
<1> HIDE DEF b
<1>8. b \in Nat /\ i = (i % d) + b
  BY <1>6, <1>7 DEF b
<1>9. b <= i /\ i < b + d /\ i = b + (i % d)
  BY <1>1, <1>8
<1> QED BY <1>1, <1>4, <1>6, <1>9 DEF q, b

LEMMA ProductsRise ==
  ASSUME NEW a \in Nat, NEW x \in Nat, NEW y \in Nat, x <= y
  PROVE  a * x <= a * y /\ a * x \in Nat /\ a * y \in Nat
<1> DEFINE z == y - x
<1>1. z \in Nat /\ y = x + z
  OBVIOUS
<1> HIDE DEF z
<1>2. a * (x + z) = a * x + a * z
  BY <1>1
<1>3. a * x \in Nat /\ a * z \in Nat
  BY <1>1
<1> QED BY <1>1, <1>2, <1>3

LEMMA ProductRise ==
  ASSUME NEW a \in Nat, NEW x \in Nat
  PROVE  a * (x + 1) = a * x + a /\ (a + 1) * x = a * x + x /\ a * x \in Nat
  OBVIOUS

OneFile(files, N) == N \in Nat \ {0} /\ Len(files) = 1 /\ DOMAIN files = {1} /\ files[1] = N

LEMMA OneFileRows ==
  ASSUME NEW files, NEW N, OneFile(files, N)
  PROVE  /\ RowsOf(files) = {1} \X (0..(N - 1))
         /\ Total(files) = N
         /\ FirstOf(files, 1) = 0 /\ FirstOf(files, 2) = N /\ PassedRows(files, 1) = 0
<1>1. N \in Nat \ {0} /\ DOMAIN files = {1} /\ files[1] = N
  BY DEF OneFile
<1>2. RowsOf(files) = {1} \X (0..(N - 1))
  BY <1>1 DEF RowsOf
<1>3. Cardinality({1} \X (0..(N - 1))) = N
  <2>1. IsFiniteSet({1}) /\ Cardinality({1}) = 1
    BY FS_Singleton
  <2>2. 0 \in Int /\ N - 1 \in Int /\ ~(0 > N - 1)
    BY <1>1
  <2>3. IsFiniteSet(0..(N - 1)) /\ Cardinality(0..(N - 1)) = N - 1 - 0 + 1
    BY <2>2, FS_Interval
  <2>4. Cardinality({1} \X (0..(N - 1))) = Cardinality({1}) * Cardinality(0..(N - 1))
    BY <2>1, <2>3, FS_Product
  <2>5. N - 1 - 0 + 1 = N /\ 1 * N = N
    BY <1>1
  <2> QED BY <2>1, <2>3, <2>4, <2>5
<1>4. {row \in RowsOf(files) : row[1] < 1} = {} /\ {row \in RowsOf(files) : row[1] \in 2..1} = {}
  BY <1>2
<1>5. {row \in RowsOf(files) : row[1] < 2} = RowsOf(files)
  BY <1>2
<1> QED BY <1>2, <1>3, <1>4, <1>5, FS_EmptySet DEF Total, FirstOf, PassedRows

(* The shares lie in the file, and every row is in one of them.            *)
LEMMA SharesCover ==
  ASSUME NEW files, NEW N, OneFile(files, N), NEW size \in Nat \ {0}
  PROVE  /\ NumSamples(files, size) \in Nat \ {0}
         /\ \A r \in 0..(size - 1) :
              /\ GlobalStart(files, r, size) \in Nat
              /\ GlobalStart(files, r, size) + NumSamples(files, size) <= N
         /\ \A i \in 0..(N - 1) : \E r \in 0..(size - 1) :
              /\ GlobalStart(files, r, size) <= i
              /\ i < GlobalStart(files, r, size) + NumSamples(files, size)
<1> DEFINE avg == N \div size
           res == N % size
           start(r) == GlobalStart(files, r, size)
           num == NumSamples(files, size)
<1>1. N \in Nat \ {0} /\ Total(files) = N
  BY OneFileRows DEF OneFile
<1>2. avg \in Nat /\ res \in 0..(size - 1) /\ N = size * avg + res
  BY <1>1, Division
<1>3. num = IF res > 0 THEN avg + 1 ELSE avg
  BY <1>1, <1>2 DEF NumSamples
<1>4. \A r \in Nat : start(r) = IF res = 0 THEN avg * r
                               ELSE IF r < res THEN (avg + 1) * r ELSE avg * r + res - 1
  BY <1>1 DEF GlobalStart
<1> HIDE DEF avg, res, start, num
<1>5. num \in Nat \ {0}
  <2>1. res = 0 => avg # 0
    <3> SUFFICES ASSUME res = 0, avg = 0 PROVE FALSE
      OBVIOUS
    <3>1. size * avg = 0
      OBVIOUS
    <3> QED BY <1>1, <1>2, <3>1
  <2> QED BY <1>2, <1>3, <2>1
<1>6. size * avg = avg * size /\ avg * size \in Nat
  BY <1>2
<1>7. ASSUME NEW r \in 0..(size - 1)
      PROVE  start(r) \in Nat /\ start(r) + num <= N
  <2>1. avg * (r + 1) <= avg * size /\ avg * (r + 1) = avg * r + avg /\ avg * r \in Nat
    BY <1>2, ProductsRise, ProductRise
  <2>2. (avg + 1) * r = avg * r + r
    BY <1>2, ProductRise
  <2>3. CASE res = 0
    BY <1>2, <1>3, <1>4, <1>6, <2>1, <2>3
  <2>4. CASE res > 0 /\ r < res
    <3>1. start(r) = avg * r + r /\ num = avg + 1
      BY <1>2, <1>3, <1>4, <2>2, <2>4
    <3> QED BY <1>2, <1>6, <2>1, <2>4, <3>1
  <2>5. CASE res > 0 /\ r >= res
    <3>1. start(r) = avg * r + res - 1 /\ num = avg + 1
      BY <1>2, <1>3, <1>4, <2>5
    <3> QED BY <1>2, <1>6, <2>1, <2>5, <3>1
  <2> QED BY <1>2, <2>3, <2>4, <2>5
<1>8. ASSUME NEW i \in 0..(N - 1)
      PROVE  \E r \in 0..(size - 1) : start(r) <= i /\ i < start(r) + num
  <2>1. CASE res = 0
    <3> DEFINE r == i \div avg
    <3>1. avg \in Nat \ {0} /\ num = avg
      BY <1>2, <1>3, <1>5, <2>1
    <3>2. r \in Nat /\ avg * r <= i /\ i < avg * r + avg /\ avg * r \in Nat
      <4>1. i \in Nat
        BY <1>1
      <4> QED BY <3>1, <4>1, Division, Zenon
    <3> HIDE DEF r
    <3>3. r < size
      <4> SUFFICES ASSUME size <= r PROVE FALSE
        BY <3>2
      <4>1. avg * size <= avg * r
        BY <1>2, <3>2, ProductsRise
      <4> QED BY <1>1, <1>2, <1>6, <2>1, <3>2, <4>1
    <3>4. start(r) = avg * r
      BY <1>4, <2>1, <3>2
    <3> QED BY <3>1, <3>2, <3>3, <3>4
  <2>2. CASE res > 0 /\ i < (avg + 1) * res
    <3> DEFINE r == i \div (avg + 1)
    <3>1. avg + 1 \in Nat \ {0} /\ num = avg + 1
      BY <1>2, <1>3, <2>2
    <3>2. r \in Nat /\ (avg + 1) * r <= i /\ i < (avg + 1) * r + (avg + 1) /\ (avg + 1) * r \in Nat
      <4>1. i \in Nat
        BY <1>1
      <4> QED BY <3>1, <4>1, Division, Zenon
    <3> HIDE DEF r
    <3>3. r < res
      <4> SUFFICES ASSUME res <= r PROVE FALSE
        BY <1>2, <3>2
      <4>1. (avg + 1) * res <= (avg + 1) * r /\ (avg + 1) * res \in Nat
        BY <1>2, <3>1, <3>2, ProductsRise
      <4> QED BY <1>2, <2>2, <3>2, <4>1
    <3>4. start(r) = (avg + 1) * r
      BY <1>2, <1>4, <2>2, <3>2, <3>3
    <3>5. r \in 0..(size - 1)
      BY <1>2, <3>2, <3>3
    <3> QED BY <3>1, <3>2, <3>4, <3>5
  <2>3. CASE res > 0 /\ i >= (avg + 1) * res
    <3> DEFINE d == i - res
               r == d \div avg
    <3>1. (avg + 1) * res = avg * res + res /\ avg * res \in Nat
      BY <1>2, ProductRise
    <3>2. d \in Nat /\ avg * res <= d /\ d < avg * size
      BY <1>1, <1>2, <1>6, <2>3, <3>1
    <3>3. avg \in Nat \ {0} /\ num = avg + 1
      <4>1. avg = 0 => avg * size = 0
        OBVIOUS
      <4> QED BY <1>2, <1>3, <2>3, <3>2, <4>1
    <3> HIDE DEF d
    <3>4. r \in Nat /\ avg * r <= d /\ d < avg * r + avg /\ avg * r \in Nat
      BY <3>2, <3>3, Division
    <3> HIDE DEF r
    <3>5. r < size
      <4> SUFFICES ASSUME size <= r PROVE FALSE
        BY <3>4
      <4>1. avg * size <= avg * r
        BY <1>2, <3>4, ProductsRise
      <4> QED BY <1>6, <3>2, <3>4, <4>1
    <3>6. r >= res
      <4> SUFFICES ASSUME r + 1 <= res PROVE FALSE
        BY <1>2, <3>4
      <4>1. avg * (r + 1) <= avg * res /\ avg * (r + 1) = avg * r + avg
        BY <1>2, <3>4, ProductsRise, ProductRise
      <4> QED BY <1>2, <3>1, <3>2, <3>3, <3>4, <4>1
    <3>7. start(r) = avg * r + res - 1
      BY <1>2, <1>4, <2>3, <3>4, <3>6
    <3>8. i = d + res
      BY <1>2 DEF d
    <3> QED BY <1>2, <2>3, <3>2, <3>3, <3>4, <3>5, <3>7, <3>8
  <2>4. (avg + 1) * res \in Nat
    BY <1>2, ProductRise
  <2> QED BY <1>2, <2>1, <2>2, <2>3, <2>4
<1> QED BY <1>5, <1>7, <1>8 DEF start, num

(* Where the batches are when there is one file.                           *)
LEMMA OneFileBatches ==
  ASSUME NEW files, NEW N, OneFile(files, N), NEW size \in Nat \ {0}, NEW r \in 0..(size - 1)
  PROVE  /\ NumEntries(files, size) \in Nat \ {0}
         /\ DOMAIN Batches(files, r, size) = 1..NumEntries(files, size)
         /\ \A k \in 1..NumEntries(files, size) :
              Batches(files, r, size)[k] =
                {row \in RowsOf(files) :
                   /\ GlobalStart(files, r, size) + (k - 1) * BatchSize <= row[2]
                   /\ row[2] < GlobalStart(files, r, size) + (k - 1) * BatchSize + BatchSize}
<1> DEFINE start == GlobalStart(files, r, size)
           num == NumSamples(files, size)
           entries == NumEntries(files, size)
<1>1. BatchSize \in Nat \ {0}
  BY ReaderAssumption
<1>2. /\ N \in Nat \ {0} /\ Len(files) = 1 /\ DOMAIN files = {1} /\ files[1] = N
      /\ RowsOf(files) = {1} \X (0..(N - 1))
      /\ FirstOf(files, 1) = 0 /\ FirstOf(files, 2) = N /\ PassedRows(files, 1) = 0
  BY OneFileRows DEF OneFile
<1>3. num \in Nat \ {0} /\ start \in Nat /\ start + num <= N
  BY SharesCover
<1>4. entries \in Nat \ {0} /\ BatchSize * entries < num + BatchSize
  <2>1. entries = (num + BatchSize - 1) \div BatchSize
    BY DEF NumEntries
  <2> HIDE DEF entries, num
  <2>2. num + BatchSize - 1 \in Nat
    BY <1>1, <1>3
  <2>3. /\ entries \in Nat /\ BatchSize * entries \in Nat
        /\ BatchSize * entries <= num + BatchSize - 1
        /\ num + BatchSize - 1 < BatchSize * entries + BatchSize
    BY <1>1, <2>1, <2>2, Division
  <2>4. entries # 0
    <3> SUFFICES ASSUME entries = 0 PROVE FALSE
      OBVIOUS
    <3>1. BatchSize * 0 = 0
      BY <1>1
    <3> QED BY <1>1, <1>3, <2>3, <3>1
  <2> QED BY <1>1, <1>3, <2>3, <2>4
<1>5. DOMAIN Batches(files, r, size) = 1..entries
  BY DEF Batches
<1>6. ASSUME NEW k \in 1..entries
      PROVE  Batches(files, r, size)[k] =
               {row \in RowsOf(files) : /\ start + (k - 1) * BatchSize <= row[2]
                                        /\ row[2] < start + (k - 1) * BatchSize + BatchSize}
  <2> DEFINE pos == start + (k - 1) * BatchSize
  <2>1. pos \in Nat /\ pos < N
    <3>1. BatchSize * k <= BatchSize * entries
      BY <1>1, <1>4, ProductsRise
    <3>2. (k - 1) * BatchSize = BatchSize * k - BatchSize /\ BatchSize * k \in Nat
      BY <1>1
    <3>3. (k - 1) * BatchSize \in Nat
      BY <1>1
    <3> HIDE DEF start, num
    <3>4. (k - 1) * BatchSize < num
      BY <1>1, <1>3, <1>4, <3>1, <3>2
    <3>5. ASSUME NEW a \in Nat, a < num
          PROVE  start + a \in Nat /\ start + a < N
      BY <1>2, <1>3, <3>5
    <3> QED BY <3>3, <3>4, <3>5
  <2>2. StartFile(files, start) = 1
    <3>1. {f \in DOMAIN files : PassedRows(files, f) + files[f] > start} = {1}
      <4>1. PassedRows(files, 1) + files[1] > start
        BY <1>2, <1>3
      <4> QED BY <1>2, <4>1
    <3>2. Min({1}) = 1
      BY DEF Min
    <3> QED BY <3>1, <3>2 DEF StartFile
  <2>3. BatchStart(files, r, size, k - 1) = <<1, pos>>
    <3>1. FirstOf(files, 1) + start - PassedRows(files, 1) + (k - 1) * BatchSize = pos
      <4>1. (k - 1) * BatchSize \in Int
        BY <1>1
      <4> HIDE DEF start
      <4> QED BY <1>2, <1>3, <4>1
    <3> HIDE DEF pos
    <3>2. {f \in 1..Len(files) : FirstOf(files, f + 1) > pos} = {1}
      <4>1. 1..Len(files) = {1} /\ 1 + 1 = 2
        BY <1>2
      <4> QED BY <1>2, <2>1, <4>1
    <3>3. Min({1}) = 1
      BY DEF Min
    <3>4. pos - FirstOf(files, 1) = pos
      BY <1>2, <2>1
    <3> QED BY <2>2, <3>1, <3>2, <3>3, <3>4 DEF BatchStart
  <2> HIDE DEF pos
  <2>4. BatchOf(files, <<1, pos>>) = {row \in RowsOf(files) : pos <= row[2] /\ row[2] < pos + BatchSize}
    <3> DEFINE at == <<1, pos>>
               end == at[2] + BatchSize
               Got(f) == {row \in RowsOf(files) : /\ row[1] \in at[1]..f /\ row[2] < end
                                                  /\ row[1] = at[1] => row[2] >= at[2]}
               used == {f \in at[1]..Len(files) : f = at[1] \/ Cardinality(Got(f - 1)) < BatchSize}
    <3>1. BatchOf(files, at) = UNION {Got(f) : f \in used}
      BY DEF BatchOf
    <3>2. at[1] = 1 /\ at[2] = pos /\ end = pos + BatchSize
      OBVIOUS
    <3>3. used = {1}
      <4>1. at[1]..Len(files) = {1}
        BY <1>2, <3>2
      <4> HIDE DEF Got
      <4> QED BY <3>2, <4>1
    <3>4. Got(1) = {row \in RowsOf(files) : pos <= row[2] /\ row[2] < pos + BatchSize}
      <4>1. \A row \in RowsOf(files) : row[1] = 1 /\ row[2] \in Nat
        BY <1>2
      <4> QED BY <2>1, <3>2, <4>1
    <3> HIDE DEF used, Got
    <3> QED BY <3>1, <3>3, <3>4
  <2>5. Batches(files, r, size)[k] = BatchOf(files, BatchStart(files, r, size, k - 1))
    BY DEF Batches
  <2> QED BY <2>3, <2>4, <2>5 DEF pos
<1> QED BY <1>4, <1>5, <1>6

(* Every row is in a batch of some rank.                                   *)
LEMMA BatchesCover ==
  ASSUME data \in Datas, data.kind = "criteo", NEW size \in Nat \ {0}, NEW row \in Rows
  PROVE  \E r \in 0..(size - 1) : \E k \in DOMAIN Batches(data.files, r, size) :
           row \in Batches(data.files, r, size)[k]
<1> DEFINE files == data.files
           N == files[1]
           num == NumSamples(files, size)
           entries == NumEntries(files, size)
<1>1. OneFile(files, N)
  BY DataFacts DEF OneFile
<1>2. BatchSize \in Nat \ {0} /\ N \in Nat \ {0}
  BY <1>1, ReaderAssumption DEF OneFile
<1>3. Rows = {1} \X (0..(N - 1)) /\ Rows = RowsOf(files)
  BY <1>1, OneFileRows DEF Rows
<1>4. row[2] \in 0..(N - 1)
  BY <1>3
<1> HIDE DEF files, N
<1>5. PICK r \in 0..(size - 1) : /\ GlobalStart(files, r, size) <= row[2]
                                /\ row[2] < GlobalStart(files, r, size) + num
  BY <1>1, <1>4, SharesCover
<1>6. GlobalStart(files, r, size) \in Nat /\ num \in Nat \ {0}
  BY <1>1, SharesCover
<1> DEFINE start == GlobalStart(files, r, size)
           d == row[2] - start
           k == d \div BatchSize
<1>7. d \in Nat /\ d < num
  BY <1>2, <1>4, <1>5, <1>6
<1> HIDE DEF d
<1>8. k \in Nat /\ BatchSize * k <= d /\ d < BatchSize * k + BatchSize /\ BatchSize * k \in Nat
  BY <1>2, <1>7, Division
<1>9. entries \in Nat /\ num <= BatchSize * entries /\ BatchSize * entries \in Nat
  <2>1. entries = (num + BatchSize - 1) \div BatchSize
    BY DEF NumEntries
  <2> HIDE DEF entries, num
  <2>2. num + BatchSize - 1 \in Nat
    BY <1>2, <1>6
  <2>3. /\ entries \in Nat /\ BatchSize * entries \in Nat
        /\ num + BatchSize - 1 < BatchSize * entries + BatchSize
    BY <1>2, <2>1, <2>2, Division
  <2> QED BY <1>2, <1>6, <2>3
<1> HIDE DEF k, num, entries, start
<1>10. k < entries
  <2> SUFFICES ASSUME entries <= k PROVE FALSE
    BY <1>8, <1>9
  <2>1. BatchSize * entries <= BatchSize * k
    BY <1>2, <1>8, <1>9, ProductsRise
  <2> QED BY <1>6, <1>7, <1>8, <1>9, <2>1 DEF num
<1>11. k + 1 \in 1..entries
  BY <1>8, <1>9, <1>10
<1>12. ((k + 1) - 1) * BatchSize = BatchSize * k
  <2>1. (k + 1) - 1 = k
    BY <1>8
  <2> QED BY <1>2, <1>8, <2>1
<1>13. row[2] = d + start /\ start \in Nat
  BY <1>4, <1>6 DEF d, start
<1>14. start + BatchSize * k <= row[2] /\ row[2] < start + BatchSize * k + BatchSize
  BY <1>2, <1>7, <1>8, <1>13
<1>15. /\ DOMAIN Batches(files, r, size) = 1..entries
       /\ Batches(files, r, size)[k + 1] =
            {x \in RowsOf(files) :
               /\ start + ((k + 1) - 1) * BatchSize <= x[2]
               /\ x[2] < start + ((k + 1) - 1) * BatchSize + BatchSize}
  BY <1>1, <1>11, OneFileBatches DEF start, entries
<1>16. row \in Batches(files, r, size)[k + 1]
  BY <1>3, <1>12, <1>14, <1>15
<1> QED BY <1>11, <1>15, <1>16 DEF files

---------------------------------------------------------------------------
(* What an epoch of training reads.                                        *)

(* The job and the input stay what they are, and so do the shares.         *)
LEMMA InputStays ==
  ASSUME UNCHANGED job, UNCHANGED data
  PROVE  /\ Followers' = Followers /\ Procs' = Procs
         /\ \A n : ProcAt(n)' = ProcAt(n)
         /\ \A mode, i, n, turn : Share(mode, i, n, turn)' = Share(mode, i, n, turn)
         /\ \A mode, i, n : ShareInOrder(mode, i, n)' = ShareInOrder(mode, i, n)
         /\ \A mode : FileOrders(mode)' = FileOrders(mode)
<1>1. Workers' = Workers /\ Leading' = Leading /\ Joins' = Joins /\ GivenLeader' = GivenLeader
  BY DEF Workers, Leading, Joins, GivenLeader, Count
<1>2. Followers' = Followers /\ \A n : ProcAt(n)' = ProcAt(n)
  BY <1>1 DEF Followers, ProcAt
<1>3. \A mode, n : /\ SharesWithChief(mode)' = SharesWithChief(mode)
                   /\ Divides(mode, n)' = Divides(mode, n) /\ ByFile(mode, n)' = ByFile(mode, n)
  <2>1. \A mode, n : SharesWithChief(mode)' = SharesWithChief(mode)
    BY DEF SharesWithChief
  <2>2. \A mode, n : Divides(mode, n)' = Divides(mode, n)
    BY DEF Divides
  <2>3. \A mode, n : ByFile(mode, n)' = ByFile(mode, n)
    BY DEF ByFile
  <2> QED BY <2>1, <2>2, <2>3
<1>4. Rows' = Rows /\ (\A turn, row : Place(turn, row)' = Place(turn, row))
      /\ \A i, n : BatchesOf(i, n)' = BatchesOf(i, n)
  <2>1. Rows' = Rows /\ \A i, n : BatchesOf(i, n)' = BatchesOf(i, n)
    BY DEF Rows, BatchesOf
  <2> QED BY <2>1 DEF Place
<1>5. \A mode, n, turn, row : UnitOf(mode, n, turn, row)' = UnitOf(mode, n, turn, row)
  BY <1>3, <1>4 DEF UnitOf
<1>6. ASSUME NEW mode, NEW i, NEW n, NEW turn
      PROVE  Share(mode, i, n, turn)' = Share(mode, i, n, turn)
  <2>1. /\ SharesWithChief(mode)' = SharesWithChief(mode) /\ Divides(mode, n)' = Divides(mode, n)
        /\ Rows' = Rows /\ BatchesOf(i, n)' = BatchesOf(i, n) /\ data' = data
        /\ \A row : UnitOf(mode, n, turn, row)' = UnitOf(mode, n, turn, row)
    BY <1>3, <1>4, <1>5
  <2> DEFINE parts == Parts(mode, n)
             mine == IF SharesWithChief(mode) THEN AtLeast(i - 1, 0) ELSE i
             Whole == IF data.kind = "criteo" THEN UNION BatchesOf(i, n) ELSE Rows
             Part == {row \in Rows : UnitOf(mode, n, turn, row) % parts = mine}
             divided == data.kind # "criteo" /\ Divides(mode, n)
  <2>2. Share(mode, i, n, turn) = (IF divided THEN Part ELSE Whole)
    BY DEF Share
  <2>3. Share(mode, i, n, turn)' = (IF divided' THEN Part' ELSE Whole')
    BY DEF Share
  <2>4. parts' = parts /\ mine' = mine
    BY <2>1 DEF Parts
  <2>5. Whole' = Whole /\ divided' = divided
    BY <2>1
  <2> HIDE DEF parts, mine
  <2>6. Part' = Part
    BY <2>1, <2>4
  <2> HIDE DEF Part, Whole, divided
  <2> QED BY <2>2, <2>3, <2>5, <2>6
<1>7. InOrder' = InOrder /\ \A mode : FileOrders(mode)' = FileOrders(mode)
  <2>1. InOrder' = InOrder
    BY DEF InOrder
  <2> QED BY <2>1 DEF FileOrders, ShufflesFiles
<1>8. \A mode, i, n : ShareInOrder(mode, i, n)' = ShareInOrder(mode, i, n)
  BY <1>6, <1>7 DEF ShareInOrder
<1> QED BY <1>2, <1>6, <1>7, <1>8, JobStays

ReadsInv ==
  /\ data \in Datas /\ DOMAIN reads = Procs
  /\ \A p \in Procs : reads[p] # <<>> =>
       \E n \in 0..Followers, turn \in FileOrders("train") :
         p = ProcAt(n) /\ reads[p] = <<Share("train", n, Followers + 1, turn)>>

LEMMA ReadsStep ==
  ASSUME ClusterInv, ReadsInv, [JobNext]_jobVars
  PROVE  ReadsInv'
<1>1. UNCHANGED job /\ UNCHANGED data
  BY DEF JobNext, ClusterStep, Configure, DistributeEval, Train, Evaluate, StartPass, NextItem,
         EndPass, jobVars, clusterVars, inputVars
<1>2. ASSUME NEW p \in Procs, Train(p)
      PROVE  ReadsInv'
  <2>1. stage[p] # "started" /\ ~IsEvaluator(p) /\ ~IsPs(p)
    BY <1>2 DEF Train, Trains
  <2>2. job \in Jobs /\ Arranged(tfConfig[p], p)
    BY <2>1, StagesArranged DEF ClusterInv
  <2>3. PICK n \in 0..Followers : p = ProcAt(n)
    BY <2>1, <2>2, PlaceOf, Answers
  <2>4. TaskIndex(p) = n /\ TaskNum(p) = Followers + 1
    BY <2>2, <2>3, Answers
  <2>5. PICK turn \in FileOrders("train") :
          reads' = [reads EXCEPT ![p] = <<Share("train", TaskIndex(p), TaskNum(p), turn)>>]
    BY <1>2 DEF Train
  <2>6. DOMAIN reads' = Procs /\ \A q \in Procs : reads'[q] # <<>> =>
          \E m \in 0..Followers, own \in FileOrders("train") :
            q = ProcAt(m) /\ reads'[q] = <<Share("train", m, Followers + 1, own)>>
    BY <2>3, <2>4, <2>5 DEF ReadsInv
  <2> QED BY <1>1, <2>6, InputStays DEF ReadsInv
<1>3. CASE UNCHANGED reads
  BY <1>1, <1>3, InputStays DEF ReadsInv
<1>4. UNCHANGED reads \/ \E p \in Procs : Train(p)
  BY DEF JobNext, ClusterStep, Evaluate, StartPass, NextItem, EndPass, jobVars, inputVars
<1> QED BY <1>2, <1>3, <1>4

(* Who trains, and what each has read.                                     *)
LEMMA TrainersArePlaces ==
  ASSUME ClusterInv, ReadsInv, AllConfigured, \A p \in Trainers : reads[p] # <<>>, Trainers # {},
         \A p \in Trainers : ~OwnOrder("train", TaskNum(p))
  PROVE  /\ Trainers = {ProcAt(n) : n \in 0..Followers}
         /\ \A n \in 0..Followers : /\ IsChief(ProcAt(n)) <=> n = 0
                                    /\ reads[ProcAt(n)] = <<ShareInOrder("train", n, Followers + 1)>>
<1>1. job \in Jobs /\ Followers \in Nat /\ data \in Datas
  BY Shape DEF ClusterInv, ReadsInv
<1>2. job.cmd = "train"
  BY DEF Trainers, Trains
<1>3. Trainers = {ProcAt(n) : n \in 0..Followers}
  BY <1>2, TasksArePlaces DEF Trainers, Trains
<1>4. ~OwnOrder("train", Followers + 1)
  <2>1. PICK p \in Trainers : ~OwnOrder("train", TaskNum(p))
    OBVIOUS
  <2>2. /\ p \in Procs /\ stage[p] # "started"
        /\ p \in {q \in Procs : ~IsPs(q) /\ ~IsEvaluator(q)}
    BY DEF Trainers, Trains, AllConfigured
  <2>3. PICK n \in 0..Followers : p = ProcAt(n)
    BY <2>2, TasksArePlaces
  <2>4. TaskNum(p) = Followers + 1
    BY <1>1, <2>2, <2>3, StagesArranged, Answers
  <2> QED BY <2>1, <2>4
<1>5. ASSUME NEW n \in 0..Followers
      PROVE  /\ IsChief(ProcAt(n)) <=> n = 0
             /\ reads[ProcAt(n)] = <<ShareInOrder("train", n, Followers + 1)>>
  <2>1. ProcAt(n) \in Procs /\ ProcAt(n) \in Trainers /\ 0 \in 0..Followers
    BY <1>1, <1>3, PlaceIsProc
  <2>2. IsChief(ProcAt(n)) <=> ProcAt(n) = ProcAt(0)
    BY <1>1, <2>1, StagesArranged, Answers DEF AllConfigured
  <2>3. IsChief(ProcAt(n)) <=> n = 0
    BY <1>1, <2>1, <2>2, PlacesDiffer
  <2>4. PICK m \in 0..Followers, turn \in FileOrders("train") :
          ProcAt(n) = ProcAt(m) /\ reads[ProcAt(n)] = <<Share("train", m, Followers + 1, turn)>>
    BY <2>1 DEF ReadsInv
  <2>5. m = n
    BY <1>1, <2>4, PlacesDiffer
  <2>6. Share("train", n, Followers + 1, turn) = ShareInOrder("train", n, Followers + 1)
    BY <1>1, <1>4, OrderIsNothing
  <2> QED BY <2>3, <2>4, <2>5, <2>6
<1> QED BY <1>3, <1>5

(* A row's readers, among all that train and among those that learn.       *)
LEMMA ReadersOf ==
  ASSUME ClusterInv, ReadsInv, AllConfigured, \A p \in Trainers : reads[p] # <<>>, Trainers # {},
         \A p \in Trainers : ~OwnOrder("train", TaskNum(p)),
         NEW row \in Rows
  PROVE  LET readers == {p \in Trainers : row \in reads[p][1]} IN
         /\ readers # {}
         /\ data.kind # "criteo" => \E q \in Procs : readers \cap Learners \subseteq {q}
         /\ (data.redundant => SharesWithChief("train") /\ Cardinality(Trainers) > 1) =>
              readers \cap Learners # {}
<1> DEFINE readers == {p \in Trainers : row \in reads[p][1]}
           N == Followers + 1
           At(n) == ShareInOrder("train", n, N)
           u == UnitInOrder("train", N, row)
<1>1. job \in Jobs /\ data \in Datas /\ Followers \in Nat /\ N \in Nat \ {0}
  BY Shape DEF ClusterInv, ReadsInv
<1>2. /\ Trainers = {ProcAt(n) : n \in 0..Followers}
      /\ \A n \in 0..Followers : IsChief(ProcAt(n)) <=> n = 0
      /\ \A n \in 0..Followers : reads[ProcAt(n)] = <<At(n)>>
  BY TrainersArePlaces
<1>3. \A n \in 0..Followers : ProcAt(n) \in Procs /\ ProcAt(n) \in Trainers
  BY <1>1, <1>2, PlaceIsProc
<1>4. \A n \in 0..Followers : ProcAt(n) \in readers <=> row \in At(n)
  <2>1. \A n \in 0..Followers : reads[ProcAt(n)][1] = At(n)
    BY <1>2
  <2> HIDE DEF At
  <2> QED BY <1>3, <2>1
<1>5. \A n \in 0..Followers :
        ProcAt(n) \in Learners <=> ~(data.redundant /\ n = 0)
  BY <1>2, <1>3 DEF Learners
<1>6. \A p \in readers : \E n \in 0..Followers : p = ProcAt(n)
  BY <1>2
<1> HIDE DEF readers, At
<1>7. Divides("train", N)
  BY DEF Divides
<1>8. CASE data.kind = "criteo"
  <2>1. PICK r \in 0..(N - 1) : \E k \in DOMAIN Batches(data.files, r, N) :
               row \in Batches(data.files, r, N)[k]
    BY <1>1, <1>8, BatchesCover
  <2>2. row \in UNION BatchesOf(r, N)
    BY <2>1 DEF BatchesOf
  <2>3. r \in 0..Followers /\ row \in At(r)
    BY <1>1, <1>8, <2>2 DEF Share, ShareInOrder, At
  <2>4. ~SharesWithChief("train")
    BY <1>8 DEF SharesWithChief
  <2> QED BY <1>4, <1>5, <1>8, <2>3, <2>4 DEF readers
<1>9. CASE data.kind # "criteo" /\ ~SharesWithChief("train")
  <2>1. u \in Nat
    BY <1>1, UnitIsNat DEF UnitInOrder
  <2>2. u % N \in 0..(N - 1)
    BY <1>1, <2>1, Remainder
  <2>3. \A n \in 0..Followers : row \in At(n) <=> u % N = n
    BY <1>1, <1>7, <1>9, ShareOf DEF At
  <2> DEFINE m == u % N
  <2>4. m \in 0..Followers
    BY <1>1, <2>2
  <2> HIDE DEF m
  <2>5. \A n \in 0..Followers : ProcAt(n) \in readers <=> m = n
    BY <1>4, <2>3 DEF m
  <2>6. readers = {ProcAt(m)} /\ ProcAt(m) \in Procs
    BY <1>3, <1>6, <2>4, <2>5
  <2> QED BY <1>5, <1>9, <2>4, <2>6 DEF readers
<1>10. CASE data.kind # "criteo" /\ SharesWithChief("train") /\ N = 1
  <2>1. Followers = 0 /\ 0 \in 0..0 /\ data.redundant
    BY <1>1, <1>10 DEF SharesWithChief
  <2>2. row \in At(0)
    BY <1>1, <1>7, <1>10, <2>1, ShareOf DEF At
  <2>3. readers = {ProcAt(0)} /\ readers \cap Learners = {}
    BY <1>4, <1>5, <1>6, <2>1, <2>2
  <2>4. Cardinality(Trainers) = 1
    BY <1>1, <1>2, <2>1, PlacesCounted
  <2> QED BY <1>3, <2>1, <2>3, <2>4 DEF readers
<1>11. CASE data.kind # "criteo" /\ SharesWithChief("train") /\ N > 1
  <2> DEFINE m == u % (N - 1)
  <2>1. data.redundant
    BY <1>11 DEF SharesWithChief
  <2>2. /\ m \in 0..(N - 2)
        /\ \A n \in 0..(N - 1) : row \in At(n) <=> n = m + 1 \/ (m = 0 /\ n = 0)
    BY <1>1, <1>7, <1>11, ShareOf DEF At
  <2> HIDE DEF m
  <2>3. m + 1 \in 0..Followers /\ m + 1 # 0 /\ 0..(N - 1) = 0..Followers
    BY <1>1, <2>2
  <2>4. ProcAt(m + 1) \in readers \cap Learners
    BY <1>4, <1>5, <2>2, <2>3
  <2>5. ASSUME NEW p \in readers \cap Learners
        PROVE  p = ProcAt(m + 1)
    <3>1. PICK n \in 0..Followers : p = ProcAt(n)
      BY <1>6
    <3>2. n # 0 /\ row \in At(n)
      BY <1>4, <1>5, <2>1, <3>1
    <3> QED BY <2>2, <2>3, <3>1, <3>2
  <2>6. ProcAt(m + 1) \in Procs
    BY <1>3, <2>3
  <2> QED BY <2>4, <2>5, <2>6 DEF readers
<1> QED BY <1>1, <1>8, <1>9, <1>10, <1>11

(* TrainedOnce: unless several tasks divide the rows of files that each of *)
(* them has shuffled for itself, an epoch of training reads every row, and *)
(* no two processes whose gradients count read the same one, for any       *)
(* number of processes and files and on every launch path.                 *)
THEOREM RowsTrainedOnce == JobSpec => []TrainedOnce
<1>1. InputsInit => ReadsInv
  BY DEF InputsInit, ReadsInv
<1>2. ClusterInv /\ ReadsInv /\ [JobNext]_jobVars => ReadsInv'
  BY ReadsStep
<1>3. ClusterInv /\ ReadsInv => TrainedOnce
  <2> SUFFICES ASSUME ClusterInv, ReadsInv, AllConfigured, \A p \in Trainers : reads[p] # <<>>,
                      \A p \in Trainers : ~OwnOrder("train", TaskNum(p)),
                      Trainers # {}, NEW row \in Rows
               PROVE  LET readers == {p \in Trainers : row \in reads[p][1]} IN
                      /\ readers # {}
                      /\ data.kind # "criteo" => Cardinality(readers \cap Learners) <= 1
                      /\ (data.redundant => SharesWithChief("train")
                            /\ Cardinality(Trainers) > 1) => readers \cap Learners # {}
    BY DEF TrainedOnce, EpochRead
  <2> DEFINE readers == {p \in Trainers : row \in reads[p][1]}
  <2>1. /\ readers # {}
        /\ data.kind # "criteo" => \E q \in Procs : readers \cap Learners \subseteq {q}
        /\ (data.redundant => SharesWithChief("train") /\ Cardinality(Trainers) > 1) =>
             readers \cap Learners # {}
    BY ReadersOf
  <2> HIDE DEF readers
  <2>2. ASSUME NEW q \in Procs, readers \cap Learners \subseteq {q}
        PROVE  Cardinality(readers \cap Learners) <= 1
    <3> DEFINE learned == readers \cap Learners
    <3>1. learned = {} \/ learned = {q}
      BY <2>2
    <3> HIDE DEF learned
    <3>2. Cardinality(learned) = 0 \/ Cardinality(learned) = 1
      BY <3>1, FS_EmptySet, FS_Singleton, Zenon
    <3> QED BY <3>2 DEF learned
  <2> QED BY <2>1, <2>2 DEF readers
<1> QED BY <1>1, <1>2, <1>3, ConfigsAtStages, PTL DEF JobSpec

---------------------------------------------------------------------------
(* One pass over a criteo reader: what __getitem__ keeps.                  *)

(* The batches that the prefetching is ahead by.                           *)
Ahead(r) ==
  IF Depth(r) <= 1 \/ r.idx = 0 THEN 0
  ELSE IF Len(r.batches) - r.idx < Depth(r) THEN Len(r.batches) - r.idx ELSE Depth(r)

ReaderIs(r, S) ==
  /\ r \in [batches : Seq(S), idx : Nat, queue : Seq(S), got : Seq(S)]
  /\ Len(r.batches) > 0 /\ r.idx <= Len(r.batches) /\ Len(r.got) = r.idx
  /\ Len(r.queue) >= Ahead(r)

(* No earlier pass left anything in the queue.                             *)
InStep(r) ==
  /\ \A j \in 1..r.idx : r.got[j] = r.batches[j]
  /\ Len(r.queue) = Ahead(r)
  /\ \A j \in 1..Ahead(r) : r.queue[j] = r.batches[r.idx + j]

LEMMA DepthIs ==
  ASSUME NEW S, NEW r, ReaderIs(r, S)
  PROVE  Depth(r) \in 1..Len(r.batches)
<1>1. Prefetch \in Nat \ {0} /\ Len(r.batches) \in Nat \ {0}
  BY ReaderAssumption DEF ReaderIs
<1>2. Min({Prefetch, Len(r.batches)}) =
        IF Prefetch <= Len(r.batches) THEN Prefetch ELSE Len(r.batches)
  BY <1>1 DEF Min
<1> QED BY <1>1, <1>2 DEF Depth

JoinOf(st, s, t) ==
  /\ Len(st) = Len(s) + Len(t)
  /\ \A j \in 1..Len(s) : st[j] = s[j]
  /\ \A j \in 1..Len(t) : st[Len(s) + j] = t[j]

LEMMA Joined ==
  ASSUME NEW S, NEW s \in Seq(S), NEW t \in Seq(S)
  PROVE  s \o t \in Seq(S) /\ JoinOf(s \o t, s, t)
  BY DEF JoinOf

(* What is submitted before an item is handed out.                         *)
LEMMA SubmittedIs ==
  ASSUME NEW S, NEW r, ReaderIs(r, S), r.idx < Len(r.batches), Depth(r) > 1
  PROVE  LET n == Len(r.batches)
             all == IF n - r.idx < Depth(r) + 1 THEN n - r.idx ELSE Depth(r) + 1
         IN /\ Submitted(r) \in Seq(S) /\ Len(Submitted(r)) >= all /\ all > 0
            /\ InStep(r) => /\ Len(Submitted(r)) = all
                            /\ \A j \in 1..all : Submitted(r)[j] = r.batches[r.idx + j]
<1> DEFINE n == Len(r.batches)
           d == Depth(r)
           ahead == IF r.idx = 0 THEN SubSeq(r.batches, 1, d) ELSE <<>>
           next == IF r.idx < n - d THEN <<r.batches[r.idx + d + 1]>> ELSE <<>>
           all == IF n - r.idx < d + 1 THEN n - r.idx ELSE d + 1
<1>1. Submitted(r) = r.queue \o ahead \o next
  BY DEF Submitted
<1>2. /\ n \in Nat \ {0} /\ r.idx \in Nat /\ r.idx < n /\ d \in 1..n /\ d > 1
      /\ r.batches \in Seq(S) /\ r.queue \in Seq(S) /\ Len(r.queue) >= Ahead(r)
      /\ \A k \in 1..n : r.batches[k] \in S
  BY DepthIs DEF ReaderIs
<1>3. Ahead(r) = IF r.idx = 0 THEN 0 ELSE IF n - r.idx < d THEN n - r.idx ELSE d
  BY <1>2 DEF Ahead
<1> HIDE DEF d
<1>4. /\ ahead \in Seq(S) /\ Len(ahead) = IF r.idx = 0 THEN d ELSE 0
      /\ \A j \in 1..Len(ahead) : ahead[j] = r.batches[j]
  <2>1. CASE r.idx = 0
    <3>1. ahead = SubSeq(r.batches, 1, d) /\ n = Len(r.batches)
      BY <2>1
    <3>2. d \in 1..Len(r.batches) /\ 1 \in 1..Len(r.batches)
      BY <1>2
    <3>3. Len(ahead) = d /\ \A j \in 1..d : ahead[j] = r.batches[j]
      BY <1>2, <3>1, <3>2
    <3>4. ahead \in Seq(S)
      BY <1>2, <3>1, <3>2
    <3> QED BY <2>1, <3>3, <3>4
  <2>2. CASE r.idx # 0
    BY <2>2
  <2> QED BY <2>1, <2>2
<1> HIDE DEF ahead
<1>5. /\ next \in Seq(S) /\ Len(next) = IF r.idx < n - d THEN 1 ELSE 0
      /\ r.idx < n - d => next[1] = r.batches[r.idx + d + 1]
  <2>1. r.idx < n - d => r.idx + d + 1 \in 1..n
    BY <1>2
  <2> QED BY <1>2, <2>1
<1> HIDE DEF next, n
<1> DEFINE q == r.queue \o ahead
<1>6. /\ q \in Seq(S) /\ Len(q) = Len(r.queue) + Len(ahead)
      /\ \A j \in 1..Len(r.queue) : q[j] = r.queue[j]
      /\ \A j \in 1..Len(ahead) : q[Len(r.queue) + j] = ahead[j]
  <2>1. r.queue \in Seq(S) /\ ahead \in Seq(S)
    BY <1>2, <1>4
  <2>2. q \in Seq(S) /\ JoinOf(q, r.queue, ahead)
    BY <2>1, Joined
  <2> QED BY <2>2 DEF JoinOf
<1>7. Len(r.queue) \in Nat /\ Len(ahead) \in Nat
  BY <1>2, <1>4
<1> HIDE DEF q
<1>8. /\ Submitted(r) \in Seq(S) /\ Len(Submitted(r)) = Len(q) + Len(next)
      /\ \A j \in 1..Len(q) : Submitted(r)[j] = q[j]
      /\ Len(next) = 1 => Submitted(r)[Len(q) + 1] = next[1]
  <2>1. Submitted(r) = q \o next
    BY <1>1 DEF q
  <2>2. Len(next) = 1 => 1 \in 1..Len(next)
    OBVIOUS
  <2>3. q \o next \in Seq(S) /\ JoinOf(q \o next, q, next)
    BY <1>5, <1>6, Joined
  <2> QED BY <1>5, <1>6, <2>1, <2>2, <2>3 DEF JoinOf
<1>9. Len(Submitted(r)) >= all /\ all > 0
  <2>1. Len(Submitted(r)) = Len(r.queue) + Len(ahead) + Len(next)
    BY <1>6, <1>7, <1>8
  <2>2. n - r.idx > 0 /\ d \in Nat /\ n \in Nat
    BY <1>2
  <2>3. CASE r.idx = 0
    BY <1>2, <1>4, <1>5, <1>7, <2>1, <2>2, <2>3
  <2>4. CASE r.idx # 0
    <3>1. Len(Submitted(r)) = Len(r.queue) + Len(next) /\ r.idx \in Nat
      BY <1>2, <1>4, <1>5, <1>7, <2>1, <2>4
    <3>2. Len(r.queue) >= IF n - r.idx < d THEN n - r.idx ELSE d
      BY <1>2, <1>3, <2>4
    <3>3. CASE r.idx < n - d
      <4>1. Len(next) = 1 /\ Len(r.queue) >= d
        BY <1>5, <2>2, <3>1, <3>2, <3>3
      <4> QED BY <1>7, <2>2, <3>1, <4>1
    <3>4. CASE ~(r.idx < n - d)
      <4>1. Len(next) = 0 /\ Len(r.queue) >= n - r.idx
        BY <1>5, <2>2, <3>1, <3>2, <3>4
      <4> QED BY <1>7, <2>2, <3>1, <3>4, <4>1
    <3> QED BY <3>3, <3>4
  <2> QED BY <2>3, <2>4
<1>10. ASSUME InStep(r)
       PROVE  /\ Len(Submitted(r)) = all
              /\ \A j \in 1..all : Submitted(r)[j] = r.batches[r.idx + j]
  <2>1. /\ Len(r.queue) = Ahead(r)
        /\ \A j \in 1..Ahead(r) : r.queue[j] = r.batches[r.idx + j]
    BY <1>10 DEF InStep
  <2>2. Len(q) = IF n - r.idx < d THEN n - r.idx ELSE d
    BY <1>2, <1>3, <1>4, <1>6, <2>1
  <2>3. ASSUME NEW j \in 1..Len(q) PROVE q[j] = r.batches[r.idx + j]
    <3>1. CASE r.idx = 0
      <4>1. Len(r.queue) = 0 /\ Len(ahead) = Len(q)
        BY <1>3, <1>6, <1>7, <2>1, <3>1
      <4>2. q[Len(r.queue) + j] = ahead[j] /\ ahead[j] = r.batches[j]
        BY <1>4, <1>6, <4>1
      <4> QED BY <3>1, <4>1, <4>2
    <3>2. CASE r.idx # 0
      <4>1. Len(q) = Len(r.queue) /\ Len(q) = Ahead(r)
        BY <1>4, <1>6, <1>7, <2>1, <3>2
      <4> QED BY <1>6, <2>1, <4>1
    <3> QED BY <3>1, <3>2
  <2>4. Len(Submitted(r)) = all
    BY <1>2, <1>5, <1>8, <2>2, SMTT(30)
  <2>5. ASSUME NEW j \in 1..all PROVE Submitted(r)[j] = r.batches[r.idx + j]
    <3>1. CASE j \in 1..Len(q)
      BY <1>8, <2>3, <3>1
    <3>2. CASE j \notin 1..Len(q)
      <4>1. j = Len(q) + 1 /\ Len(next) = 1 /\ r.idx < n - d /\ Len(q) = d
        BY <1>2, <1>5, <2>2, <3>2
      <4>2. r.idx + j = r.idx + d + 1
        <5>1. \A a, b \in Nat : a + (b + 1) = a + b + 1
          OBVIOUS
        <5>2. r.idx \in Nat /\ d \in Nat /\ j = d + 1
          BY <1>2, <4>1
        <5> QED BY <5>1, <5>2
      <4> QED BY <1>5, <1>8, <4>1, <4>2
    <3> QED BY <3>1, <3>2
  <2> QED BY <2>4, <2>5
<1> QED BY <1>8, <1>9, <1>10 DEF n, d

LEMMA Appended ==
  ASSUME NEW S, NEW s \in Seq(S), NEW e \in S
  PROVE  /\ Append(s, e) \in Seq(S) /\ Len(Append(s, e)) = Len(s) + 1
         /\ \A j \in 1..Len(s) : Append(s, e)[j] = s[j]
         /\ Append(s, e)[Len(s) + 1] = e
  OBVIOUS

LEMMA HeadAndTail ==
  ASSUME NEW S, NEW s \in Seq(S), Len(s) > 0
  PROVE  /\ Head(s) \in S /\ Head(s) = s[1]
         /\ Tail(s) \in Seq(S) /\ Len(Tail(s)) = Len(s) - 1
         /\ \A j \in 1..(Len(s) - 1) : Tail(s)[j] = s[j + 1]
  OBVIOUS

(* An item more, and still in step.                                        *)
LEMMA ItemGot ==
  ASSUME NEW S, NEW r, ReaderIs(r, S), r.idx < Len(r.batches)
  PROVE  /\ ReaderIs(GetItem(r), S)
         /\ GetItem(r).batches = r.batches /\ GetItem(r).idx = r.idx + 1
         /\ InStep(r) => InStep(GetItem(r))
<1> DEFINE n == Len(r.batches)
           d == Depth(r)
           r2 == GetItem(r)
           all == IF n - r.idx < d + 1 THEN n - r.idx ELSE d + 1
<1>1. /\ n \in Nat \ {0} /\ r.idx \in Nat /\ r.idx < n /\ d \in 1..n
      /\ r.batches \in Seq(S) /\ r.queue \in Seq(S) /\ r.got \in Seq(S)
      /\ Len(r.got) = r.idx /\ r.idx + 1 \in 1..n
  BY DepthIs DEF ReaderIs
<1>2. r = [batches |-> r.batches, idx |-> r.idx, queue |-> r.queue, got |-> r.got]
  BY DEF ReaderIs
<1>3. r.batches[r.idx + 1] \in S
  BY <1>1
<1>4. CASE d <= 1
  <2> DEFINE got == Append(r.got, r.batches[r.idx + 1])
  <2>1. r2 = [batches |-> r.batches, idx |-> r.idx + 1, queue |-> r.queue, got |-> got]
    BY <1>2, <1>4 DEF GetItem
  <2>2. /\ got \in Seq(S) /\ Len(got) = r.idx + 1
        /\ \A j \in 1..r.idx : got[j] = r.got[j]
        /\ got[r.idx + 1] = r.batches[r.idx + 1]
    BY <1>1, <1>3, Appended
  <2> HIDE DEF got, r2
  <2>3. /\ r2.batches = r.batches /\ r2.idx = r.idx + 1 /\ r2.queue = r.queue /\ r2.got = got
        /\ r2 \in [batches : Seq(S), idx : Nat, queue : Seq(S), got : Seq(S)]
    BY <1>1, <2>1, <2>2
  <2>4. Depth(r2) = d /\ Ahead(r) = 0 /\ Ahead(r2) = 0
    BY <1>4, <2>3 DEF Depth, Ahead
  <2>5. ReaderIs(r2, S)
    BY <1>1, <2>2, <2>3, <2>4 DEF ReaderIs
  <2>6. ASSUME InStep(r) PROVE InStep(r2)
    <3>1. Len(r2.queue) = Ahead(r2)
      BY <2>3, <2>4, <2>6 DEF InStep
    <3>2. ASSUME NEW j \in 1..(r.idx + 1) PROVE got[j] = r.batches[j]
      <4>1. CASE j = r.idx + 1
        BY <2>2, <4>1
      <4>2. CASE j \in 1..r.idx
        BY <2>2, <2>6, <4>2 DEF InStep
      <4> QED BY <1>1, <4>1, <4>2
    <3> QED BY <2>3, <2>4, <3>1, <3>2 DEF InStep
  <2> QED BY <2>3, <2>5, <2>6 DEF r2
<1>5. CASE d > 1
  <2> DEFINE sub == Submitted(r)
             got == Append(r.got, Head(sub))
  <2>1. /\ sub \in Seq(S) /\ Len(sub) >= all /\ all > 0
        /\ InStep(r) => Len(sub) = all /\ \A j \in 1..all : sub[j] = r.batches[r.idx + j]
    BY <1>1, <1>5, SubmittedIs
  <2>2. r2 = [batches |-> r.batches, idx |-> r.idx + 1, queue |-> Tail(sub), got |-> got]
    <3>1. ~(Depth(r) <= 1)
      BY <1>1, <1>5
    <3> QED BY <1>2, <3>1 DEF GetItem
  <2> HIDE DEF sub, r2
  <2>3. Len(sub) > 0 /\ Len(sub) \in Nat /\ all \in Nat
    BY <1>1, <2>1, SMTT(30)
  <2>4. /\ Head(sub) \in S /\ Head(sub) = sub[1]
        /\ Tail(sub) \in Seq(S) /\ Len(Tail(sub)) = Len(sub) - 1
        /\ \A j \in 1..(Len(sub) - 1) : Tail(sub)[j] = sub[j + 1]
    BY <2>1, <2>3, HeadAndTail
  <2>5. /\ got \in Seq(S) /\ Len(got) = r.idx + 1
        /\ \A j \in 1..r.idx : got[j] = r.got[j]
        /\ got[r.idx + 1] = Head(sub)
    BY <1>1, <2>4, Appended
  <2> HIDE DEF got
  <2>6. /\ r2.batches = r.batches /\ r2.idx = r.idx + 1 /\ r2.queue = Tail(sub) /\ r2.got = got
        /\ r2 \in [batches : Seq(S), idx : Nat, queue : Seq(S), got : Seq(S)]
    BY <1>1, <2>2, <2>4, <2>5
  <2>7. Depth(r2) = d
    BY <2>6 DEF Depth
  <2>8. Ahead(r2) = all - 1
    <3>1. Ahead(r2) = IF n - (r.idx + 1) < d THEN n - (r.idx + 1) ELSE d
      BY <1>1, <1>5, <2>6, <2>7 DEF Ahead
    <3> HIDE DEF n, d
    <3> QED BY <1>1, <3>1
  <2> HIDE DEF all
  <2>9. ReaderIs(r2, S)
    <3>1. Len(r2.queue) >= Ahead(r2)
      <4>1. Len(r2.queue) = Len(sub) - 1
        BY <2>4, <2>6
      <4>2. \A a, b \in Nat : a >= b => a - 1 >= b - 1
        OBVIOUS
      <4> QED BY <2>1, <2>3, <2>8, <4>1, <4>2
    <3>2. Len(r2.batches) > 0 /\ r2.idx <= Len(r2.batches) /\ Len(r2.got) = r2.idx
      BY <1>1, <2>5, <2>6
    <3> QED BY <2>6, <3>1, <3>2 DEF ReaderIs
  <2>10. ASSUME InStep(r) PROVE InStep(r2)
    <3>1. Len(r2.queue) = Ahead(r2)
      BY <2>1, <2>3, <2>4, <2>6, <2>8, <2>10
    <3>2. ASSUME NEW j \in 1..(r.idx + 1) PROVE got[j] = r.batches[j]
      <4>1. CASE j = r.idx + 1
        <5>1. 1 \in 1..all
          BY <2>1, <2>3
        <5>2. sub[1] = r.batches[r.idx + 1]
          BY <2>1, <2>10, <5>1
        <5> QED BY <2>4, <2>5, <4>1, <5>2
      <4>2. CASE j \in 1..r.idx
        BY <2>5, <2>10, <4>2 DEF InStep
      <4> QED BY <1>1, <4>1, <4>2
    <3>3. ASSUME NEW j \in 1..Ahead(r2) PROVE Tail(sub)[j] = r.batches[r.idx + 1 + j]
      <4>1. j \in 1..(all - 1) /\ j + 1 \in 1..all
        BY <2>3, <2>8
      <4>2. Tail(sub)[j] = sub[j + 1] /\ sub[j + 1] = r.batches[r.idx + (j + 1)]
        BY <2>1, <2>4, <2>10, <4>1
      <4>3. r.idx + (j + 1) = r.idx + 1 + j
        <5>1. \A a, b \in Nat : a + (b + 1) = a + 1 + b
          OBVIOUS
        <5>2. j \in Nat
          BY <2>3, <4>1
        <5> QED BY <1>1, <5>1, <5>2
      <4> QED BY <4>2, <4>3
    <3> QED BY <2>6, <3>1, <3>2, <3>3 DEF InStep
  <2> QED BY <2>6, <2>9, <2>10 DEF r2
<1> QED BY <1>1, <1>4, <1>5

(* The passes of a process: the reader r, the evaluations ev so far, and   *)
(* whether it is in a pass.  As long as every pass ran to the end of the   *)
(* reader the queue is in step with it.                                    *)
AllFull(r, ev) == \A i \in 1..Len(ev) : Len(ev[i]) = Len(r.batches)

PassIs(r, ev, inPass, limited, S) ==
  /\ ReaderIs(r, S) /\ ev \in Seq(Seq(S))
  /\ AllFull(r, ev) => InStep(r) /\ (inPass \/ r.idx = Len(r.batches))
  /\ inPass \/ ev # <<>>
  /\ \A k \in 1..Len(ev) :
       (\A i \in 1..k : Len(ev[i]) = Len(r.batches)) => ev[k] = r.batches
  /\ limited \/ AllFull(r, ev)

(* A reader at the start of a pass.                                        *)
LEMMA RewoundIs ==
  ASSUME NEW S, NEW r \in [batches : Seq(S), idx : Nat, queue : Seq(S), got : Seq(S)],
         Len(r.batches) > 0
  PROVE  /\ ReaderIs(Rewound(r), S) /\ Rewound(r).batches = r.batches
         /\ r.queue = <<>> => InStep(Rewound(r))
<1> DEFINE r2 == Rewound(r)
<1>1. r2 = [batches |-> r.batches, idx |-> 0, queue |-> r.queue, got |-> <<>>]
  <2>1. r = [batches |-> r.batches, idx |-> r.idx, queue |-> r.queue, got |-> r.got]
    OBVIOUS
  <2>2. [r EXCEPT !.idx = 0] = [batches |-> r.batches, idx |-> 0, queue |-> r.queue, got |-> r.got]
    BY <2>1, SMTT(30)
  <2> DEFINE r1 == [batches |-> r.batches, idx |-> 0, queue |-> r.queue, got |-> r.got]
  <2>3. r2 = [r1 EXCEPT !.got = <<>>]
    BY <2>2, Zenon DEF Rewound
  <2> QED BY <2>3
<1> HIDE DEF r2
<1>2. /\ r2.batches = r.batches /\ r2.idx = 0 /\ r2.queue = r.queue /\ r2.got = <<>>
      /\ r2 \in [batches : Seq(S), idx : Nat, queue : Seq(S), got : Seq(S)]
  BY <1>1
<1>3. Ahead(r2) = 0 /\ Len(r2.got) = 0 /\ Len(r2.queue) \in Nat /\ Len(r2.batches) \in Nat
  BY <1>2 DEF Ahead
<1> QED BY <1>2, <1>3 DEF r2, ReaderIs, InStep

LEMMA PassOpened ==
  ASSUME NEW S, NEW B \in Seq(S), Len(B) > 0, NEW limited, NEW r,
         r = Rewound([ClosedReader EXCEPT !.batches = B])
  PROVE  PassIs(r, <<>>, TRUE, limited, S) /\ r.batches = B
<1> DEFINE c == [ClosedReader EXCEPT !.batches = B]
<1>1. c = [batches |-> B, idx |-> 0, queue |-> <<>>, got |-> <<>>]
  BY DEF ClosedReader
<1>2. /\ c \in [batches : Seq(S), idx : Nat, queue : Seq(S), got : Seq(S)]
      /\ c.batches = B /\ c.queue = <<>>
  <2>1. <<>> \in Seq(S) /\ 0 \in Nat
    OBVIOUS
  <2> HIDE DEF c
  <2> QED BY <1>1, <2>1
<1> HIDE DEF c
<1>3. r = Rewound(c)
  BY DEF c
<1>4. ReaderIs(r, S) /\ r.batches = B /\ InStep(r)
  BY <1>2, <1>3, RewoundIs
<1> QED BY <1>4 DEF PassIs, AllFull

LEMMA PassRestarted ==
  ASSUME NEW S, NEW r, NEW ev, NEW limited, PassIs(r, ev, FALSE, limited, S)
  PROVE  /\ PassIs(Rewound(r), ev, TRUE, limited, S) /\ Rewound(r).batches = r.batches
         /\ r # ClosedReader
<1>1. ReaderIs(r, S)
  BY DEF PassIs
<1>2. /\ r \in [batches : Seq(S), idx : Nat, queue : Seq(S), got : Seq(S)]
      /\ Len(r.batches) > 0 /\ Len(r.batches) \in Nat
  BY <1>1 DEF ReaderIs
<1>3. /\ ReaderIs(Rewound(r), S) /\ Rewound(r).batches = r.batches
      /\ r.queue = <<>> => InStep(Rewound(r))
  BY <1>2, RewoundIs
<1>4. AllFull(r, ev) => r.queue = <<>>
  <2> SUFFICES ASSUME AllFull(r, ev) PROVE r.queue = <<>>
    OBVIOUS
  <2>1. InStep(r) /\ r.idx = Len(r.batches)
    BY DEF PassIs
  <2>2. Depth(r) \in 1..Len(r.batches)
    BY <1>1, DepthIs
  <2>3. Ahead(r) = 0
    BY <1>2, <2>1, <2>2 DEF Ahead
  <2>4. Len(r.queue) = 0 /\ r.queue \in Seq(S)
    BY <1>2, <2>1, <2>3 DEF InStep
  <2> QED BY <2>4
<1>5. r # ClosedReader
  BY <1>2 DEF ClosedReader
<1>6. AllFull(Rewound(r), ev) <=> AllFull(r, ev)
  BY <1>3 DEF AllFull
<1> QED BY <1>3, <1>4, <1>5, <1>6 DEF PassIs

LEMMA PassItem ==
  ASSUME NEW S, NEW r, NEW ev, NEW limited, PassIs(r, ev, TRUE, limited, S),
         r.idx < Len(r.batches)
  PROVE  PassIs(GetItem(r), ev, TRUE, limited, S) /\ GetItem(r).batches = r.batches
<1>1. /\ ReaderIs(GetItem(r), S) /\ GetItem(r).batches = r.batches
      /\ InStep(r) => InStep(GetItem(r))
  BY ItemGot DEF PassIs
<1>2. AllFull(GetItem(r), ev) <=> AllFull(r, ev)
  BY <1>1 DEF AllFull
<1> QED BY <1>1, <1>2 DEF PassIs

LEMMA PassEnded ==
  ASSUME NEW S, NEW r, NEW ev, NEW limited \in BOOLEAN, PassIs(r, ev, TRUE, limited, S),
         r.idx = Len(r.batches) \/ limited
  PROVE  PassIs(r, Append(ev, r.got), FALSE, limited, S)
<1> DEFINE ev2 == Append(ev, r.got)
           n == Len(r.batches)
<1>1. /\ ReaderIs(r, S) /\ ev \in Seq(Seq(S)) /\ (limited \/ AllFull(r, ev))
      /\ AllFull(r, ev) => InStep(r)
      /\ \A k \in 1..Len(ev) : (\A i \in 1..k : Len(ev[i]) = n) => ev[k] = r.batches
  BY DEF PassIs
<1>2. r.got \in Seq(S) /\ Len(r.got) = r.idx /\ r.batches \in Seq(S) /\ n \in Nat
  <2>1. /\ r \in [batches : Seq(S), idx : Nat, queue : Seq(S), got : Seq(S)]
        /\ Len(r.got) = r.idx
    BY <1>1 DEF ReaderIs
  <2>2. r.got \in Seq(S) /\ r.batches \in Seq(S)
    BY <2>1
  <2> QED BY <2>1, <2>2
<1>3. /\ ev2 \in Seq(Seq(S)) /\ Len(ev2) = Len(ev) + 1 /\ Len(ev) \in Nat
      /\ \A j \in 1..Len(ev) : ev2[j] = ev[j]
      /\ ev2[Len(ev) + 1] = r.got
  <2>1. /\ ev2 \in Seq(Seq(S)) /\ Len(ev2) = Len(ev) + 1
        /\ \A j \in 1..Len(ev) : ev2[j] = ev[j]
        /\ ev2[Len(ev) + 1] = r.got
    <3> DEFINE T == Seq(S)
    <3>1. ev \in Seq(T) /\ r.got \in T
      BY <1>1, <1>2
    <3> HIDE DEF T
    <3>2. /\ Append(ev, r.got) \in Seq(T) /\ Len(Append(ev, r.got)) = Len(ev) + 1
          /\ \A j \in 1..Len(ev) : Append(ev, r.got)[j] = ev[j]
          /\ Append(ev, r.got)[Len(ev) + 1] = r.got
      BY <3>1, Appended
    <3> QED BY <3>2 DEF T
  <2> QED BY <1>1, <2>1
<1> HIDE DEF ev2, n
<1>4. AllFull(r, ev2) <=> AllFull(r, ev) /\ r.idx = n
  <2>1. 1..Len(ev2) = 1..Len(ev) \cup {Len(ev) + 1}
    BY <1>3
  <2>2. Len(ev2[Len(ev) + 1]) = r.idx
    BY <1>2, <1>3
  <2> QED BY <1>3, <2>1, <2>2 DEF AllFull, n
<1>5. r.got = r.batches \/ ~(InStep(r) /\ r.idx = n)
  <2> SUFFICES ASSUME InStep(r), r.idx = n PROVE r.got = r.batches
    OBVIOUS
  <2>1. \A j \in 1..n : r.got[j] = r.batches[j]
    BY DEF InStep
  <2> QED BY <1>2, <2>1 DEF n
<1>6. ASSUME NEW k \in 1..Len(ev2), \A i \in 1..k : Len(ev2[i]) = n
      PROVE  ev2[k] = r.batches
  <2>1. CASE k \in 1..Len(ev)
    <3>1. \A i \in 1..k : i \in 1..Len(ev)
      BY <1>3, <2>1
    <3>2. \A i \in 1..k : Len(ev[i]) = n
      BY <1>3, <1>6, <3>1
    <3> QED BY <1>1, <1>3, <2>1, <3>2
  <2>2. CASE k = Len(ev) + 1
    <3>1. AllFull(r, ev2)
      BY <1>3, <1>6, <2>2 DEF AllFull, n
    <3> QED BY <1>1, <1>3, <1>4, <1>5, <2>2, <3>1
  <2> QED BY <1>3, <2>1, <2>2
<1>7. ev2 # <<>>
  BY <1>3
<1>8. limited \/ AllFull(r, ev2)
  BY <1>1, <1>4 DEF n
<1> QED BY <1>1, <1>3, <1>4, <1>6, <1>7, <1>8 DEF PassIs, ev2, n

---------------------------------------------------------------------------
(* The evaluations of the processes.                                       *)

LEMMA BatchesType ==
  ASSUME data \in Datas, data.kind = "criteo", NEW size \in Nat \ {0}, NEW r \in 0..(size - 1)
  PROVE  /\ Batches(data.files, r, size) \in Seq(SUBSET Rows)
         /\ NumEntries(data.files, size) \in Nat \ {0}
         /\ Len(Batches(data.files, r, size)) = NumEntries(data.files, size)
<1> DEFINE B == Batches(data.files, r, size)
           E == NumEntries(data.files, size)
<1>1. OneFile(data.files, data.files[1])
  BY DataFacts DEF OneFile
<1>2. E \in Nat \ {0} /\ DOMAIN B = 1..E
  BY <1>1, OneFileBatches
<1>3. ASSUME NEW k \in 1..E PROVE B[k] \in SUBSET Rows
  <2>1. B[k] = {row \in Rows : /\ GlobalStart(data.files, r, size) + (k - 1) * BatchSize <= row[2]
                               /\ row[2] < GlobalStart(data.files, r, size)
                                             + (k - 1) * BatchSize + BatchSize}
    BY <1>1, OneFileBatches DEF Rows
  <2> QED BY <2>1
<1>4. B = [k \in 1..E |-> B[k]]
  BY <1>2 DEF Batches
<1> HIDE DEF B, E
<1>5. B \in [1..E -> SUBSET Rows]
  BY <1>3, <1>4
<1>6. B \in Seq(SUBSET Rows) /\ Len(B) = E
  BY <1>2, <1>5
<1> QED BY <1>2, <1>6 DEF B, E

(* The stage from which a process evaluates: its TF_CONFIG is final.       *)
Ready(p) == stage[p] = IF job.cmd = "train" THEN "configured" ELSE "evaluates"

Numbered(p) ==
  /\ TaskNum(p) \in Nat \ {0} /\ TaskIndex(p) \in 0..(TaskNum(p) - 1)
  /\ job.cmd = "evaluate" =>
       \E n \in 0..Followers :
         p = ProcAt(n) /\ TaskIndex(p) = n /\ TaskNum(p) = Followers + 1

LEMMA ReadyStays ==
  ASSUME ClusterInv, [JobNext]_jobVars, NEW p \in Procs, Ready(p)
  PROVE  Ready(p)' /\ TaskIndex(p)' = TaskIndex(p) /\ TaskNum(p)' = TaskNum(p)
<1>1. DOMAIN tfConfig = Procs /\ DOMAIN stage = Procs
  BY DEF ClusterInv
<1>2. job' = job /\ tfConfig'[p] = tfConfig[p] /\ stage'[p] = stage[p]
  <2>1. CASE UNCHANGED clusterVars
    BY <2>1 DEF clusterVars
  <2>2. ASSUME NEW q \in Procs, Configure(q)
        PROVE  job' = job /\ tfConfig'[p] = tfConfig[p] /\ stage'[p] = stage[p]
    <3>1. q # p
      BY <2>2 DEF Configure, Ready
    <3> QED BY <1>1, <2>2, <3>1 DEF Configure
  <2>3. ASSUME NEW q \in Procs, DistributeEval(q)
        PROVE  job' = job /\ tfConfig'[p] = tfConfig[p] /\ stage'[p] = stage[p]
    <3>1. q # p
      BY <2>3 DEF DistributeEval, Ready
    <3> QED BY <1>1, <2>3, <3>1 DEF DistributeEval
  <2>4. \/ UNCHANGED clusterVars
        \/ \E q \in Procs : Configure(q) \/ DistributeEval(q)
    BY DEF JobNext, ClusterStep, Train, Evaluate, StartPass, NextItem, EndPass, jobVars
  <2> QED BY <2>1, <2>2, <2>3, <2>4
<1>3. Ready(p)'
  BY <1>2 DEF Ready
<1>4. /\ ClusterOf(p)' = ClusterOf(p) /\ TaskOf(p)' = TaskOf(p)
  BY <1>2 DEF ClusterOf, TaskOf
<1>5. (HasLeader(p)' <=> HasLeader(p)) /\ (IsChief(p)' <=> IsChief(p))
      /\ (IsEvaluator(p)' <=> IsEvaluator(p))
  BY <1>4 DEF HasLeader, IsChief, IsEvaluator
<1>6. TaskIndex(p)' = TaskIndex(p) /\ TaskNum(p)' = TaskNum(p)
  BY <1>4, <1>5 DEF TaskIndex, TaskNum
<1> QED BY <1>3, <1>6

LEMMA EvalTask ==
  ASSUME ClusterInv, NEW p \in Procs, StartsEval(p)
  PROVE  Ready(p) /\ Numbered(p)
<1>1. Ready(p) /\ Evaluates(p) /\ job \in Jobs /\ Followers \in Nat
  BY Shape DEF StartsEval, Ready, ClusterInv
<1>2. Arranged(tfConfig[p], p)
  BY <1>1, StagesArranged DEF Ready
<1>3. CASE IsEvaluator(p)
  <2>1. TaskIndex(p) = 0 /\ TaskNum(p) = 1
    BY <1>3 DEF TaskIndex, TaskNum
  <2>2. job.cmd # "evaluate"
    BY <1>1, <1>3 DEF Evaluates, IsEvaluator
  <2> QED BY <1>1, <2>1, <2>2 DEF Numbered
<1>4. CASE ~IsEvaluator(p)
  <2>1. ~IsPs(p)
    BY <1>1, <1>4 DEF Evaluates, IsPs
  <2>2. PICK n \in 0..Followers : p = ProcAt(n)
    BY <1>1, <1>2, <1>4, <2>1, PlaceOf, Answers
  <2>3. TaskIndex(p) = n /\ TaskNum(p) = Followers + 1
    BY <1>1, <1>2, <2>2, Answers
  <2> QED BY <1>1, <2>2, <2>3 DEF Numbered
<1> QED BY <1>3, <1>4

(* The inductive invariant of the evaluations.                             *)
EvaluatedAs(p) ==
  \E n \in 0..Followers :
    p = ProcAt(n) /\ evals[p][1] = <<ShareInOrder("eval", n, Followers + 1)>>

CriteoIs(p) ==
  \/ reader[p] = ClosedReader /\ passing[p] = FALSE /\ evals[p] = <<>>
  \/ /\ Ready(p) /\ Numbered(p)
     /\ reader[p].batches = Batches(data.files, TaskIndex(p), TaskNum(p))
     /\ PassIs(reader[p], evals[p], passing[p], data.limited, SUBSET Rows)

OtherIs(p) ==
  /\ passing[p] = FALSE /\ evals[p] \in Seq(Seq(SUBSET Rows))
  /\ job.cmd = "evaluate" /\ evals[p] # <<>> => EvaluatedAs(p)

EvalsAre(p) == IF data.kind = "criteo" THEN CriteoIs(p) ELSE OtherIs(p)

EvalInv ==
  /\ data \in Datas
  /\ DOMAIN evals = Procs /\ DOMAIN reader = Procs /\ passing \in [Procs -> BOOLEAN]
  /\ \A p \in Procs : EvalsAre(p)

LEMMA EvalsStay ==
  ASSUME ClusterInv, [JobNext]_jobVars, UNCHANGED job, UNCHANGED data,
         NEW p \in Procs, EvalsAre(p),
         reader'[p] = reader[p], evals'[p] = evals[p], passing'[p] = passing[p]
  PROVE  EvalsAre(p)'
<1>1. Rows' = Rows
  BY DEF Rows
<1>2. CASE data.kind = "criteo"
  <2>1. CriteoIs(p)
    BY <1>2 DEF EvalsAre
  <2>2. CASE reader[p] = ClosedReader /\ passing[p] = FALSE /\ evals[p] = <<>>
    BY <1>2, <2>2 DEF EvalsAre, CriteoIs
  <2>3. CASE /\ Ready(p) /\ Numbered(p)
             /\ reader[p].batches = Batches(data.files, TaskIndex(p), TaskNum(p))
             /\ PassIs(reader[p], evals[p], passing[p], data.limited, SUBSET Rows)
    <3>1. Ready(p)' /\ TaskIndex(p)' = TaskIndex(p) /\ TaskNum(p)' = TaskNum(p)
      BY <2>3, ReadyStays
    <3>2. Numbered(p)'
      BY <2>3, <3>1, InputStays DEF Numbered
    <3>3. /\ reader'[p].batches = Batches(data'.files, TaskIndex(p)', TaskNum(p)')
          /\ PassIs(reader'[p], evals'[p], passing'[p], data'.limited, SUBSET Rows')
      BY <1>1, <2>3, <3>1
    <3> QED BY <1>2, <3>1, <3>2, <3>3 DEF EvalsAre, CriteoIs
  <2> QED BY <2>1, <2>2, <2>3 DEF CriteoIs
<1>3. CASE data.kind # "criteo"
  <2>1. OtherIs(p)
    BY <1>3 DEF EvalsAre
  <2>2. EvaluatedAs(p)' <=> EvaluatedAs(p)
    BY InputStays DEF EvaluatedAs
  <2> QED BY <1>1, <1>3, <2>1, <2>2 DEF EvalsAre, OtherIs
<1> QED BY <1>2, <1>3

LEMMA StartPassEvals ==
  ASSUME ClusterInv, EvalInv, [JobNext]_jobVars, NEW p \in Procs, StartPass(p)
  PROVE  EvalsAre(p)'
<1> DEFINE r2 == reader'[p]
           B == Batches(data.files, TaskIndex(p), TaskNum(p))
           S == SUBSET Rows
<1>1. /\ StartsEval(p) /\ data.kind = "criteo" /\ passing[p] = FALSE
      /\ UNCHANGED <<job, data, evals>> /\ Rows' = Rows
  BY DEF StartPass, Rows, clusterVars, EvalInv
<1>2. /\ passing'[p] = TRUE
      /\ r2 = Rewound(IF reader[p] # ClosedReader THEN reader[p]
                      ELSE OpenReader(data.files, TaskIndex(p), TaskNum(p)))
  BY DEF StartPass, EvalInv
<1>3. Ready(p) /\ Numbered(p) /\ data \in Datas /\ CriteoIs(p)
  BY <1>1, EvalTask DEF EvalInv, EvalsAre
<1>4. Ready(p)' /\ TaskIndex(p)' = TaskIndex(p) /\ TaskNum(p)' = TaskNum(p)
  BY <1>3, ReadyStays
<1>5. Numbered(p)'
  BY <1>1, <1>3, <1>4, InputStays DEF Numbered
<1>6. B \in Seq(S) /\ Len(B) > 0
  BY <1>1, <1>3, BatchesType DEF Numbered
<1> HIDE DEF B, S
<1>7. PassIs(r2, evals[p], TRUE, data.limited, S) /\ r2.batches = B
  <2>1. CASE reader[p] = ClosedReader /\ evals[p] = <<>>
    <3>1. r2 = Rewound([ClosedReader EXCEPT !.batches = B])
      BY <1>2, <2>1 DEF OpenReader, B
    <3> HIDE DEF r2
    <3>2. PassIs(r2, <<>>, TRUE, data.limited, S) /\ r2.batches = B
      BY <1>6, <3>1, PassOpened
    <3> QED BY <2>1, <3>2
  <2>2. CASE PassIs(reader[p], evals[p], FALSE, data.limited, S) /\ reader[p].batches = B
    <3>1. /\ PassIs(Rewound(reader[p]), evals[p], TRUE, data.limited, S)
          /\ Rewound(reader[p]).batches = reader[p].batches /\ reader[p] # ClosedReader
      BY <2>2, PassRestarted
    <3> QED BY <1>2, <2>2, <3>1
  <2> QED BY <1>1, <1>3, <2>1, <2>2 DEF CriteoIs, B, S
<1>8. /\ r2.batches = Batches(data'.files, TaskIndex(p)', TaskNum(p)')
      /\ PassIs(r2, evals'[p], passing'[p], data'.limited, SUBSET Rows')
  BY <1>1, <1>2, <1>4, <1>7 DEF B, S
<1> QED BY <1>1, <1>4, <1>5, <1>8 DEF EvalsAre, CriteoIs

LEMMA NextItemEvals ==
  ASSUME ClusterInv, EvalInv, [JobNext]_jobVars, NEW p \in Procs, NextItem(p)
  PROVE  EvalsAre(p)'
<1> DEFINE S == SUBSET Rows
<1>1. /\ passing[p] = TRUE /\ reader[p].idx < Len(reader[p].batches)
      /\ reader'[p] = GetItem(reader[p])
      /\ UNCHANGED <<job, data, evals, passing>> /\ Rows' = Rows
  BY DEF NextItem, Rows, clusterVars, EvalInv
<1>2. data.kind = "criteo"
  BY <1>1 DEF EvalInv, EvalsAre, OtherIs
<1>3. /\ Ready(p) /\ Numbered(p)
      /\ reader[p].batches = Batches(data.files, TaskIndex(p), TaskNum(p))
      /\ PassIs(reader[p], evals[p], TRUE, data.limited, S)
  BY <1>1, <1>2 DEF EvalInv, EvalsAre, CriteoIs
<1>4. Ready(p)' /\ TaskIndex(p)' = TaskIndex(p) /\ TaskNum(p)' = TaskNum(p)
  BY <1>3, ReadyStays
<1>5. Numbered(p)'
  BY <1>1, <1>3, <1>4, InputStays DEF Numbered
<1> HIDE DEF S
<1>6. /\ PassIs(reader'[p], evals[p], TRUE, data.limited, S)
      /\ reader'[p].batches = reader[p].batches
  BY <1>1, <1>3, PassItem
<1>7. /\ reader'[p].batches = Batches(data'.files, TaskIndex(p)', TaskNum(p)')
      /\ PassIs(reader'[p], evals'[p], passing'[p], data'.limited, SUBSET Rows')
  BY <1>1, <1>3, <1>4, <1>6 DEF S
<1> QED BY <1>1, <1>2, <1>4, <1>5, <1>7 DEF EvalsAre, CriteoIs

LEMMA EndPassEvals ==
  ASSUME ClusterInv, EvalInv, [JobNext]_jobVars, NEW p \in Procs, EndPass(p)
  PROVE  EvalsAre(p)'
<1> DEFINE S == SUBSET Rows
<1>1. /\ passing[p] = TRUE /\ passing'[p] = FALSE
      /\ reader[p].idx = Len(reader[p].batches) \/ data.limited
      /\ evals'[p] = Append(evals[p], reader[p].got)
      /\ UNCHANGED <<job, data, reader>> /\ Rows' = Rows
  BY DEF EndPass, Rows, clusterVars, EvalInv
<1>2. data.kind = "criteo" /\ data.limited \in BOOLEAN
  BY <1>1, DatasAssumption DEF EvalInv, EvalsAre, OtherIs, DataType
<1>3. /\ Ready(p) /\ Numbered(p)
      /\ reader[p].batches = Batches(data.files, TaskIndex(p), TaskNum(p))
      /\ PassIs(reader[p], evals[p], TRUE, data.limited, S)
  BY <1>1, <1>2 DEF EvalInv, EvalsAre, CriteoIs
<1>4. Ready(p)' /\ TaskIndex(p)' = TaskIndex(p) /\ TaskNum(p)' = TaskNum(p)
  BY <1>3, ReadyStays
<1>5. Numbered(p)'
  BY <1>1, <1>3, <1>4, InputStays DEF Numbered
<1> HIDE DEF S
<1>6. PassIs(reader[p], Append(evals[p], reader[p].got), FALSE, data.limited, S)
  BY <1>1, <1>2, <1>3, PassEnded
<1>7. /\ reader'[p].batches = Batches(data'.files, TaskIndex(p)', TaskNum(p)')
      /\ PassIs(reader'[p], evals'[p], passing'[p], data'.limited, SUBSET Rows')
  BY <1>1, <1>3, <1>4, <1>6 DEF S
<1> QED BY <1>1, <1>2, <1>4, <1>5, <1>7 DEF EvalsAre, CriteoIs

LEMMA EvaluateEvals ==
  ASSUME ClusterInv, EvalInv, [JobNext]_jobVars, NEW p \in Procs, Evaluate(p)
  PROVE  EvalsAre(p)'
<1> DEFINE share == ShareInOrder("eval", TaskIndex(p), TaskNum(p))
           S == SUBSET Rows
<1>1. /\ StartsEval(p) /\ data.kind # "criteo" /\ evals'[p] = Append(evals[p], <<share>>)
      /\ UNCHANGED <<job, data, passing>> /\ Rows' = Rows
  BY DEF Evaluate, ShareInOrder, Rows, clusterVars, EvalInv
<1>2. OtherIs(p)
  BY <1>1 DEF EvalInv, EvalsAre
<1>3. share \in S
  BY <1>1 DEF Share, ShareInOrder
<1>4. job.cmd = "evaluate" =>
        \E n \in 0..Followers :
          p = ProcAt(n) /\ TaskIndex(p) = n /\ TaskNum(p) = Followers + 1
  BY <1>1, EvalTask DEF Numbered
<1> HIDE DEF share, S
<1>5. evals[p] \in Seq(Seq(S)) /\ <<share>> \in Seq(S)
  BY <1>2, <1>3 DEF OtherIs, S
<1>6. /\ evals'[p] \in Seq(Seq(S))
      /\ evals[p] # <<>> => evals'[p][1] = evals[p][1]
      /\ evals[p] = <<>> => evals'[p][1] = <<share>>
  <2> DEFINE T == Seq(S)
             ev == evals[p]
             e == <<share>>
  <2>1. ev \in Seq(T) /\ e \in T
    BY <1>5
  <2> HIDE DEF T, e, ev
  <2>2. /\ Append(ev, e) \in Seq(T)
        /\ \A j \in 1..Len(ev) : Append(ev, e)[j] = ev[j]
        /\ Append(ev, e)[Len(ev) + 1] = e
    BY <2>1, Appended
  <2>3. ev # <<>> => 1 \in 1..Len(ev)
    BY <2>1
  <2>4. ev = <<>> => Len(ev) + 1 = 1
    BY <2>1
  <2>5. evals'[p] = Append(ev, e)
    BY <1>1 DEF ev, e
  <2> QED BY <2>2, <2>3, <2>4, <2>5 DEF T, ev, e
<1>7. job.cmd = "evaluate" =>
        \E n \in 0..Followers :
          p = ProcAt(n) /\ evals'[p][1] = <<ShareInOrder("eval", n, Followers + 1)>>
  <2>1. CASE evals[p] # <<>>
    BY <1>2, <1>6, <2>1 DEF OtherIs, EvaluatedAs
  <2>2. CASE evals[p] = <<>>
    BY <1>4, <1>6, <2>2 DEF share
  <2> QED BY <2>1, <2>2
<1>8. job.cmd = "evaluate" => EvaluatedAs(p)'
  BY <1>1, <1>7, InputStays DEF EvaluatedAs
<1>9. evals'[p] \in Seq(Seq(SUBSET Rows')) /\ passing'[p] = FALSE
  BY <1>1, <1>2, <1>6 DEF OtherIs, S
<1> QED BY <1>1, <1>8, <1>9 DEF EvalsAre, OtherIs

LEMMA EvalStep ==
  ASSUME ClusterInv, EvalInv, [JobNext]_jobVars
  PROVE  EvalInv'
<1>1. /\ UNCHANGED job /\ UNCHANGED data /\ Procs' = Procs /\ data \in Datas
      /\ DOMAIN evals = Procs /\ DOMAIN reader = Procs /\ passing \in [Procs -> BOOLEAN]
      /\ \A p \in Procs : EvalsAre(p)
  <2>1. UNCHANGED job /\ UNCHANGED data
    BY DEF JobNext, ClusterStep, Configure, DistributeEval, Train, Evaluate, StartPass, NextItem,
           EndPass, jobVars, clusterVars, inputVars
  <2> QED BY <2>1, JobStays DEF EvalInv
<1>2. CASE UNCHANGED <<evals, reader, passing>>
  BY <1>1, <1>2, EvalsStay DEF EvalInv
<1>3. ASSUME NEW p \in Procs, Evaluate(p) \/ StartPass(p) \/ NextItem(p) \/ EndPass(p)
      PROVE  EvalInv'
  <2>1. /\ DOMAIN evals' = Procs /\ DOMAIN reader' = Procs /\ passing' \in [Procs -> BOOLEAN]
        /\ \A q \in Procs \ {p} :
             reader'[q] = reader[q] /\ evals'[q] = evals[q] /\ passing'[q] = passing[q]
    BY <1>1, <1>3 DEF Evaluate, StartPass, NextItem, EndPass
  <2>2. EvalsAre(p)'
    BY <1>3, EvaluateEvals, StartPassEvals, NextItemEvals, EndPassEvals
  <2>3. ASSUME NEW q \in Procs \ {p} PROVE EvalsAre(q)'
    BY <1>1, <2>1, EvalsStay
  <2> QED BY <1>1, <2>1, <2>2, <2>3 DEF EvalInv
<1>4. \/ UNCHANGED <<evals, reader, passing>>
      \/ \E p \in Procs : Evaluate(p) \/ StartPass(p) \/ NextItem(p) \/ EndPass(p)
  BY DEF JobNext, ClusterStep, Train, jobVars, inputVars
<1> QED BY <1>2, <1>3, <1>4

(* Every evaluation of a job is one of these, on every launch path.        *)
THEOREM EvalsKept == JobSpec => []EvalInv
<1>1. InputsInit => EvalInv
  <2> SUFFICES ASSUME InputsInit PROVE EvalInv
    OBVIOUS
  <2>1. /\ data \in Datas /\ evals = [p \in Procs |-> <<>>]
        /\ reader = [p \in Procs |-> ClosedReader] /\ passing = [p \in Procs |-> FALSE]
    BY DEF InputsInit
  <2>2. <<>> \in Seq(Seq(SUBSET Rows))
    OBVIOUS
  <2> QED BY <2>1, <2>2 DEF EvalInv, EvalsAre, CriteoIs, OtherIs
<1>2. ClusterInv /\ EvalInv /\ [JobNext]_jobVars => EvalInv'
  BY EvalStep
<1> QED BY <1>1, <1>2, ConfigsAtStages, PTL DEF JobSpec

(* PassWhole: a criteo pass to the end of the reader hands out its batches *)
(* in order if no earlier one was cut short, for any prefetch depth, batch *)
(* size and file; and the tasks have equally many batches.                 *)
THEOREM PassesAreWhole == JobSpec => []PassWhole
<1>1. EvalInv => PassWhole
  <2> SUFFICES ASSUME EvalInv, data.kind = "criteo", NEW p \in Procs
               PROVE  /\ \A k \in DOMAIN evals[p] :
                           (\A i \in 1..k : Len(evals[p][i]) = Len(reader[p].batches)) =>
                             evals[p][k] = reader[p].batches
                      /\ \A q \in Procs :
                           ClosedReader \notin {reader[p], reader[q]} /\ TaskNum(p) = TaskNum(q) =>
                             Len(reader[p].batches) = Len(reader[q].batches)
    BY DEF PassWhole
  <2>1. \A q \in Procs : CriteoIs(q)
    BY DEF EvalInv, EvalsAre
  <2>2. \A k \in DOMAIN evals[p] :
          (\A i \in 1..k : Len(evals[p][i]) = Len(reader[p].batches)) =>
            evals[p][k] = reader[p].batches
    <3>1. CASE evals[p] = <<>>
      BY <3>1
    <3>2. CASE PassIs(reader[p], evals[p], passing[p], data.limited, SUBSET Rows)
      <4>1. DOMAIN evals[p] = 1..Len(evals[p])
        BY <3>2 DEF PassIs
      <4> QED BY <3>2, <4>1 DEF PassIs
    <3> QED BY <2>1, <3>1, <3>2 DEF CriteoIs
  <2>3. ASSUME NEW q \in Procs, reader[q] # ClosedReader
        PROVE  Len(reader[q].batches) = NumEntries(data.files, TaskNum(q))
    <3>1. /\ Numbered(q) /\ data \in Datas
          /\ reader[q].batches = Batches(data.files, TaskIndex(q), TaskNum(q))
      BY <2>1, <2>3 DEF CriteoIs, EvalInv
    <3> QED BY <3>1, BatchesType DEF Numbered
  <2> QED BY <2>2, <2>3
<1> QED BY <1>1, EvalsKept, PTL

(* Which processes a distributed evaluation waits for, at any stage.       *)
LEMMA PsIsPs ==
  ASSUME ClusterInv, NEW p \in Procs
  PROVE  IsPs(p) <=> p.type = "ps"
<1>1. CASE stage[p] = "started"
  <2>1. tfConfig[p] = Given(p)
    BY <1>1 DEF ClusterInv, ConfigAt
  <2> QED BY <2>1 DEF IsPs, TaskOf, Given
<1>2. CASE stage[p] # "started"
  BY <1>2, StagesArranged, Answers DEF ClusterInv
<1> QED BY <1>1, <1>2

(* What each task of a distributed evaluation counted first.               *)
LEMMA FirstEvals ==
  ASSUME ClusterInv, EvalInv, job.cmd = "evaluate", ~data.limited,
         \A p \in Procs : IsPs(p) \/ evals[p] # <<>>
  PROVE  /\ \A n \in 0..Followers :
              evals[ProcAt(n)][1] =
                IF data.kind = "criteo" THEN Batches(data.files, n, Followers + 1)
                ELSE <<ShareInOrder("eval", n, Followers + 1)>>
         /\ {p \in Procs : ~IsPs(p)} = {ProcAt(n) : n \in 0..Followers}
<1>1. job \in Jobs /\ Followers \in Nat
  BY Shape DEF ClusterInv
<1>2. ASSUME NEW p \in Procs, evals[p] # <<>>
      PROVE  \E n \in 0..Followers :
               /\ p = ProcAt(n)
               /\ evals[p][1] = IF data.kind = "criteo" THEN Batches(data.files, n, Followers + 1)
                                ELSE <<ShareInOrder("eval", n, Followers + 1)>>
  <2>1. CASE data.kind # "criteo"
    BY <1>2, <2>1 DEF EvalInv, EvalsAre, OtherIs, EvaluatedAs
  <2>2. CASE data.kind = "criteo"
    <3>1. /\ Numbered(p) /\ reader[p].batches = Batches(data.files, TaskIndex(p), TaskNum(p))
          /\ PassIs(reader[p], evals[p], passing[p], data.limited, SUBSET Rows)
      BY <1>2, <2>2 DEF EvalInv, EvalsAre, CriteoIs
    <3>2. evals[p] \in Seq(Seq(SUBSET Rows)) /\ AllFull(reader[p], evals[p])
      BY <3>1 DEF PassIs
    <3>3. 1 \in 1..Len(evals[p])
      BY <1>2, <3>2
    <3>4. \A i \in 1..1 : Len(evals[p][i]) = Len(reader[p].batches)
      BY <3>2, <3>3 DEF AllFull
    <3>5. evals[p][1] = reader[p].batches
      BY <3>1, <3>3, <3>4 DEF PassIs
    <3>6. \E n \in 0..Followers : p = ProcAt(n) /\ TaskIndex(p) = n /\ TaskNum(p) = Followers + 1
      BY <3>1 DEF Numbered
    <3> QED BY <2>2, <3>1, <3>5, <3>6
  <2> QED BY <2>1, <2>2
<1>3. {p \in Procs : ~IsPs(p)} = {ProcAt(n) : n \in 0..Followers}
  BY <1>1, <1>2, PsIsPs, PlaceIsProc
<1>4. ASSUME NEW n \in 0..Followers
      PROVE  evals[ProcAt(n)][1] =
               IF data.kind = "criteo" THEN Batches(data.files, n, Followers + 1)
               ELSE <<ShareInOrder("eval", n, Followers + 1)>>
  <2>1. ProcAt(n) \in Procs /\ evals[ProcAt(n)] # <<>>
    BY <1>1, PlaceIsProc, PsIsPs
  <2> QED BY <1>1, <1>2, <2>1, PlacesDiffer
<1> QED BY <1>3, <1>4

(* EvaluatedAlike: every row is counted in a distributed evaluation, and   *)
(* equally often unless the input shares with the chief or criteo batches  *)
(* overlap, for any number of processes and files and every launch path.   *)
THEOREM RowsEvaluatedAlike == JobSpec => []EvaluatedAlike
<1>1. ClusterInv /\ EvalInv => EvaluatedAlike
  <2> SUFFICES ASSUME ClusterInv, EvalInv, job.cmd = "evaluate", ~data.limited,
                      \A p \in Procs : IsPs(p) \/ evals[p] # <<>>
               PROVE  /\ \A row \in Rows : Counts(row) # {}
                      /\ data.kind # "criteo" /\ ~SharesWithChief("eval") =>
                           \A row, other \in Rows :
                             Cardinality(Counts(row)) = Cardinality(Counts(other))
    BY DEF EvaluatedAlike
  <2> DEFINE N == Followers + 1
             P == {ProcAt(n) : n \in 0..Followers}
             At(n) == ShareInOrder("eval", n, N)
  <2>1. job \in Jobs /\ Followers \in Nat /\ N \in Nat \ {0} /\ data \in Datas
    BY Shape DEF ClusterInv, EvalInv
  <2>2. /\ \A n \in 0..Followers :
              evals[ProcAt(n)][1] = IF data.kind = "criteo" THEN Batches(data.files, n, N)
                                    ELSE <<At(n)>>
        /\ {p \in Procs : ~IsPs(p)} = P
    BY FirstEvals
  <2>3. \A row : Counts(row) =
          UNION {{p} \X {b \in DOMAIN evals[p][1] : row \in evals[p][1][b]} : p \in P}
    BY <2>2 DEF Counts
  <2> HIDE DEF At
  <2>4. ASSUME data.kind # "criteo", NEW row
        PROVE  Counts(row) = {<<ProcAt(n), 1>> : n \in {n \in 0..Followers : row \in At(n)}}
    <3>1. ASSUME NEW n \in 0..Followers
          PROVE  {b \in DOMAIN evals[ProcAt(n)][1] : row \in evals[ProcAt(n)][1][b]} =
                   {b \in {1} : row \in At(n)}
      <4>1. evals[ProcAt(n)][1] = <<At(n)>>
        BY <2>2, <2>4
      <4> QED BY <4>1
    <3> QED BY <2>3, <3>1
  <2>5. ASSUME data.kind = "criteo", NEW row \in Rows
        PROVE  Counts(row) # {}
    <3>1. PICK r \in 0..(N - 1) : \E k \in DOMAIN Batches(data.files, r, N) :
                 row \in Batches(data.files, r, N)[k]
      BY <2>1, <2>5, BatchesCover
    <3>2. r \in 0..Followers
      BY <2>1
    <3>3. PICK k \in DOMAIN Batches(data.files, r, N) : row \in Batches(data.files, r, N)[k]
      BY <3>1
    <3>4. <<ProcAt(r), k>> \in Counts(row)
      BY <2>2, <2>3, <2>5, <3>2, <3>3
    <3> QED BY <3>4
  <2>6. ASSUME data.kind # "criteo", ~Divides("eval", N)
        PROVE  \A n \in 0..Followers : At(n) = Rows
    BY <2>6 DEF Share, ShareInOrder, At
  <2>7. ASSUME data.kind # "criteo", Divides("eval", N), ~SharesWithChief("eval"), NEW row \in Rows
        PROVE  \E m \in 0..Followers : {n \in 0..Followers : row \in At(n)} = {m}
    <3>1. \A n \in 0..(N - 1) : row \in At(n) <=> UnitInOrder("eval", N, row) % N = n
      BY <2>1, <2>7, ShareOf DEF At
    <3>2. UnitInOrder("eval", N, row) % N \in 0..(N - 1)
      BY <2>1, UnitIsNat, Remainder DEF UnitInOrder
    <3> DEFINE m == UnitInOrder("eval", N, row) % N
    <3>3. m \in 0..Followers /\ 0..(N - 1) = 0..Followers
      BY <2>1, <3>2
    <3>4. \A n \in 0..Followers : row \in At(n) <=> m = n
      BY <3>1, <3>3
    <3> HIDE DEF m
    <3> QED BY <3>3, <3>4
  <2>8. ASSUME data.kind # "criteo", NEW row \in Rows
        PROVE  \E n \in 0..Followers : row \in At(n)
    <3>1. CASE ~Divides("eval", N)
      BY <2>1, <2>6, <2>8, <3>1
    <3>2. CASE Divides("eval", N) /\ ~SharesWithChief("eval")
      BY <2>7, <2>8, <3>2
    <3>3. CASE Divides("eval", N) /\ SharesWithChief("eval") /\ N = 1
      <4>1. 0 \in 0..(N - 1) /\ 0 \in 0..Followers
        BY <2>1
      <4>2. row \in At(0)
        BY <2>1, <2>8, <3>3, <4>1, ShareOf DEF At
      <4> QED BY <4>1, <4>2
    <3>4. CASE Divides("eval", N) /\ SharesWithChief("eval") /\ N > 1
      <4> DEFINE m == UnitInOrder("eval", N, row) % (N - 1)
      <4>1. m \in 0..(N - 2) /\ \A n \in 0..(N - 1) : n = m + 1 => row \in At(n)
        BY <2>1, <2>8, <3>4, ShareOf DEF At
      <4> HIDE DEF m
      <4>2. m + 1 \in 0..(N - 1) /\ m + 1 \in 0..Followers
        BY <2>1, <3>4, <4>1
      <4> QED BY <4>1, <4>2
    <3> QED BY <2>1, <3>1, <3>2, <3>3, <3>4
  <2>9. ASSUME data.kind # "criteo", ~SharesWithChief("eval"), NEW row \in Rows, NEW other \in Rows
        PROVE  Cardinality(Counts(row)) = Cardinality(Counts(other))
    <3>1. CASE ~Divides("eval", N)
      <4>1. Counts(row) = Counts(other)
        BY <2>4, <2>6, <2>9, <3>1
      <4> QED BY <4>1
    <3>2. CASE Divides("eval", N)
      <4>1. ASSUME NEW r \in Rows PROVE Cardinality(Counts(r)) = 1
        <5>1. PICK m \in 0..Followers : {n \in 0..Followers : r \in At(n)} = {m}
          BY <2>7, <2>9, <3>2
        <5>2. Counts(r) = {<<ProcAt(m), 1>>}
          BY <2>4, <2>9, <5>1
        <5> QED BY <5>2, FS_Singleton
      <4> QED BY <4>1
    <3> QED BY <3>1, <3>2
  <2>10. ASSUME NEW row \in Rows PROVE Counts(row) # {}
    <3>1. CASE data.kind = "criteo"
      BY <2>5, <3>1
    <3>2. CASE data.kind # "criteo"
      <4>1. Counts(row) = {<<ProcAt(n), 1>> : n \in {n \in 0..Followers : row \in At(n)}}
        BY <2>4, <3>2
      <4>2. PICK n \in 0..Followers : row \in At(n)
        BY <2>8, <3>2
      <4>3. <<ProcAt(n), 1>> \in Counts(row)
        BY <4>1, <4>2
      <4> QED BY <4>3
    <3> QED BY <3>1, <3>2
  <2> QED BY <2>9, <2>10
<1> QED BY <1>1, ConfigsAtStages, EvalsKept, PTL

=============================================================================
