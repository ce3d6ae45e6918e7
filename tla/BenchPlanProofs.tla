-------------------------- MODULE BenchPlanProofs --------------------------
(***************************************************************************)
(* The harness carries out its plan whatever the operations are: the       *)
(* safety of BenchPlan, for every machine, command line, number of         *)
(* interfering threads and samples, and behaviour of the signals.          *)
(***************************************************************************)
EXTENDS HarnessProofs

Distinct(s) == \A i, j \in 1 .. Len(s) : s[i] = s[j] => i = j

(* The runs left are different, and the rows of a run are written in it.   *)
PlanOK ==
  /\ Distinct(todo)
  /\ \A i \in 1 .. Len(out), k \in 2 .. Len(todo) : out[i].run # todo[k]

(* The rows of the current run, before, in and after its measurement.      *)
Unmeasured ==
  todo # << >> /\ pc[Main] \in {"run", "spawn"} => Promise!Written = {}
BeingMeasured == pc[Main] = "join_t" /\ pc[Measurer] # "done"
InMeasurement ==
  BeingMeasured =>
    /\ Promise!Written = 0 .. sample - 1
    /\ pc[Measurer] = "start" \/ run.kind = "latency" => sample = 0
    /\ run.kind = "latency" => pc[Measurer] # "sample"
    /\ run.kind = "energy" /\ pc[Measurer] \notin {"start", "sample"} => sample < nr_samples
    /\ pc[Measurer] = "sample" => sample <= nr_samples \/ sample = 0
Complete ==
  \/ Promise!Written = 0 .. RowsOf(run) - 1
  \/ Promise!Written = {} /\ IsEnergy(run)
HasMeasured ==
  \/ pc[Main] \in {"kill", "join"}
  \/ pc[Main] = "join_t" /\ pc[Measurer] = "done"
PlanInv == PlanOK /\ Unmeasured /\ InMeasurement /\ (HasMeasured => Complete)

-----------------------------------------------------------------------------
LEMMA DistinctConcat ==
  ASSUME NEW S, NEW s \in Seq(S), NEW t \in Seq(S), Distinct(s), Distinct(t),
         \A i \in 1 .. Len(s), j \in 1 .. Len(t) : s[i] # t[j]
  PROVE  Distinct(s \o t)
<1> DEFINE u == s \o t
<1>1. /\ Len(u) = Len(s) + Len(t) /\ Len(s) \in Nat /\ Len(t) \in Nat
      /\ \A i \in 1 .. Len(u) : u[i] = IF i <= Len(s) THEN s[i] ELSE t[i - Len(s)]
  OBVIOUS
<1>2. SUFFICES ASSUME NEW i \in 1 .. Len(u), NEW j \in 1 .. Len(u), u[i] = u[j]
               PROVE  i = j
  BY DEF Distinct
<1> HIDE DEF u
<1>3. CASE i <= Len(s) /\ j <= Len(s)
  BY <1>1, <1>2, <1>3 DEF Distinct
<1>4. CASE i > Len(s) /\ j > Len(s)
  <2>1. i - Len(s) \in 1 .. Len(t) /\ j - Len(s) \in 1 .. Len(t)
    BY <1>1, <1>4
  <2>2. t[i - Len(s)] = t[j - Len(s)]
    BY <1>1, <1>2, <1>4
  <2>3. i - Len(s) = j - Len(s)
    BY <2>1, <2>2 DEF Distinct
  <2>4. QED
    BY <2>3, <1>1
<1>5. CASE i <= Len(s) /\ j > Len(s)
  <2>1. i \in 1 .. Len(s) /\ j - Len(s) \in 1 .. Len(t)
    BY <1>1, <1>5
  <2>2. QED
    BY <1>1, <1>2, <1>5, <2>1
<1>6. CASE i > Len(s) /\ j <= Len(s)
  <2>1. j \in 1 .. Len(s) /\ i - Len(s) \in 1 .. Len(t)
    BY <1>1, <1>6
  <2>2. QED
    BY <1>1, <1>2, <1>6, <2>1
<1>7. QED
  BY <1>1, <1>3, <1>4, <1>5, <1>6

(* A sequence of different runs of kind k and of scenarios in X.           *)
Part(s, k, X) ==
  /\ s \in Seq(Run) /\ Distinct(s)
  /\ \A i \in 1 .. Len(s) : s[i].kind = k /\ s[i].scenario \in X

LEMMA RunIfPart ==
  ASSUME NEW b \in benchmarks, NEW k \in {"latency", "energy"}, NEW s \in Scenario
  PROVE  Part(RunIf(b, k, s), k, {s})
<1> DEFINE r == [benchmark |-> b, kind |-> k, scenario |-> s]
<1>1. r \in Run /\ r.kind = k /\ r.scenario = s
  BY DEF Run
<1> HIDE DEF r
<1>2. Part(<< r >>, k, {s})
  BY <1>1 DEF Part, Distinct
<1>3. Part(<< >>, k, {s})
  BY DEF Part, Distinct
<1>4. QED
  BY <1>2, <1>3 DEF RunIf, r

LEMMA PartConcat ==
  ASSUME NEW k, NEW X, NEW Y, X \cap Y = {}, NEW s, NEW t, Part(s, k, X), Part(t, k, Y)
  PROVE  Part(s \o t, k, X \cup Y)
<1>1. s \in Seq(Run) /\ t \in Seq(Run) /\ Len(s) \in Nat /\ Len(t) \in Nat
  BY DEF Part
<1>2. \A i \in 1 .. Len(s), j \in 1 .. Len(t) : s[i] # t[j]
  BY DEF Part
<1>3. Distinct(s \o t)
  BY <1>1, <1>2, DistinctConcat DEF Part
<1>4. s \o t \in Seq(Run) /\ Len(s \o t) = Len(s) + Len(t)
  BY <1>1
<1>5. ASSUME NEW i \in 1 .. Len(s \o t)
      PROVE  (s \o t)[i].kind = k /\ (s \o t)[i].scenario \in X \cup Y
  <2>1. CASE i <= Len(s)
    <3>1. (s \o t)[i] = s[i] /\ i \in 1 .. Len(s)
      BY <1>1, <1>4, <2>1
    <3>2. QED
      BY <3>1 DEF Part
  <2>2. CASE i > Len(s)
    <3>1. (s \o t)[i] = t[i - Len(s)] /\ i - Len(s) \in 1 .. Len(t)
      BY <1>1, <1>4, <2>2
    <3>2. QED
      BY <3>1 DEF Part
  <2>3. QED
    BY <1>1, <1>4, <2>1, <2>2
<1>6. QED
  BY <1>3, <1>4, <1>5 DEF Part

LEMMA BenchmarksPart ==
  ASSUME NEW b \in benchmarks, NEW k \in {"latency", "energy"}
  PROVE  Part(Benchmarks(b, k), k, Scenario)
<1> DEFINE P == RunIf(b, k, "REMOTE_PACKAGE")  C == RunIf(b, k, "REMOTE_CORE")
           L == RunIf(b, k, "LOCAL_CORE")  N == RunIf(b, k, "NO_INTERFERENCE")
<1>1. /\ Part(P, k, {"REMOTE_PACKAGE"}) /\ Part(C, k, {"REMOTE_CORE"})
      /\ Part(L, k, {"LOCAL_CORE"}) /\ Part(N, k, {"NO_INTERFERENCE"})
  BY RunIfPart DEF Scenario, InterferenceScenario
<1> HIDE DEF P, C, L, N
<1>2. Part(P \o C, k, {"REMOTE_PACKAGE"} \cup {"REMOTE_CORE"})
  BY <1>1, PartConcat
<1>3. Part((P \o C) \o L, k, {"REMOTE_PACKAGE"} \cup {"REMOTE_CORE"} \cup {"LOCAL_CORE"})
  BY <1>1, <1>2, PartConcat
<1>4. Part(((P \o C) \o L) \o N, k,
           {"REMOTE_PACKAGE"} \cup {"REMOTE_CORE"} \cup {"LOCAL_CORE"} \cup {"NO_INTERFERENCE"})
  BY <1>1, <1>3, PartConcat
<1>5. Scenario = {"REMOTE_PACKAGE"} \cup {"REMOTE_CORE"} \cup {"LOCAL_CORE"}
                   \cup {"NO_INTERFERENCE"}
  BY DEF Scenario, InterferenceScenario
<1>6. Benchmarks(b, k) = ((P \o C) \o L) \o N
  BY DEF Benchmarks, P, C, L, N
<1>7. QED
  BY <1>4, <1>5, <1>6

LEMMA PlansDistinct == \A plan \in Plans : Distinct(plan)
<1>1. SUFFICES ASSUME NEW b \in benchmarks
               PROVE  Distinct(Plan(b))
  BY DEF Plans
<1> DEFINE L == IF latency_output THEN Benchmarks(b, "latency") ELSE << >>
           E == IF energy_output THEN Benchmarks(b, "energy") ELSE << >>
<1>2. Part(<< >>, "latency", Scenario) /\ Part(<< >>, "energy", Scenario)
  BY DEF Part, Distinct
<1>3. Part(L, "latency", Scenario) /\ Part(E, "energy", Scenario)
  BY <1>2, BenchmarksPart
<1> HIDE DEF L, E
<1>4. Distinct(L \o E)
  BY <1>3, DistinctConcat DEF Part
<1>5. QED
  BY <1>4 DEF Plan, L, E
-----------------------------------------------------------------------------
LEMMA CurrentRun ==
  ASSUME ProgressType
  PROVE  /\ todo \in Seq(Run) /\ out \in Seq([run : Run, sample : Nat]) /\ sample \in Nat
         /\ nr_samples \in Int
         /\ todo # << >> => Promise!run = run /\ run = todo[1] /\ run \in Run
         /\ todo # << >> => run.kind \in {"latency", "energy"}
         /\ Promise!Written = { out[i].sample : i \in { j \in 1 .. Len(out) : out[j].run = run } }
<1>1. /\ todo \in Seq(Run) /\ out \in Seq([run : Run, sample : Nat]) /\ sample \in Nat
      /\ nr_samples \in Int
  BY HarnessAssumption DEF ProgressType
<1>2. Promise!run = run
  BY DEF Promise!run, run
<1>3. todo # << >> => run = todo[1] /\ run \in Run
  BY <1>1 DEF run
<1>4. DOMAIN out = 1 .. Len(out)
  BY <1>1
<1>5. QED
  BY <1>1, <1>2, <1>3, <1>4 DEF Promise!Written, Run

LEMMA WrittenUnchanged ==
  ASSUME UNCHANGED <<todo, out>>
  PROVE  Promise!Written' = Promise!Written /\ run' = run /\ PlanOK' = PlanOK
BY DEF Promise!Written, Promise!run, run, PlanOK, Distinct

(* A row is written in the current run. *)
LEMMA WriteRow ==
  ASSUME ProgressType, PlanOK, todo # << >>, todo' = todo, out' = Append(out, Row)
  PROVE  Promise!Written' = Promise!Written \cup {sample} /\ PlanOK' /\ run' = run
<1>1. /\ todo \in Seq(Run) /\ out \in Seq([run : Run, sample : Nat]) /\ sample \in Nat
      /\ run = todo[1] /\ run \in Run
  BY CurrentRun
<1>2. run' = run
  BY DEF run
<1>3. /\ Row \in [run : Run, sample : Nat] /\ Row.run = run /\ Row.sample = sample
  BY <1>1 DEF Row
<1>4. /\ Len(out) \in Nat /\ Len(out') = Len(out) + 1
      /\ \A i \in 1 .. Len(out) : out'[i] = out[i]
      /\ out'[Len(out) + 1] = Row /\ DOMAIN out = 1 .. Len(out)
      /\ DOMAIN out' = 1 .. Len(out) + 1
  BY <1>1, <1>3
<1>5. { j \in 1 .. Len(out) + 1 : out'[j].run = run }
        = { j \in 1 .. Len(out) : out[j].run = run } \cup {Len(out) + 1}
  BY <1>3, <1>4
<1>6. Promise!Written' = Promise!Written \cup {sample}
  <2>1. Promise!Written = { out[i].sample : i \in { j \in 1 .. Len(out) : out[j].run = run } }
    BY CurrentRun
  <2>2. Promise!Written'
          = { out'[i].sample : i \in { j \in 1 .. Len(out) + 1 : out'[j].run = run } }
    BY <1>2, <1>4 DEF Promise!Written, Promise!run, run
  <2>3. QED
    BY <1>3, <1>4, <1>5, <2>1, <2>2
<1>7. PlanOK'
  <2>1. Distinct(todo')
    BY DEF PlanOK
  <2>2. ASSUME NEW i \in 1 .. Len(out'), NEW k \in 2 .. Len(todo')
        PROVE  out'[i].run # todo'[k]
    <3>1. CASE i \in 1 .. Len(out)
      BY <3>1, <1>4 DEF PlanOK
    <3>2. CASE i = Len(out) + 1
      <4>1. out'[i].run = todo[1] /\ k \in 1 .. Len(todo) /\ 1 \in 1 .. Len(todo) /\ k # 1
        BY <3>2, <1>1, <1>3, <1>4
      <4>2. todo[k] # todo[1]
        BY <4>1 DEF PlanOK, Distinct
      <4>3. QED
        BY <4>1, <4>2
    <3>3. QED
      BY <3>1, <3>2, <1>4
  <2>3. QED
    BY <2>1, <2>2 DEF PlanOK
<1>8. QED
  BY <1>2, <1>6, <1>7

(* The run left next has no rows yet. *)
LEMMA NextRun ==
  ASSUME ProgressType, PlanOK, todo # << >>, todo' = Tail(todo), out' = out
  PROVE  PlanOK' /\ (todo' # << >> => Promise!Written' = {})
<1>1. todo \in Seq(Run) /\ out \in Seq([run : Run, sample : Nat])
  BY CurrentRun
<1>2. /\ Len(todo) \in Nat \ {0} /\ Len(todo') = Len(todo) - 1
      /\ \A i \in 1 .. Len(todo') : i + 1 \in 2 .. Len(todo) /\ todo'[i] = todo[i + 1]
  BY <1>1
<1>3. Distinct(todo')
  BY <1>2 DEF PlanOK, Distinct
<1>4. \A i \in 1 .. Len(out), k \in 1 .. Len(todo') : out[i].run # todo'[k]
  BY <1>2 DEF PlanOK
<1>5. PlanOK'
  BY <1>2, <1>3, <1>4 DEF PlanOK
<1>6. ASSUME todo' # << >>
      PROVE  Promise!Written' = {}
  <2>1. todo' \in Seq(Run)
    BY <1>1
  <2>2. run' = todo'[1] /\ 1 \in 1 .. Len(todo')
    BY <1>6, <2>1 DEF run
  <2>3. { j \in 1 .. Len(out) : out[j].run = run' } = {}
    BY <1>4, <2>2
  <2>4. DOMAIN out' = 1 .. Len(out)
    BY <1>1
  <2>5. Promise!Written' = { out[i].sample : i \in { j \in 1 .. Len(out) : out[j].run = run' } }
    BY <2>4 DEF Promise!Written, Promise!run, run
  <2>6. QED
    BY <2>3, <2>5
<1>7. QED
  BY <1>5, <1>6
-----------------------------------------------------------------------------
(* What a step does to the plan, and to the position in it. *)
Kept == PlanInv' /\ [Promise!Next]_(Promise!vars)

(* The run goes on, or nothing happens in it. *)
Quiet ==
  /\ UNCHANGED <<todo, rows>> /\ pc'[Main] = pc[Main]
  /\ \A l \in {"none", "start", "sample", "done"} : pc'[Measurer] = l <=> pc[Measurer] = l

LEMMA QuietKept == PlanInv /\ Quiet => Kept
<1> SUFFICES ASSUME PlanInv, Quiet PROVE Kept
  OBVIOUS
<1>1. UNCHANGED <<todo, out, sample>> /\ UNCHANGED pc[Main]
  BY DEF Quiet, rows
<1>2. Promise!Written' = Promise!Written /\ run' = run /\ PlanOK' = PlanOK
  BY <1>1, WrittenUnchanged
<1>3. PlanInv'
  BY <1>1, <1>2
  DEF Quiet, PlanInv, Unmeasured, InMeasurement, BeingMeasured, HasMeasured, Complete, RowsOf,
      IsEnergy
<1>4. UNCHANGED Promise!vars
  BY <1>1 DEF Promise!vars
<1>5. QED
  BY <1>3, <1>4 DEF Kept

LEMMA MainKept ==
  ASSUME NEW ML, NEW IL, HarnessInv(ML, IL), PlanInv, MainStep \/ StartRun \/ ReturnFromRun
  PROVE  Kept
<1> USE Ids DEF MainAt, At, Goto
<1>0. /\ pc \in [Threads -> Labels \cup (ML \cup IL)] /\ RunOK /\ ProgressType
  BY DEF HarnessInv, PcType
<1>1. CASE SkipRun
  <2>1. /\ pc[Main] = "run" /\ todo # << >> /\ Skipped(run) /\ todo' = Tail(todo)
        /\ UNCHANGED <<pc, out, sample>>
    BY <1>1 DEF SkipRun, rows
  <2>2. PlanOK' /\ (todo' # << >> => Promise!Written' = {})
    BY <2>1, NextRun, <1>0 DEF PlanInv
  <2>3. PlanInv'
    BY <2>1, <2>2 DEF PlanInv, Unmeasured, InMeasurement, BeingMeasured, HasMeasured
  <2>4. Promise!Skip
    BY <1>0, <2>1, CurrentRun DEF Promise!Skip
  <2>5. QED
    BY <2>3, <2>4 DEF Kept, Promise!Next
<1>2. CASE StartRun
  <2>1. /\ pc[Main] = "run" /\ todo # << >> /\ ~ Skipped(run) /\ pc'[Main] = "spawn"
        /\ UNCHANGED <<todo, out, sample>>
    BY <1>0, <1>2 DEF StartRun, rows
  <2>2. PlanInv'
    BY <2>1, WrittenUnchanged
    DEF PlanInv, Unmeasured, InMeasurement, BeingMeasured, HasMeasured
  <2>3. Promise!Begin
    BY <1>0, <2>1, CurrentRun DEF Promise!Begin
  <2>4. QED
    BY <2>2, <2>3 DEF Kept, Promise!Next
<1>3. CASE SpawnInterfering
  <2>1. Quiet
    BY <1>0, <1>3
    DEF SpawnInterfering, Interfering, Quiet, rows, ProgressType
  <2>2. QED
    BY <2>1, QuietKept
<1>4. CASE SpawnMeasuring
  <2>1. /\ pc[Main] = "spawn" /\ pc'[Main] = "join_t" /\ pc'[Measurer] = "start"
        /\ sample' = 0 /\ UNCHANGED <<todo, out>> /\ todo # << >>
    BY <1>0, <1>4 DEF SpawnMeasuring, RunOK
  <2>2. Promise!Written' = {} /\ PlanOK' /\ 0 .. sample' - 1 = {}
    BY <2>1, WrittenUnchanged DEF PlanInv, Unmeasured
  <2>3. PlanInv'
    BY <2>1, <2>2
    DEF PlanInv, Unmeasured, InMeasurement, BeingMeasured, HasMeasured
  <2>4. UNCHANGED Promise!vars
    BY <2>1 DEF Promise!vars
  <2>5. QED
    BY <2>3, <2>4 DEF Kept
<1>5. CASE JoinMeasuring
  <2>1. /\ pc[Main] = "join_t" /\ pc[Measurer] = "done" /\ pc'[Main] = "kill"
        /\ UNCHANGED <<todo, out>>
    BY <1>0, <1>5 DEF JoinMeasuring, rows
  <2>2. PlanInv'
    BY <2>1, WrittenUnchanged
    DEF PlanInv, Unmeasured, InMeasurement, BeingMeasured, HasMeasured, Complete, RowsOf,
        IsEnergy
  <2>3. UNCHANGED Promise!vars
    BY <2>1 DEF Promise!vars
  <2>4. QED
    BY <2>2, <2>3 DEF Kept
<1>6. CASE KillInterfering
  <2>1. Quiet
    BY <1>6 DEF KillInterfering, Quiet
  <2>2. QED
    BY <2>1, QuietKept
<1>7. CASE AllKilled
  <2>1. pc[Main] = "kill" /\ pc'[Main] = "join" /\ UNCHANGED <<todo, out>>
    BY <1>0, <1>7 DEF AllKilled, rows
  <2>2. PlanInv'
    BY <2>1, WrittenUnchanged
    DEF PlanInv, Unmeasured, InMeasurement, BeingMeasured, HasMeasured, Complete, RowsOf,
        IsEnergy
  <2>3. UNCHANGED Promise!vars
    BY <2>1 DEF Promise!vars
  <2>4. QED
    BY <2>2, <2>3 DEF Kept
<1>8. CASE JoinInterfering
  <2>1. Quiet
    BY <1>0, <1>8 DEF JoinInterfering, Interfering, Quiet
  <2>2. QED
    BY <2>1, QuietKept
<1>9. CASE ReturnFromRun
  <2>1. /\ pc[Main] = "join" /\ todo # << >> /\ todo' = Tail(todo) /\ pc'[Main] = "run"
        /\ UNCHANGED <<out, sample>>
    BY <1>0, <1>9 DEF ReturnFromRun, RunOK, rows
  <2>2. PlanOK' /\ (todo' # << >> => Promise!Written' = {})
    BY <2>1, NextRun, <1>0 DEF PlanInv
  <2>3. PlanInv'
    BY <2>1, <2>2 DEF PlanInv, Unmeasured, InMeasurement, BeingMeasured, HasMeasured
  <2>4. Complete
    BY <2>1 DEF PlanInv, HasMeasured
  <2>5. Promise!Return
    BY <1>0, <2>1, <2>4, CurrentRun DEF Promise!Return, Complete
  <2>6. QED
    BY <2>3, <2>5 DEF Kept, Promise!Next
<1>10. CASE Exit
  <2>1. /\ pc[Main] = "run" /\ todo = << >> /\ pc'[Main] = "exit"
        /\ UNCHANGED <<todo, out, sample>>
    BY <1>0, <1>10 DEF Exit, rows
  <2>2. PlanInv'
    BY <2>1, WrittenUnchanged
    DEF PlanInv, Unmeasured, InMeasurement, BeingMeasured, HasMeasured
  <2>3. Promise!End
    BY <2>1 DEF Promise!End
  <2>4. QED
    BY <2>2, <2>3 DEF Kept, Promise!Next
<1>11. QED
  BY <1>1, <1>2, <1>3, <1>4, <1>5, <1>6, <1>7, <1>8, <1>9, <1>10 DEF MainStep

(* A step of the measuring thread that writes no row. *)
Waits(label) ==
  /\ pc[Main] = "join_t" /\ pc'[Main] = "join_t" /\ pc'[Measurer] = label
  /\ UNCHANGED <<todo, rows>>

LEMMA WaitsKept ==
  ASSUME PlanInv, NEW label, Waits(label), InMeasurement', (HasMeasured => Complete)'
  PROVE  Kept
<1>1. UNCHANGED <<todo, out, sample>>
  BY DEF Waits, rows
<1>2. PlanInv'
  BY <1>1, WrittenUnchanged DEF PlanInv, Unmeasured, Waits
<1>3. UNCHANGED Promise!vars
  BY <1>1 DEF Promise!vars, Waits
<1>4. QED
  BY <1>2, <1>3 DEF Kept

LEMMA MeasuringKept ==
  ASSUME NEW ML, NEW IL, HarnessInv(ML, IL), PlanInv, MeasuringStep
  PROVE  Kept
<1> USE Ids DEF At, Goto
<1>0. /\ pc \in [Threads -> Labels \cup (ML \cup IL)] /\ RunOK /\ ProgressType
      /\ pc[Measurer] # "none" /\ pc[Measurer] # "done"
      /\ pc[Main] = "join_t" /\ todo # << >>
  <2>1. pc \in [Threads -> Labels \cup (ML \cup IL)] /\ RunOK /\ ProgressType
    BY DEF HarnessInv, PcType
  <2>2. pc[Measurer] # "none" /\ pc[Measurer] # "done"
    BY DEF MeasuringStep, ArmAlarm, OpenMsr, NoMsr, BeginSample,
       EndSamples, ResetAlarm, BeginOperation, EndMeasurement, ReportLatency, ReportEnergy
  <2>3. QED
    BY <2>1, <2>2 DEF RunOK
<1>a. /\ run.kind \in {"latency", "energy"} /\ sample \in Nat /\ nr_samples \in Int
      /\ Promise!run = run
  BY <1>0, CurrentRun
<1>b. /\ PlanOK /\ Promise!Written = 0 .. sample - 1
      /\ pc[Measurer] = "start" \/ run.kind = "latency" => sample = 0
      /\ run.kind = "latency" => pc[Measurer] # "sample"
      /\ run.kind = "energy" /\ pc[Measurer] \notin {"start", "sample"} => sample < nr_samples
      /\ pc[Measurer] = "sample" => sample <= nr_samples \/ sample = 0
  BY <1>0 DEF PlanInv, InMeasurement, BeingMeasured
<1>1. CASE ArmAlarm \/ OpenMsr \/ BeginSample \/ ResetAlarm \/ BeginOperation
           \/ EndMeasurement
  <2>1. \E label \in {"armed", "sample", "loop", "op", "report"} :
          /\ Waits(label)
          /\ label # "sample" /\ run.kind = "energy" => sample < nr_samples
          /\ label = "sample" => run.kind = "energy" /\ sample = 0
    BY <1>0, <1>a, <1>b, <1>1
    DEF ArmAlarm, OpenMsr, BeginSample, ResetAlarm, BeginOperation, EndMeasurement,
        Waits
  <2>2. PICK label \in {"armed", "sample", "loop", "op", "report"} :
          /\ Waits(label)
          /\ label # "sample" /\ run.kind = "energy" => sample < nr_samples
          /\ label = "sample" => run.kind = "energy" /\ sample = 0
    BY <2>1
  <2>3. UNCHANGED <<todo, out, sample>>
    BY <2>2 DEF Waits, rows
  <2>4. Promise!Written' = Promise!Written /\ run' = run
    BY <2>3, WrittenUnchanged
  <2>5. InMeasurement'
    BY <1>b, <2>2, <2>3, <2>4 DEF InMeasurement, Waits
  <2>6. (HasMeasured => Complete)'
    BY <2>2 DEF HasMeasured, Waits
  <2>7. QED
    BY <2>2, <2>5, <2>6, WaitsKept
<1>2. CASE NoMsr \/ EndSamples
  <2>1. Waits("done")
    BY <1>0, <1>2 DEF NoMsr, EndSamples, ExitThread, Waits, rows
  <2>2. Complete
    <3>1. CASE NoMsr
      <4>1. run.kind = "energy" /\ sample = 0
        BY <1>b, <3>1 DEF NoMsr
      <4>2. 0 .. sample - 1 = {}
        BY <4>1
      <4>3. QED
        BY <1>b, <4>1, <4>2 DEF Complete, IsEnergy
    <3>2. CASE EndSamples
      <4>1. /\ run.kind = "energy" /\ sample >= nr_samples
            /\ sample <= nr_samples \/ sample = 0
        BY <1>a, <1>b, <3>2 DEF EndSamples
      <4>2. 0 .. sample - 1 = 0 .. nr_samples - 1
        BY <1>a, <4>1
      <4>3. QED
        BY <1>b, <4>1, <4>2 DEF Complete, RowsOf
    <3>3. QED
      BY <1>2, <3>1, <3>2
  <2>3. UNCHANGED <<todo, out>>
    BY <2>1 DEF Waits, rows
  <2>4. Complete'
    BY <2>2, <2>3, WrittenUnchanged DEF Complete, RowsOf, IsEnergy
  <2>5. InMeasurement'
    BY <2>1 DEF InMeasurement, BeingMeasured, Waits
  <2>6. QED
    BY <2>1, <2>4, <2>5, WaitsKept
<1>3. CASE ReportLatency \/ ReportEnergy
  <2>1. /\ todo' = todo /\ out' = Append(out, Row) /\ pc'[Main] = "join_t"
    BY <1>0, <1>3 DEF ReportLatency, ReportEnergy, ExitThread
  <2>2. Promise!Written' = Promise!Written \cup {sample} /\ PlanOK' /\ run' = run
    BY <1>0, <1>b, <2>1, WriteRow
  <2>3. sample \in 0 .. RowsOf(run) - 1
    BY <1>a, <1>b, <1>3 DEF RowsOf, ReportLatency, ReportEnergy
  <2>4. Promise!Written' = 0 .. sample
    BY <1>a, <1>b, <2>2
  <2>5. Promise!Write
    <3>1. out' = Append(out, [run |-> Promise!run, sample |-> sample])
      BY <1>a, <2>1 DEF Row
    <3>2. QED
      BY <1>0, <1>a, <1>b, <2>1, <2>3, <3>1 DEF Promise!Write
  <2>6. InMeasurement' /\ (HasMeasured => Complete)'
    <3>1. CASE ReportLatency
      <4>1. pc'[Measurer] = "done" /\ sample = 0 /\ run.kind = "latency"
        BY <1>0, <1>b, <3>1 DEF ReportLatency, ExitThread
      <4>2. Complete'
        BY <2>2, <2>4, <4>1 DEF Complete, RowsOf
      <4>3. QED
        BY <4>1, <4>2 DEF InMeasurement, BeingMeasured
    <3>2. CASE ReportEnergy
      <4>1. /\ pc'[Measurer] = "sample" /\ sample' = sample + 1 /\ run.kind = "energy"
            /\ sample < nr_samples
        BY <1>0, <1>b, <3>2 DEF ReportEnergy
      <4>2. InMeasurement'
        BY <1>a, <2>1, <2>2, <2>4, <4>1 DEF InMeasurement, BeingMeasured
      <4>3. QED
        BY <2>1, <4>1, <4>2 DEF HasMeasured
    <3>3. QED
      BY <1>3, <3>1, <3>2
  <2>7. Unmeasured'
    BY <2>1 DEF Unmeasured
  <2>8. QED
    BY <2>2, <2>5, <2>6, <2>7 DEF Kept, PlanInv, Promise!Next
<1>4. QED
  BY <1>1, <1>2, <1>3 DEF MeasuringStep

LEMMA InterferingKept ==
  ASSUME NEW ML, NEW IL, HarnessInv(ML, IL), PlanInv, NEW t \in Interferers, InterferingStep(t)
  PROVE  Kept
<1>1. UNCHANGED <<todo, rows>>
  BY DEF InterferingStep, BindInterfering, CheckStop
<1>2. pc \in [Threads -> Labels \cup (ML \cup IL)]
  BY DEF HarnessInv, PcType
<1>3. \E label : pc' = [pc EXCEPT ![t] = label]
  BY DEF InterferingStep, BindInterfering, CheckStop, ExitThread, Goto
<1>4. pc'[Main] = pc[Main] /\ pc'[Measurer] = pc[Measurer]
  BY <1>2, <1>3, Ids
<1>5. QED
  BY <1>1, <1>4, QuietKept DEF Quiet

LEMMA SignalKept ==
  ASSUME NEW ML, NEW IL, HarnessInv(ML, IL), PlanInv, SignalStep
  PROVE  Kept
<1>1. UNCHANGED <<todo, rows>>
  BY DEF SignalStep, UserSigint, TimerExpires, Handler, signal_handler, alarm_signal_handler,
     Deliver
<1>2. CASE UserSigint \/ TimerExpires
  <2>1. UNCHANGED pc
    BY <1>2 DEF UserSigint, TimerExpires
  <2>2. QED
    BY <1>1, <2>1, QuietKept DEF Quiet
<1>3. ASSUME NEW th \in Threads, Handler(th)
      PROVE  Kept
  <2>1. pc' = [pc EXCEPT ![th] = IF @ = "blocked" THEN "eintr" ELSE @]
    BY <1>3 DEF Handler, signal_handler, alarm_signal_handler, Deliver
  <2>2. /\ pc \in [Threads -> Labels \cup (ML \cup IL)] /\ pc[Main] # "blocked"
    BY DEF HarnessInv, PcType, LabelsOK, MainLabels
  <2>3. QED
    BY <1>1, <2>1, <2>2, Ids, QuietKept DEF Quiet
<1>4. QED
  BY <1>2, <1>3 DEF SignalStep

LEMMA OperationsKept ==
  ASSUME NEW ML, NEW IL, OperationLabels(ML, IL), PlanInv, OperationsOnly(ML, IL)
  PROVE  Kept
<1>1. \A l \in ML : l \notin {"none", "start", "sample", "done"}
  BY DEF OperationLabels, Labels
<1>2. UNCHANGED <<todo, rows>> /\ pc'[Main] = pc[Main]
  BY Ids DEF OperationsOnly
<1>3. \A l \in {"none", "start", "sample", "done"} : pc'[Measurer] = l <=> pc[Measurer] = l
  BY <1>1, Ids DEF OperationsOnly
<1>4. QED
  BY <1>2, <1>3, QuietKept DEF Quiet

(* A failed assertion ends the process in the middle of a run. *)
LEMMA AbortKept ==
  ASSUME PlanInv, Abort, UNCHANGED <<todo, rows>>, pc[Main] \notin {"run", "exit", "aborted"}
  PROVE  Kept
<1>1. pc'[Main] = "aborted" /\ pc'[Measurer] = "none"
  BY Ids DEF Abort
<1>2. UNCHANGED <<todo, out, sample>>
  BY DEF rows
<1>3. PlanInv'
  BY <1>1, <1>2, WrittenUnchanged
  DEF PlanInv, Unmeasured, InMeasurement, BeingMeasured, HasMeasured
<1>4. UNCHANGED Promise!vars
  BY <1>1, <1>2 DEF Promise!vars
<1>5. QED
  BY <1>3, <1>4 DEF Kept

(* Every step of every program is one of BenchPlan or none. *)
LEMMA NextKept ==
  ASSUME NEW ML, NEW IL, OperationLabels(ML, IL), HarnessInv(ML, IL), PlanInv,
         HarnessNext(ML, IL)
  PROVE  Kept
<1>1. CASE Abort /\ UNCHANGED <<todo, rows>> /\ pc[Main] \notin {"run", "exit", "aborted"}
  BY <1>1, AbortKept
<1>2. CASE UNCHANGED harnessVars
  BY <1>2, QuietKept DEF harnessVars, Quiet
<1>3. QED
  BY <1>1, <1>2, MainKept, MeasuringKept, InterferingKept, SignalKept, OperationsKept
  DEF HarnessNext

LEMMA InitPlan == HarnessInit => PlanInv /\ Promise!Init
<1> SUFFICES ASSUME HarnessInit PROVE PlanInv /\ Promise!Init
  OBVIOUS
<1>1. todo \in Plans /\ pc[Main] = "run" /\ out = << >>
  BY Ids DEF HarnessInit
<1>2. PlanOK
  BY <1>1, PlansDistinct DEF PlanOK
<1>3. Promise!Written = {}
  BY <1>1 DEF Promise!Written
<1>4. PlanInv
  BY <1>1, <1>2, <1>3
  DEF PlanInv, Unmeasured, InMeasurement, BeingMeasured, HasMeasured
<1>5. QED
  BY <1>1, <1>4 DEF Promise!Init
=============================================================================
