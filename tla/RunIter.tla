------------------------------ MODULE RunIter ------------------------------
(***************************************************************************)
(* run-iter (autobench/src/bin/run-iter.rs with sampling.rs and            *)
(* verdict.rs): build a cell, run a smoke test, take the samples, run the  *)
(* cell's tests, and print one verdict.  A network cell is run as a server *)
(* child and a client over the loopback; the processes are NetCell's.      *)
(*                                                                         *)
(* The artifact under test is being optimised by somebody else, so it may  *)
(* print any contract lines; run-iter's stages are what stands between it  *)
(* and a pass.  Metric values are small numbers; 0 stands for a value that *)
(* is not positive.                                                        *)
(***************************************************************************)
EXTENDS NetCell, TaskSpec, FiniteSets

CONSTANTS
    MaxSamples,     \* largest --samples
    MaxValue,       \* largest metric value
    SmokeWarmup, SmokeIterations,   \* counts of the smoke run
    BenchWarmup, BenchIterations    \* and of a sample

ASSUME RunIterAssumption ==
    /\ MaxSamples \in Nat \ {0} /\ MaxValue \in Nat \ {0}
    /\ {SmokeWarmup, SmokeIterations, BenchWarmup, BenchIterations} \subseteq Nat \ {0}

UnknownTask == [kind |-> "unknown", experiment |-> "none"]

VARIABLES
    args,       \* json and samples
    spec,       \* the TaskSpec of --task
    pc,
    stage,      \* "build", "correctness", "microbench", "tests"
    held,       \* a process that outlived a killed stage holds its pipes
    series,     \* per metric: the values of the samples taken
    verdict,    \* what was printed, status "none" before
    measured    \* per sample taken: the server it used and its rounds

harnessVars == <<args, spec, pc, stage, held, series, verdict, measured>>
vars == <<cellVars, harnessVars>>

NoVerdict == [status |-> "none", stage |-> "setup", primary |-> -1]

Experiments == {"tcp", "udp", "quic"}

Init ==
    /\ args \in [json : BOOLEAN, samples : 0..MaxSamples]
    /\ spec \in TaskRows \cup {UnknownTask}
    /\ transport = IF spec.experiment \in Experiments THEN spec.experiment ELSE "none"
    /\ pc = "main" /\ stage = "build" /\ held = FALSE
    /\ series = <<>> /\ measured = <<>>
    /\ verdict = NoVerdict
    /\ CellInit

\* emit_and_exit: the one line on stdout, and the process is gone.
Emit(status, st, primary) ==
    /\ verdict' = [status |-> status, stage |-> st, primary |-> primary]
    /\ pc' = "exited"

Goto(label) == pc' = label /\ UNCHANGED verdict

-----------------------------------------------------------------------------
(* main and run_stage.                                                     *)

Main ==
    /\ pc = "main"
    /\ IF spec = UnknownTask THEN Emit("unknown_task", "setup", -1)
       ELSE IF ~args.json THEN Goto("usage")
       ELSE Goto("stage")
    /\ UNCHANGED <<cellVars, args, spec, stage, held, series, measured>>

FailStatus(st) ==
    CASE st = "build" -> "build_failed"
      [] st = "correctness" -> "correctness_failed"
      [] st = "microbench" -> "microbench_failed"
      [] st = "tests" -> "tests_failed"

\* sort: the places of the values of xs, smallest value first.
SortedPlaces(xs) ==
    CHOOSE p \in [DOMAIN xs -> DOMAIN xs] :
        /\ \A i, j \in DOMAIN xs : p[i] = p[j] => i = j
        /\ \A i, j \in DOMAIN xs : i < j => xs[p[i]] <= xs[p[j]]

\* Faulty variant: the upper of the two middle samples.
MedianUpper(xs) == xs[SortedPlaces(xs)[(Len(xs) \div 2) + 1]]

Median(xs) == xs[SortedPlaces(xs)[((Len(xs) - 1) \div 2) + 1]]

\* finalize_metrics: what the verdict holds once the samples are taken.
Primary == IF series = <<>> THEN -1 ELSE Median(series[spec.primary])

\* The build or test command exits in time, or cannot be spawned.
StageExits(ok) ==
    /\ pc = "stage"
    /\ IF ~ok THEN Emit(FailStatus(stage), stage, Primary) /\ UNCHANGED stage
       ELSE IF stage = "build" THEN Goto("sample") /\ stage' = "correctness"
       ELSE Emit("pass", "tests", Primary) /\ UNCHANGED stage
    /\ UNCHANGED <<cellVars, args, spec, held, series, measured>>

\* cargo test runs the test binaries on the pipes it was given itself; cargo
\* build and the other tools read their children's output and pass it on.
SharesPipes == stage = "tests" /\ spec.language = "rust"

\* The budget is spent: the child is killed and reaped, but a test binary it
\* had started may live on with the pipes it inherited.
StageTimesOut ==
    /\ pc = "stage"
    /\ Goto("join")
    /\ held' \in {FALSE, SharesPipes}
    /\ UNCHANGED <<cellVars, args, spec, stage, series, measured>>

\* The reader threads end when nobody holds the pipes any more.
JoinReaders ==
    /\ pc = "join"
    /\ ~held
    /\ Emit("timeout", stage, Primary)
    /\ UNCHANGED <<cellVars, args, spec, stage, held, series, measured>>

OrphanExits ==
    /\ held
    /\ held' = FALSE
    /\ UNCHANGED <<cellVars, args, spec, pc, stage, series, verdict, measured>>

-----------------------------------------------------------------------------
(* One sample of a network cell: run_network_once.                         *)

\* The counts the stage passes to the cell, under the names of its row.
Env ==
    [name \in {spec.warmup_env, spec.iters_env} |->
        IF stage = "correctness"
        THEN IF name = spec.iters_env THEN SmokeIterations ELSE SmokeWarmup
        ELSE IF name = spec.iters_env THEN BenchIterations ELSE BenchWarmup]

FailSample == Emit(FailStatus(stage), stage, -1)

\* Faulty variant: the guard does not kill the server.
KillOnDropNot == UNCHANGED <<srv, port>>

\* The guard goes out of scope: the server is killed and reaped.
KillOnDrop ==
    /\ srv' = "exited"
    /\ port' = IF port = sid THEN Free ELSE port

SpawnServer ==
    /\ pc = "sample"
    /\ spec.kind = "network"
    /\ sid' = sid + 1 /\ srv' = "starting"
    /\ c2s' = <<>> /\ s2c' = <<>> /\ cl' = NoClient
    /\ Goto("wait")
    /\ UNCHANGED <<transport, port, args, spec, stage, held, series, measured>>

SpawnError ==
    /\ pc = "sample"
    /\ FailSample
    /\ UNCHANGED <<cellVars, args, spec, stage, held, series, measured>>

\* TCP: a connect succeeds; UDP: the probe datagram is echoed.
ProbeReady ==
    /\ pc = "wait"
    /\ port > Free
    /\ Goto("client")
    /\ UNCHANGED <<cellVars, args, spec, stage, held, series, measured>>

\* QUIC: the harness binds the port itself while nobody has it.
ProbeBind ==
    /\ pc = "wait"
    /\ transport = "quic"
    /\ port = Free
    /\ port' = Probe
    /\ Goto("probing")
    /\ UNCHANGED <<transport, srv, sid, c2s, s2c, cl, args, spec, stage, held, series, measured>>

ProbeRelease ==
    /\ pc = "probing"
    /\ port' = Free
    /\ Goto("wait")
    /\ UNCHANGED <<transport, srv, sid, c2s, s2c, cl, args, spec, stage, held, series, measured>>

\* Faulty variant: the wait has no deadline.
NotReadyNever == pc = "wait" /\ UNCHANGED vars

\* Ten seconds have passed: read what the server logged, to its end.
NotReady ==
    /\ pc = "wait"
    /\ Goto("drain")
    /\ UNCHANGED <<cellVars, args, spec, stage, held, series, measured>>

\* The end of the server's stderr comes when the server has exited.
DrainStderr ==
    /\ pc = "drain"
    /\ srv = "exited"
    /\ KillOnDrop
    /\ FailSample
    /\ UNCHANGED <<transport, sid, c2s, s2c, cl, args, spec, stage, held, series, measured>>

StartClient ==
    /\ pc = "client"
    /\ cl' = NewClient(Env)
    /\ Goto("output")
    /\ UNCHANGED <<transport, srv, sid, port, c2s, s2c, args, spec, stage, held, series, measured>>

ClientSpawnError ==
    /\ pc = "client"
    /\ KillOnDrop
    /\ FailSample
    /\ UNCHANGED <<transport, sid, c2s, s2c, cl, args, spec, stage, held, series, measured>>

ClientExits ==
    /\ pc = "output"
    /\ cl.pc \in {"ok", "failed"}
    /\ KillOnDrop
    /\ IF cl.pc = "failed" THEN FailSample ELSE Goto("check")
    /\ measured' = IF cl.pc = "ok" /\ stage = "microbench"
                   THEN Append(measured, [server |-> cl.server = sid, rounds |-> Len(cl.samples)])
                   ELSE measured
    /\ UNCHANGED <<transport, sid, c2s, s2c, cl, args, spec, stage, held, series>>

\* One sample of a local cell: run_local_once starts the artifact and waits
\* for it to exit, without a budget.
StartLocal ==
    /\ pc = "sample"
    /\ spec.kind = "local"
    /\ Goto("run")
    /\ UNCHANGED <<cellVars, args, spec, stage, held, series, measured>>

LocalExits(ok) ==
    /\ pc = "run"
    /\ cl.pc # "hung"
    /\ IF ok THEN Goto("check") ELSE FailSample
    /\ measured' = IF ok /\ stage = "microbench"
                   THEN Append(measured, [server |-> TRUE, rounds |-> Env[spec.iters_env]])
                   ELSE measured
    /\ UNCHANGED <<cellVars, args, spec, stage, held, series>>

\* The process run-iter waits for, the client or the local artifact, does not
\* go on, and does not exit.
ArtifactHangs ==
    /\ \/ pc = "output" /\ (ClientRuns \/ cl.pc = "hung")
       \/ pc = "run"
    /\ cl' = [cl EXCEPT !.pc = "hung"]
    /\ UNCHANGED <<transport, srv, sid, port, c2s, s2c, harnessVars>>

-----------------------------------------------------------------------------
(* The contract lines.                                                     *)

Missing == -1       \* no line of that metric
Foreign == -2       \* a line under another focus area or experiment

\* What a run may print: every metric of the cell missing, foreign, not
\* positive or positive; the primary one with any value.
Stdouts ==
    {f \in [spec.expected -> Foreign..MaxValue] :
        \A k \in spec.expected : k # spec.primary => f[k] <= 1}

\* parse_contract_metrics keeps the lines of the task's own cell.
ParseContractMetrics(stdout) ==
    [k \in {k \in DOMAIN stdout : stdout[k] \notin {Missing, Foreign}} |-> stdout[k]]

ExpectedOk(metrics) ==
    \A k \in spec.expected : k \in DOMAIN metrics /\ metrics[k] > 0

\* The code keeps the values of metrics it does not expect as well; nothing
\* compares them.
PushSample(metrics) ==
    [k \in spec.expected |->
        Append(IF series = <<>> THEN <<>> ELSE series[k], metrics[k])]

SampleCount == IF args.samples = 0 THEN 1 ELSE args.samples

Check(stdout) ==
    /\ pc = "check"
    /\ LET metrics == ParseContractMetrics(stdout)
       IN  IF ~ExpectedOk(metrics)
           THEN FailSample /\ UNCHANGED <<stage, series>>
           ELSE IF stage = "correctness"
           THEN Goto("sample") /\ stage' = "microbench" /\ UNCHANGED series
           ELSE /\ series' = PushSample(metrics)
                /\ IF Len(series'[spec.primary]) < SampleCount
                   THEN Goto("sample") /\ UNCHANGED stage
                   ELSE Goto("stage") /\ stage' = "tests"
    /\ UNCHANGED <<cellVars, args, spec, held, measured>>

-----------------------------------------------------------------------------

Harness ==
    \/ Main
    \/ \E ok \in BOOLEAN : StageExits(ok)
    \/ StageTimesOut \/ JoinReaders
    \/ SpawnServer \/ SpawnError
    \/ ProbeReady \/ ProbeBind \/ ProbeRelease \/ NotReady \/ DrainStderr
    \/ StartClient \/ ClientSpawnError \/ ClientExits
    \/ StartLocal \/ \E ok \in BOOLEAN : LocalExits(ok)
    \/ pc = "check" /\ \E stdout \in Stdouts : Check(stdout)

Cell == CellStep /\ UNCHANGED harnessVars

Ended == pc \in {"exited", "usage"} /\ UNCHANGED vars

Next == Harness \/ Cell \/ ArtifactHangs \/ OrphanExits \/ Ended

\* The harness goes on, and its ten seconds pass however often it probes; a
\* bound server echoes, a client that does not hang polls or times out, and a
\* local artifact that does not hang exits.  Nothing makes a server bind or an
\* orphan exit.
Fairness ==
    /\ WF_vars(Harness)
    /\ SF_vars(NotReady)
    /\ WF_vars(Echo /\ UNCHANGED harnessVars)
    /\ WF_vars(ClientStep /\ UNCHANGED harnessVars)

Spec == Init /\ [][Next]_vars /\ Fairness

-----------------------------------------------------------------------------
(* What holds between any two steps of run-iter.                           *)

Labels == {"main", "usage", "stage", "join", "sample", "wait", "probing", "drain",
           "client", "output", "run", "check", "exited"}

\* A sample is being taken; a server child is under the guard.
Sampling == {"sample", "wait", "probing", "drain", "client", "output", "run", "check"}
Guarded == {"wait", "probing", "drain", "client", "output"}

Results == [server : BOOLEAN, rounds : Nat]

TypeOK ==
    /\ CellTypeOK
    /\ args \in [json : BOOLEAN, samples : 0..MaxSamples]
    /\ spec \in TaskRows \cup {UnknownTask}
    /\ pc \in Labels
    /\ stage \in {"build", "correctness", "microbench", "tests"}
    /\ held \in BOOLEAN
    /\ measured \in Seq(Results)

\* Where run-iter is in its four stages.
InStage ==
    /\ pc \notin {"main", "usage", "exited"} => spec \in TaskRows
    /\ pc \in Sampling => stage \in {"correctness", "microbench"}
    /\ pc = "main" => stage = "build"
    /\ pc \in {"stage", "join"} => stage \in {"build", "tests"}
    /\ pc \in Guarded => spec.kind = "network"
    /\ verdict.status = "pass" => pc = "exited"

\* The server child lives only while the guard is there; a client only while
\* run-iter waits for its output, and it was given the counts of its stage.
ChildrenGuarded ==
    /\ port = Probe <=> pc = "probing"
    /\ pc \notin Guarded => port = Free /\ srv \in {"off", "exited"}
    /\ pc \in Guarded => srv # "off"
    /\ pc \in Guarded \ {"output"} => ~ClientRuns /\ c2s = <<>> /\ s2c = <<>>
    /\ pc \in {"client", "output"} => srv \in {"bound", "exited"}
    /\ ClientRuns => pc = "output"
    /\ pc = "output" /\ stage = "microbench" => cl.iterations = BenchIterations

\* A client that gets an echo was connected to the server of its own sample:
\* one that came too late for it gets none.
ClientsServer ==
    cl.pc \in {"send", "recv", "ok"} =>
        \/ cl.server = sid
        \/ cl.pc # "ok" /\ srv = "exited" /\ s2c = <<>>

\* The values of the primary metric taken so far.
Taken == IF series = <<>> THEN <<>> ELSE series[spec.primary]

\* One value per metric and sample, all of them positive, and one result per
\* sample that was measured.
SamplesTaken ==
    /\ \/ series = <<>>
       \/ /\ spec \in TaskRows
          /\ series \in [spec.expected -> Seq(1..MaxValue)]
          /\ \A k \in spec.expected : Len(series[k]) = Len(Taken)
    /\ \A i \in 1..Len(measured) : measured[i].server /\ measured[i].rounds = BenchIterations
    /\ stage \in {"build", "correctness"} => series = <<>> /\ measured = <<>>
    /\ stage = "microbench" => Len(Taken) < SampleCount
    /\ stage = "microbench" /\ pc # "exited" =>
          Len(measured) = IF pc = "check" THEN Len(Taken) + 1 ELSE Len(Taken)
    /\ stage = "tests" => Len(Taken) = SampleCount /\ Len(measured) = Len(Taken)

\* A pass comes out of the last stage with the median of all the samples.
PassIsMedian ==
    verdict.status = "pass" =>
        spec \in TaskRows /\ stage = "tests" /\ verdict.primary = Median(Taken)

\* The inductive invariant.
Inv ==
    /\ TypeOK /\ PortIsServers /\ RoundInFlight /\ SamplesSoFar
    /\ InStage /\ ChildrenGuarded /\ ClientsServer /\ SamplesTaken /\ PassIsMedian

-----------------------------------------------------------------------------
(* Properties.                                                             *)

Emitted == verdict.status # "none"

\* The client or the local artifact that output() waits for does not exit.
Hung == pc \in {"output", "run"} /\ cl.pc = "hung"

\* run-iter waits, without a budget, for a process that it has not killed and
\* that need not end: the readers for an orphan of a killed stage, the drain for
\* a server that is not ready, output() for a client or a local artifact.
Blocked ==
    \/ pc = "join" /\ held
    \/ pc = "drain" /\ srv # "exited"
    \/ Hung

\* Whatever a sample comes to, run_network_once leaves no server behind: when
\* the next step after it runs, and when the verdict is out, the server has
\* been killed and the port is free, so every sample was measured against its
\* own server and with the counts of its stage.
NoServerLeft ==
    /\ pc \in {"sample", "check", "stage", "exited"} => port = Free /\ srv \in {"off", "exited"}
    /\ \A i \in 1..Len(measured) :
          measured[i].server /\ measured[i].rounds = BenchIterations

\* A pass is earned: the sample count was taken, in every sample every
\* expected metric was there and positive, and the primary value is the lower
\* middle one of the samples: fewer than half of them lie below it and at
\* least half do not lie above it.
PassIsEarned ==
    verdict.status = "pass" =>
        LET xs == series[spec.primary]
            n  == Len(xs)
        IN  /\ n = SampleCount /\ Len(measured) = n
            /\ \A k \in spec.expected : \A i \in 1..n : series[k][i] > 0
            /\ 2 * Cardinality({i \in 1..n : xs[i] < verdict.primary}) < n
            /\ 2 * Cardinality({i \in 1..n : xs[i] <= verdict.primary}) >= n

\* run-iter comes to its verdict, or it ends up waiting for one of the four
\* processes in Blocked: lost datagrams, dying servers, failed spawns and
\* binds, missed deadlines and stages over their budgets never keep it from
\* the verdict by themselves.
VerdictOrBlocked == <>[](Emitted \/ Blocked \/ pc = "usage")

\* What run-iter and run_network_once promise: one verdict on stdout, always,
\* and a server child that is always killed; so a server that did not become
\* ready in its ten seconds leads to a verdict.
NotReadyIsReported == pc = "drain" ~> Emitted

\* What the design says of a handoff that does not synchronise any more: the
\* artifact deadlocks, the stage exceeds its timeout, and run-iter reports
\* Timeout.  run_local_once and run_network_once wait in output() instead.
DeadlockIsTimeout == Hung ~> verdict.status = "timeout"
=============================================================================
