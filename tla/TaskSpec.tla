------------------------------ MODULE TaskSpec ------------------------------
(***************************************************************************)
(* The task registry of run-iter (autobench/src/task_spec.rs): one row per *)
(* cell (language, focus area, experiment).  An argv is abstracted to the  *)
(* artifact it builds or launches; the environment names, the expected     *)
(* metric keys and the primary key are kept, because run-iter passes them  *)
(* to the cell and looks them up in what the cell prints.                  *)
(***************************************************************************)

Languages == {"rust", "go", "java"}

\* What `cargo build -p`, `go build -o bin/` or `gradlew installDist` makes,
\* and `cargo run -p`, `./bin/` or the installed script launches.
Artifact(language, area, experiment) == <<language, area, experiment>>

Row(language, area, experiment, kind, prefix, env, direction, expected, primary) ==
    [language |-> language, experiment |-> experiment, kind |-> kind,
     build |-> Artifact(language, area, experiment),
     run |-> Artifact(language, area, experiment),
     direction |-> direction,
     warmup_env |-> <<prefix, "WARMUP">>, iters_env |-> <<prefix, "ITERATIONS">>,
     extra_env |-> env, expected |-> expected, primary |-> primary]

NetworkRow(language, experiment) ==
    Row(language, "network-rtt", experiment, "network", "RTT", {}, "minimize",
        {"rtt_p50_ns", "rtt_p99_ns", "rtt_mean_ns"}, "rtt_p50_ns")

LatencyRow(language, experiment) ==
    Row(language, "thread-handoff", experiment, "local", "TH", {}, "minimize",
        {"handoff_rtt_p50_ns", "handoff_rtt_p99_ns", "handoff_rtt_mean_ns"},
        "handoff_rtt_p50_ns")

ThroughputRow(language, experiment) ==
    Row(language, "thread-handoff", experiment, "local", "TH", {"TH_RING_CAP"}, "maximize",
        {"handoff_throughput_ops_per_sec"}, "handoff_throughput_ops_per_sec")

TcpRows == {NetworkRow(l, "tcp") : l \in Languages}
UdpRows == {NetworkRow(l, "udp") : l \in Languages}
QuicRows == {NetworkRow(l, "quic") : l \in Languages}
RustHandoffRows ==
    {LatencyRow("rust", "spin"), ThroughputRow("rust", "ring"), ThroughputRow("rust", "disruptor")}
GoHandoffRows == {LatencyRow("go", "spin"), ThroughputRow("go", "ring")}
JavaHandoffRows == {LatencyRow("java", "spin"), ThroughputRow("java", "ring")}
CondvarRows == {LatencyRow(l, "condvar") : l \in Languages}
ChannelRows == {LatencyRow(l, "channel") : l \in Languages}

TaskRows ==
    TcpRows \cup UdpRows \cup QuicRows \cup RustHandoffRows \cup GoHandoffRows
    \cup JavaHandoffRows \cup CondvarRows \cup ChannelRows
=============================================================================
