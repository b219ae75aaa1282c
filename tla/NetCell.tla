------------------------------ MODULE NetCell ------------------------------
(***************************************************************************)
(* A network-rtt cell in server and client mode (rust/network-rtt/{tcp,    *)
(* udp,quic} over bench-common's measure loop): an echo responder and a    *)
(* client that plays strict ping-pong, one request outstanding at a time.  *)
(*                                                                         *)
(* Every request has the same bytes, so the client's comparison cannot     *)
(* tell one round's echo from another's; here a unit in flight carries the *)
(* number of its round, which the code does not look at.  A unit is a byte *)
(* of a TCP or QUIC stream (reads and writes may be partial: the units of  *)
(* a payload travel one by one) or a whole datagram of UDP, which may be   *)
(* lost or late.                                                           *)
(*                                                                         *)
(* `port` is who has bound the cell's port: the number of a server         *)
(* process, the harness's bind probe, or nobody.                           *)
(***************************************************************************)
EXTENDS Integers, Sequences

CONSTANTS
    PayloadUnits,   \* units of a payload on a stream transport
    DefaultCount    \* RTT_WARMUP / RTT_ITERATIONS when they are not set

ASSUME CellAssumption == {PayloadUnits, DefaultCount} \subseteq Nat \ {0}

VARIABLES
    transport,  \* "tcp", "udp", "quic"; "none" for a cell without a network
    srv,        \* the current server: "off", "starting", "bound", "exited"
    sid,        \* its number
    port,
    c2s, s2c,   \* units on their way to the server and back
    cl          \* the client process, or the artifact of a local cell

cellVars == <<transport, srv, sid, port, c2s, s2c, cl>>

Free == 0
Probe == -1

Units == IF transport = "udp" THEN 1 ELSE PayloadUnits

NoClient == [pc |-> "off", warmup |-> 0, iterations |-> 0, round |-> 0, off |-> 0,
             filled |-> 0, got |-> {}, samples |-> <<>>, server |-> Free]

CellInit ==
    /\ srv = "off" /\ sid = 0 /\ port = Free
    /\ c2s = <<>> /\ s2c = <<>>
    /\ cl = NoClient

\* Config::from_env of a cell: a count from the environment, or its default.
Count(env, name) == IF name \in DOMAIN env THEN env[name] ELSE DefaultCount

NewClient(env) ==
    [NoClient EXCEPT !.pc = "connect", !.round = 1,
                     !.warmup = Count(env, <<"RTT", "WARMUP">>),
                     !.iterations = Count(env, <<"RTT", "ITERATIONS">>)]

-----------------------------------------------------------------------------
(* The server.                                                             *)

\* bind fails when somebody holds the port, and the process ends.
ServerBind ==
    /\ srv = "starting"
    /\ IF port = Free
       THEN srv' = "bound" /\ port' = sid
       ELSE srv' = "exited" /\ UNCHANGED port
    /\ UNCHANGED <<transport, sid, c2s, s2c, cl>>

\* A configuration or build error before the bind, a fatal error after it.
ServerDies ==
    /\ srv \in {"starting", "bound"}
    /\ srv' = "exited"
    /\ port' = IF port = sid THEN Free ELSE port
    /\ UNCHANGED <<transport, sid, c2s, s2c, cl>>

\* serve_conn, serve_socket, echo_stream: what is read is written back.
Echo ==
    /\ port > Free
    /\ c2s # <<>>
    /\ s2c' = Append(s2c, Head(c2s))
    /\ c2s' = Tail(c2s)
    /\ UNCHANGED <<transport, srv, sid, port, cl>>

\* UDP only: a datagram is dropped.
Lose ==
    /\ transport = "udp"
    /\ \/ c2s # <<>> /\ c2s' = Tail(c2s) /\ UNCHANGED s2c
       \/ s2c # <<>> /\ s2c' = Tail(s2c) /\ UNCHANGED c2s
    /\ UNCHANGED <<transport, srv, sid, port, cl>>

-----------------------------------------------------------------------------
(* The client.                                                             *)

Connected == port = cl.server

\* TCP and QUIC need a server; connecting a UDP socket needs none.
ClientConnect ==
    /\ cl.pc = "connect"
    /\ cl' = [cl EXCEPT !.server = port,
                        !.pc = IF transport # "udp" /\ port = Free THEN "failed" ELSE "send"]
    /\ UNCHANGED <<transport, srv, sid, port, c2s, s2c>>

ClientSend ==
    /\ cl.pc = "send"
    /\ transport = "udp" \/ Connected
    /\ c2s' = Append(c2s, cl.round)
    /\ cl' = [cl EXCEPT !.off = @ + 1, !.pc = IF cl.off + 1 = Units THEN "recv" ELSE "send"]
    /\ UNCHANGED <<transport, srv, sid, port, s2c>>

EchoComplete == cl.filled + 1 = Units

\* The measure loop: a warm-up round is discarded, a measured one leaves a
\* sample; here the sample is the set of rounds whose units ended it.
NextRound(got) ==
    LET timed == cl.round > cl.warmup
        last  == cl.round = cl.warmup + cl.iterations
    IN  [cl EXCEPT !.samples = IF timed THEN Append(@, got) ELSE @,
                   !.pc = IF last THEN "ok" ELSE "send",
                   !.round = IF last THEN @ ELSE @ + 1,
                   !.off = 0, !.filled = 0, !.got = {}]

ClientRecv ==
    /\ cl.pc = "recv"
    /\ s2c # <<>>
    /\ s2c' = Tail(s2c)
    /\ LET got == cl.got \cup {Head(s2c)}
       IN  cl' = IF EchoComplete THEN NextRound(got)
                 ELSE [cl EXCEPT !.filled = @ + 1, !.got = got]
    /\ UNCHANGED <<transport, srv, sid, port, c2s>>

\* Faulty variant: a lost datagram is sent again instead of ending the run.
ClientTimeoutResend ==
    /\ cl.pc = "recv"
    /\ transport = "udp"
    /\ s2c = <<>> /\ Len(c2s) < 2
    /\ c2s' = Append(c2s, cl.round)
    /\ UNCHANGED <<transport, srv, sid, port, s2c, cl>>

\* UDP only: the deadline passed with nothing in the socket.
ClientTimeout ==
    /\ cl.pc = "recv"
    /\ transport = "udp"
    /\ s2c = <<>>
    /\ cl' = [cl EXCEPT !.pc = "failed"]
    /\ UNCHANGED <<transport, srv, sid, port, c2s, s2c>>

\* TCP and QUIC only: the server is gone, the next write or read fails.
ConnectionLost ==
    /\ \/ cl.pc = "send"
       \/ cl.pc = "recv" /\ s2c = <<>>
    /\ transport # "udp"
    /\ ~Connected
    /\ cl' = [cl EXCEPT !.pc = "failed"]
    /\ UNCHANGED <<transport, srv, sid, port, c2s, s2c>>

\* Any write or read fails: a connection ends while the server lives on
\* (serve_listener logs it), or send or recv of a UDP socket return an error.
SocketError ==
    /\ cl.pc \in {"send", "recv"}
    /\ cl' = [cl EXCEPT !.pc = "failed"]
    /\ UNCHANGED <<transport, srv, sid, port, c2s, s2c>>

ClientStep == ClientConnect \/ ClientSend \/ ClientRecv \/ ClientTimeout \/ ConnectionLost

CellStep == ServerBind \/ ServerDies \/ Echo \/ Lose \/ ClientStep \/ SocketError

-----------------------------------------------------------------------------
(* What holds of a cell between any two steps.                             *)

Client ==
    [pc : {"off", "connect", "send", "recv", "ok", "failed", "hung"},
     warmup : Nat, iterations : Nat, round : Nat, off : Nat, filled : Nat,
     got : SUBSET Nat, samples : Seq(SUBSET Nat), server : Int]

CellTypeOK ==
    /\ transport \in {"tcp", "udp", "quic", "none"}
    /\ srv \in {"off", "starting", "bound", "exited"}
    /\ sid \in Nat /\ port \in Int
    /\ c2s \in Seq(Nat) /\ s2c \in Seq(Nat)
    /\ cl \in Client

\* Only the current server ever holds the port as a server.
PortIsServers ==
    /\ srv = "bound" <=> port > Free
    /\ port > Free => port = sid
    /\ srv # "off" => sid > Free
    /\ port >= Probe

ClientRuns == cl.pc \in {"connect", "send", "recv"}

\* Units on their way belong to the client's round, and there are no more of
\* them than it still waits for.
RoundInFlight ==
    ClientRuns =>
        /\ \A i \in 1..Len(c2s) : c2s[i] = cl.round
        /\ \A i \in 1..Len(s2c) : s2c[i] = cl.round
        /\ Len(c2s) + Len(s2c) + cl.filled <= cl.off
        /\ cl.pc = "connect" => cl.off = 0
        /\ cl.pc = "recv" => cl.off = Units
        /\ cl.pc # "recv" => cl.off < Units /\ cl.filled = 0

Timed == IF cl.round > cl.warmup THEN cl.round - 1 - cl.warmup ELSE 0

\* One sample for each measured round that has ended, from its own echo.
SamplesSoFar ==
    /\ \A i \in 1..Len(cl.samples) : cl.samples[i] = {cl.warmup + i}
    /\ cl.got \subseteq {cl.round}
    /\ ClientRuns => /\ cl.round \in 1..(cl.warmup + cl.iterations)
                     /\ Len(cl.samples) = Timed
                     /\ cl.iterations > 0
    /\ cl.pc = "ok" => Len(cl.samples) = cl.iterations

\* Every round is ended by the echo of its own request: no unit of an earlier
\* round is ever taken for it, although all requests look alike, because a
\* round is left only with its whole echo in hand and a client that gave up
\* waiting (round_trip) never starts another round.  And there is one sample
\* for each measured round, none for the warm-up.
OwnEcho ==
    /\ \A i \in 1..Len(cl.samples) : cl.samples[i] = {cl.warmup + i}
    /\ cl.got \subseteq {cl.round}
    /\ cl.pc = "ok" => Len(cl.samples) = cl.iterations
=============================================================================
