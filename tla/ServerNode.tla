------------------------------ MODULE ServerNode ------------------------------
(***************************************************************************)
(* The life of a node's process (server/server.go, command/helper): the    *)
(* main goroutine runs NewServer, which sets the parts of the Server one   *)
(* after the other and lets some of them listen at once, then waits for a  *)
(* signal (HandleSignals) and shuts down by Close, in a goroutine that it  *)
(* does not wait for longer than five seconds.  Meanwhile the listeners    *)
(* serve callers: gRPC (system_service.go and the Miner service on the     *)
(* same server), JSON-RPC (telepool) and the transparent proxy, whose      *)
(* handlers use the parts that are set by then.                            *)
(***************************************************************************)
EXTENDS Naturals, Sequences

CONSTANTS
  Modes,        \* running modes: "full", "edge"
  MaxCalls,     \* bound: calls served in the life of the process
  NAddrs        \* addresses that are given to `peers add`

ASSUME ModesAssumption == Modes \subseteq {"full", "edge"}
ASSUME CallsAssumption == MaxCalls \in Nat
ASSUME AddrsAssumption == NAddrs \in Nat \ {0}

VARIABLES
  config,       \* what the operator configured
  main,         \* the main goroutine: the stage of NewServer, or what follows
  up,           \* the parts of the Server that are set
  hub,          \* the parts that the JSON-RPC server was given
  closer,       \* the goroutine that runs Close
  closed,       \* the parts whose Close returned without an error
  unclosed,     \* the parts whose Close returned one, which is at most logged
  signal,       \* a signal waits in the channel
  result,       \* how the process ended
  missing,      \* history: nil parts that a handler used and panicked
  calls,        \* history: the number of calls served
  cmd,          \* the process of an operator's command
  joined        \* the addresses that the network took for dialing

node == <<config, main, up, hub, closer, closed, unclosed, signal, result,
          missing, calls>>
operator == <<cmd, joined>>
vars == <<config, main, up, hub, closer, closed, unclosed, signal, result,
          missing, calls, cmd, joined>>

Configs == [mode: Modes, logFile: BOOLEAN, relayPort: BOOLEAN, relayOn: BOOLEAN,
            noAgent: BOOLEAN]

\* The stages of NewServer: what follows each in a full and in an edge node.
FullOrder_HubFirst ==
  [logger |-> "dataDir", dataDir |-> "profiler", profiler |-> "secrets",
   secrets |-> "edgeNetwork", edgeNetwork |-> "startNetwork",
   startNetwork |-> "endpoint", endpoint |-> "syncClient", syncClient |-> "syncer",
   syncer |-> "jsonrpc", jsonrpc |-> "telepool", telepool |-> "proxy",
   proxy |-> "relayServer", relayServer |-> "grpc", grpc |-> "wait"]
FullOrder ==
  [logger |-> "dataDir", dataDir |-> "profiler", profiler |-> "secrets",
   secrets |-> "edgeNetwork", edgeNetwork |-> "startNetwork",
   startNetwork |-> "endpoint", endpoint |-> "syncClient", syncClient |-> "syncer",
   syncer |-> "telepool", telepool |-> "jsonrpc", jsonrpc |-> "proxy",
   proxy |-> "relayServer", relayServer |-> "grpc", grpc |-> "wait"]
EdgeOrder ==
  [logger |-> "dataDir", dataDir |-> "profiler", profiler |-> "secrets",
   secrets |-> "relayClient", relayClient |-> "reserve", reserve |-> "endpoint",
   endpoint |-> "alive", alive |-> "binder", binder |-> "grpc", grpc |-> "wait"]

NoCommand == [kind |-> "none", json |-> FALSE, pc |-> "idle",
              added |-> <<>>, errors |-> <<>>, code |-> 0]

StageNames == DOMAIN FullOrder \cup DOMAIN EdgeOrder

Init ==
  /\ config \in Configs
  /\ main = "logger"
  /\ up = {} /\ hub = {}
  /\ closer = "none" /\ closed = {} /\ unclosed = {}
  /\ signal = FALSE
  /\ result = "none"
  /\ missing = {} /\ calls = 0
  /\ cmd = NoCommand /\ joined = {}

Running == main # "exit"

Exit(how) == main' = "exit" /\ result' = how

-----------------------------------------------------------------------------
(* NewServer. *)

After(stage) == IF config.mode = "full" THEN FullOrder[stage] ELSE EdgeOrder[stage]

\* Stages that the configuration switches off.
Skipped(stage) ==
  \/ stage = "reserve" /\ ~config.relayOn
  \/ stage = "binder" /\ config.noAgent
  \/ stage = "relayServer" /\ ~config.relayPort

\* Stages that may leave their part unset: those that are switched off, and the
\* profiler, which may be disabled or fail to start, and that is only logged.
MayLack(stage) == Skipped(stage) \/ stage = "profiler"

\* A stage succeeds; what it creates is set and, for the servers, listens.
StageDone ==
  /\ main \in StageNames
  /\ main' = After(main)
  /\ \/ ~Skipped(main) /\ up' = up \cup {main}
     \/ MayLack(main) /\ up' = up
  /\ hub' = IF main = "jsonrpc" THEN up ELSE hub
  /\ UNCHANGED <<config, closer, closed, unclosed, signal, result, missing, calls,
                 operator>>

\* The stages that can return an error: the logger only if it writes to a file.
MayFail(stage) ==
  /\ stage \in StageNames \ {"profiler", "syncClient", "telepool", "binder"}
  /\ stage = "logger" => config.logFile
  /\ ~Skipped(stage)

\* A stage fails: NewServer returns the error and drops the Server with what
\* it has set, and the process ends.
StageFails ==
  /\ MayFail(main)
  /\ Exit("failed")
  /\ UNCHANGED <<config, up, hub, closer, closed, unclosed, signal, missing, calls,
                 operator>>

-----------------------------------------------------------------------------
(* Signals and Close. *)

\* Before HandleSignals registers its channel, a signal kills the process.
Signal ==
  /\ Running
  /\ IF main \in StageNames
     THEN Exit("killed") /\ UNCHANGED signal
     ELSE signal' = TRUE /\ UNCHANGED <<main, result>>
  /\ UNCHANGED <<config, up, hub, closer, closed, unclosed, missing, calls,
                 operator>>

HandleSignal ==
  /\ main = "wait" /\ signal
  /\ signal' = FALSE
  /\ main' = "select" /\ closer' = "edgeNetwork"
  /\ UNCHANGED <<config, up, hub, closed, unclosed, result, missing, calls,
                 operator>>

\* Close, part by part; a part that is not set is passed over.  The telegram
\* pool, the listeners and the relay server are not closed.  An error of the
\* network's Close is logged, one of the clients' is dropped: Close goes on.
CloseOrder_NoClient == [edgeNetwork |-> "relayClient", syncClient |-> "relayClient",
                        relayClient |-> "profiler", profiler |-> "done"]
CloseOrder == [edgeNetwork |-> "syncClient", syncClient |-> "relayClient",
               relayClient |-> "profiler", profiler |-> "done"]

\* Stop of the profiler and of its tracer return nothing.
MayError(part) == part # "profiler"

Closes_Nils(part) == up' = up \ {part}
Closes(part) == UNCHANGED up

CloseStep ==
  /\ Running
  /\ closer \in DOMAIN CloseOrder
  /\ closer' = CloseOrder[closer]
  /\ \/ closer \notin up /\ UNCHANGED <<closed, unclosed, up>>
     \/ /\ closer \in up
        /\ \/ closed' = closed \cup {closer} /\ UNCHANGED unclosed
           \/ MayError(closer) /\ unclosed' = unclosed \cup {closer} /\ UNCHANGED closed
        /\ Closes(closer)
  /\ UNCHANGED <<config, main, hub, signal, result, missing, calls, operator>>

\* The select: another signal, the timeout, or Close has returned.
Select_NoTimeout ==
  \/ /\ closer = "done"
     /\ Exit("graceful") /\ UNCHANGED signal
  \/ /\ signal
     /\ Exit("signal") /\ signal' = FALSE
Select ==
  \/ /\ closer = "done"
     /\ Exit("graceful") /\ UNCHANGED signal
  \/ /\ signal
     /\ Exit("signal") /\ signal' = FALSE
  \/ /\ Exit("timeout") /\ UNCHANGED signal

Leave ==
  /\ main = "select"
  /\ Select
  /\ UNCHANGED <<config, up, hub, closer, closed, unclosed, missing, calls,
                 operator>>

-----------------------------------------------------------------------------
(* The callers. *)

\* The gRPC server carries the System service and the Miner service: a query of
\* this node's registration or power, and a registration.
MinerCalls == {"minerQuery", "minerRegister"}
Grpc == {"status", "peersAdd", "peersStatus", "peersStatusBadId", "peersList", "relay"}
        \cup MinerCalls
Kinds == Grpc \cup {"edgeCall", "peerCount", "forward"}

Listener(kind) ==
  CASE kind \in Grpc -> "grpc"
    [] kind \in {"edgeCall", "peerCount"} -> "jsonrpc"
    [] kind = "forward" -> "proxy"

\* Mutant: the relay calls do not look whether there is a relay client.
Nils_Unchecked(kind) ==
  CASE kind \in {"status", "peersAdd", "peersStatus"} -> {"edgeNetwork"} \ up
    [] kind = "relay" -> {"relayClient"} \ up
    [] kind = "peerCount" -> {"edgeNetwork"} \ hub
    [] kind = "edgeCall" -> ({"telepool"} \ hub) \cup ({"relayServer", "syncer"} \ up)
    [] kind = "forward" -> {"relayServer", "syncer"} \ up
    [] OTHER -> {}

\* The parts that a handler uses without looking whether they are nil.
\* GetStatus, PeersAdd (JoinPeer) and PeersStatus (getPeer) use the network;
\* PeersList and the relay calls look first, PeersStatus refuses an id that it
\* cannot decode before, and the Miner service has an agent of its own.
Nils(kind) ==
  CASE kind \in {"status", "peersAdd", "peersStatus"} -> {"edgeNetwork"} \ up
    [] kind = "peerCount" -> {"edgeNetwork"} \ hub
    [] kind = "edgeCall" -> ({"telepool"} \ hub) \cup ({"relayServer", "syncer"} \ up)
    [] kind = "forward" -> {"relayServer", "syncer"} \ up
    [] OTHER -> {}

\* A handler runs.  A panic in a gRPC handler ends the process: for want of a
\* part, or in the Miner service, when the hub refuses a query or the key of a
\* registration cannot be read (MinerHub).  In an HTTP handler net/http recovers
\* it and the caller's connection is dropped.
Handler(kind) ==
  /\ Running
  /\ Listener(kind) \in up
  /\ missing' = missing \cup Nils(kind)
  /\ \/ kind \in Grpc /\ Nils(kind) # {} /\ Exit("crashed")
     \/ kind \in MinerCalls /\ Exit("minerPanic")
     \/ (kind \notin Grpc \/ Nils(kind) = {}) /\ UNCHANGED <<main, result>>
  /\ UNCHANGED <<config, up, hub, closer, closed, unclosed, signal>>

\* A call of any client but the command below is served.
Serve(kind) ==
  /\ calls < MaxCalls
  /\ Handler(kind)
  /\ calls' = calls + 1
  /\ UNCHANGED operator

-----------------------------------------------------------------------------
(* An operator's command (command/peers, command/relay, command/miner): a
   process of its own, which asks the node once, or once for each address of
   `peers add`. *)

CommandKinds == {"peersAdd", "peersStatus", "peersStatusBadId", "peersList", "relay"}
                \cup MinerCalls

\* The addresses, or the one question, of a command.
Asks(kind) == IF kind = "peersAdd" THEN NAddrs ELSE 1

Commands == [kind : CommandKinds \cup {"none"}, json : BOOLEAN,
             pc : {"idle", "next", "asked", "ok", "error", "end"},
             added : Seq(1..NAddrs), errors : Seq(1..NAddrs), code : {0, 1}]

NextAsk == Len(cmd.added) + Len(cmd.errors) + 1
Asking == cmd.pc \in {"asked", "ok", "error"}

\* --json decides on the formatter of the output.
StartCommand(kind, json) ==
  /\ cmd = NoCommand
  /\ cmd' = [NoCommand EXCEPT !.kind = kind, !.json = json, !.pc = "next"]
  /\ UNCHANGED <<node, joined>>

\* Mutant: a failed address is listed as added too.
Record_NoContinue(outcome) ==
  cmd' = [cmd EXCEPT !.pc = "next",
            !.added = Append(@, NextAsk),
            !.errors = IF outcome = "ok" THEN @ ELSE Append(@, NextAsk)]

\* The result of one call: `peers add` goes on with the next address.
Record(outcome) ==
  cmd' = [cmd EXCEPT !.pc = "next",
            !.added = IF outcome = "ok" THEN Append(@, NextAsk) ELSE @,
            !.errors = IF outcome = "ok" THEN @ ELSE Append(@, NextAsk)]

\* grpc.Dial does not wait for a connection: it is the call that fails when
\* there is none, or none any more.
Call ==
  /\ cmd.pc = "next" /\ NextAsk <= Asks(cmd.kind)
  /\ \/ Running /\ "grpc" \in up /\ cmd' = [cmd EXCEPT !.pc = "asked"]
     \/ Record("error")
  /\ UNCHANGED <<node, joined>>

\* JoinPeer refuses an address, getPeer does not know the peer, or the hub is not
\* reached; the relay calls and a registration return no error.
Outcomes(kind) ==
  CASE kind \in {"relay", "minerRegister"} -> {"ok"}
    [] kind = "peersStatusBadId" -> {"error"}
    [] OTHER -> {"ok", "error"}

Served ==
  /\ cmd.pc = "asked"
  /\ Handler(cmd.kind)
  /\ \E outcome \in Outcomes(cmd.kind) :
       /\ cmd' = [cmd EXCEPT !.pc = IF Running' THEN outcome ELSE @]
       /\ joined' = IF cmd.kind = "peersAdd" /\ Running' /\ outcome = "ok"
                    THEN joined \cup {NextAsk} ELSE joined
  /\ UNCHANGED calls

\* The answer comes back, or the node ends before it does.
Replied ==
  /\ \/ cmd.pc \in {"ok", "error"} /\ Record(cmd.pc)
     \/ Asking /\ ~Running /\ Record("error")
  /\ UNCHANGED <<node, joined>>

\* Commands whose result tells of the calls that failed: `peers add` lists the
\* addresses, `miner register` makes the error its message.
Tolerant == {"peersAdd", "minerRegister"}

\* WriteOutput: an error of the command itself is an exit code of 1, but not
\* in JSON.
ExitCode ==
  IF cmd.kind \notin Tolerant /\ cmd.errors # <<>> /\ ~cmd.json THEN 1 ELSE 0

WriteOutput ==
  /\ cmd.pc = "next" /\ NextAsk > Asks(cmd.kind)
  /\ cmd' = [cmd EXCEPT !.pc = "end", !.code = ExitCode]
  /\ UNCHANGED <<node, joined>>

Command ==
  \/ \E kind \in CommandKinds, json \in BOOLEAN : StartCommand(kind, json)
  \/ Call \/ Served \/ Replied \/ WriteOutput

-----------------------------------------------------------------------------
Next ==
  \/ StageDone \/ StageFails
  \/ Signal \/ HandleSignal \/ CloseStep \/ Leave
  \/ \E kind \in Kinds : Serve(kind)
  \/ Command

Spec == Init /\ [][Next]_vars

\* The main goroutine is scheduled, its calls return and its timer fires.
\* Nothing is asked of Close, which may hang in any part.
MainRuns == WF_vars(StageDone \/ StageFails) /\ WF_vars(HandleSignal) /\ WF_vars(Leave)

NodeSpec == Spec /\ MainRuns

-----------------------------------------------------------------------------
(* Properties. *)

Results == {"none", "failed", "killed", "graceful", "signal", "timeout",
            "crashed", "minerPanic"}

\* Every variable has its type.
TypeOK ==
  /\ config \in Configs
  /\ main \in StageNames \cup {"wait", "select", "exit"}
  /\ up \subseteq StageNames /\ hub \subseteq StageNames
  /\ closer \in {"none", "done"} \cup DOMAIN CloseOrder
  /\ closed \subseteq DOMAIN CloseOrder /\ unclosed \subseteq DOMAIN CloseOrder
  /\ signal \in BOOLEAN
  /\ result \in Results
  /\ missing \subseteq {"edgeNetwork", "telepool", "relayServer", "syncer"}
  /\ calls \in 0..MaxCalls
  /\ cmd \in Commands
  /\ joined \subseteq 1..NAddrs

\* The order of NewServer: whenever a caller comes, during the start, in
\* service or during Close, a full node's handlers find every part they use
\* but the relay server, which NewServer sets after the servers that use it
\* listen.  No call ends the process of a full node for want of a part.  (The
\* Miner service may still end it, in either mode: see MinerHub.)
HandlersFindParts ==
  config.mode = "full" => missing \subseteq {"relayServer"} /\ result # "crashed"

\* Once a full node that is configured as a relay waits for its signal, no
\* handler meets a part that is not there, Close or not: Close takes the parts
\* down but leaves them set.
ServiceFindsParts ==
  [][config.mode = "full" /\ config.relayPort /\ main \notin StageNames
     => missing' = missing]_vars

\* HandleSignals returns nil only after Close of every part it knows of that
\* NewServer had set has returned, be it with an error that is only logged or
\* dropped (server.go:711-723); the profiler is stopped by then.
GracefulClosedAll ==
  result = "graceful" =>
    /\ up \cap {"edgeNetwork", "syncClient", "relayClient"} \subseteq closed \cup unclosed
    /\ up \cap {"profiler"} \subseteq closed

InList(i, list) == \E k \in DOMAIN list : list[k] = i

\* What a command reports is what happened, wherever the node fails or ends
\* between two of its calls: `peers add` lists each address once, and as added
\* only if the network took it for dialing; another command ends with exit code
\* 0 outside of JSON exactly if it was answered, but for `miner register`
\* (command/peers/add/params.go, command/cli_output.go).
ReportIsTrue ==
  cmd.pc = "end" =>
    /\ \A i \in 1..Asks(cmd.kind) : InList(i, cmd.added) <=> ~InList(i, cmd.errors)
    /\ Len(cmd.added) + Len(cmd.errors) = Asks(cmd.kind)
    /\ cmd.kind = "peersAdd" => \A k \in DOMAIN cmd.added : cmd.added[k] \in joined
    /\ cmd.kind \notin Tolerant /\ ~cmd.json => (cmd.code = 0) = (cmd.added # <<>>)

\* A node that is told to stop ends, even if Close hangs in one of its parts
\* (the timeout in HandleSignals).
SignalEndsNode == signal ~> ~Running

\* GetStatus "returns the current system status": no operator's call ends the
\* process of a node that serves it.
StatusServed == result # "crashed"
=============================================================================
