--------------------------- MODULE ServerNodeProofs ---------------------------
(***************************************************************************)
(* A full node's handlers find their parts, for any number of calls.  The  *)
(* inductive invariant Built relates the stage that NewServer has reached, *)
(* which listeners serve, and which parts are set: a stage is reached with *)
(* the parts that its handlers need, and no later step takes one away.     *)
(***************************************************************************)
EXTENDS ServerNode, SequenceTheorems, TLAPS

\* Every step but those of the command leaves the command alone, and every step
\* of the command but a served call leaves the node alone.
LEMMA Frames ==
  ASSUME [Next]_vars
  PROVE  /\ UNCHANGED config
         /\ UNCHANGED operator \/ Command
         /\ Command => UNCHANGED node \/ Served
BY DEF Next, vars, node, operator, StageDone, StageFails, Signal, HandleSignal, CloseStep,
       Leave, Serve, Handler, Command, StartCommand, Call, Served, Replied, WriteOutput

\* The result of a call is typed, and is added to one of the two lists.
LEMMA Recorded ==
  ASSUME TypeOK, NEW outcome \in {"ok", "error"}, Record(outcome), NextAsk \in 1..NAddrs
  PROVE  /\ cmd' \in Commands
         /\ cmd'.kind = cmd.kind /\ cmd'.pc = "next" /\ NextAsk' = NextAsk + 1
         /\ cmd'.added = IF outcome = "ok" THEN Append(cmd.added, NextAsk) ELSE cmd.added
         /\ cmd'.errors = IF outcome = "ok" THEN cmd.errors ELSE Append(cmd.errors, NextAsk)
<1> DEFINE a == IF outcome = "ok" THEN Append(cmd.added, NextAsk) ELSE cmd.added
           e == IF outcome = "ok" THEN cmd.errors ELSE Append(cmd.errors, NextAsk)
<1>1. cmd.added \in Seq(1..NAddrs) /\ cmd.errors \in Seq(1..NAddrs)
  BY DEF TypeOK, Commands
<1>0. /\ Len(cmd.added) \in Nat /\ Len(cmd.errors) \in Nat
      /\ NextAsk = Len(cmd.added) + Len(cmd.errors) + 1
  BY <1>1, LenProperties DEF NextAsk
<1>2. a \in Seq(1..NAddrs) /\ e \in Seq(1..NAddrs) /\ Len(a) + Len(e) = NextAsk
  <2>1. /\ Append(cmd.added, NextAsk) \in Seq(1..NAddrs)
        /\ Len(Append(cmd.added, NextAsk)) = Len(cmd.added) + 1
    BY <1>1, AppendProperties
  <2>2. /\ Append(cmd.errors, NextAsk) \in Seq(1..NAddrs)
        /\ Len(Append(cmd.errors, NextAsk)) = Len(cmd.errors) + 1
    BY <1>1, AppendProperties
  <2> HIDE DEF a, e
  <2>3. CASE outcome = "ok"
    <3>1. a = Append(cmd.added, NextAsk) /\ e = cmd.errors
      BY <2>3 DEF a, e
    <3>2. a \in Seq(1..NAddrs) /\ e \in Seq(1..NAddrs)
      BY <1>1, <2>1, <3>1
    <3>3. Len(a) + Len(e) = NextAsk
      <4>1. \A n, m \in Nat : (n + 1) + m = n + m + 1 /\ n + (m + 1) = n + m + 1
        OBVIOUS
      <4> QED BY <1>0, <2>1, <3>1, <4>1, Zenon
    <3> QED BY <3>2, <3>3
  <2>4. CASE outcome # "ok"
    <3>1. a = cmd.added /\ e = Append(cmd.errors, NextAsk)
      BY <2>4 DEF a, e
    <3>2. a \in Seq(1..NAddrs) /\ e \in Seq(1..NAddrs)
      BY <1>1, <2>2, <3>1
    <3>3. Len(a) + Len(e) = NextAsk
      <4>1. \A n, m \in Nat : (n + 1) + m = n + m + 1 /\ n + (m + 1) = n + m + 1
        OBVIOUS
      <4> QED BY <1>0, <2>2, <3>1, <4>1, Zenon
    <3> QED BY <3>2, <3>3
  <2> QED BY <2>3, <2>4
<1>3. cmd' = [cmd EXCEPT !.pc = "next", !.added = a, !.errors = e]
  BY DEF Record, TypeOK, Commands
<1>4. cmd'.kind = cmd.kind /\ cmd'.pc = "next" /\ cmd'.added = a /\ cmd'.errors = e
  BY <1>3 DEF TypeOK, Commands
<1>5. NextAsk' = Len(a) + Len(e) + 1
  BY <1>4 DEF NextAsk
<1> HIDE DEF a, e
<1>6. cmd' \in Commands
  BY <1>2, <1>3 DEF TypeOK, Commands
<1> QED BY <1>2, <1>4, <1>5, <1>6 DEF a, e

\* A command that was started is of a kind, asks within the addresses that it
\* was given, and has asked for all of them when it ends.
Started ==
  /\ cmd.kind = "none" => cmd.pc = "idle"
  /\ cmd.pc = "idle" => cmd = NoCommand
  /\ cmd.pc = "next" => NextAsk <= Asks(cmd.kind) + 1
  /\ Asking => NextAsk <= Asks(cmd.kind)
  /\ cmd.pc = "end" => NextAsk = Asks(cmd.kind) + 1 /\ cmd.code = ExitCode

LEMMA AsksTyped ==
  ASSUME TypeOK, Started, Asking \/ (cmd.pc = "next" /\ NextAsk <= Asks(cmd.kind))
  PROVE  NextAsk \in 1..NAddrs /\ Asks(cmd.kind) \in Nat /\ cmd.kind \in CommandKinds
<1>1. NextAsk \in Nat \ {0} /\ NextAsk <= Asks(cmd.kind) /\ cmd.kind \in CommandKinds
  BY DEF TypeOK, Commands, Started, Asking, NextAsk
<1> QED BY <1>1, AddrsAssumption DEF Asks

\* The stage that NewServer has reached is one of its running mode.
ModeOrder == IF config.mode = "full" THEN FullOrder ELSE EdgeOrder
Placed == main \in StageNames => main \in DOMAIN ModeOrder

\* A stage is followed by another of its mode, or by the wait for a signal.
LEMMA NextStage ==
  ASSUME Placed, main \in StageNames
  PROVE  After(main) \in DOMAIN ModeOrder \cup {"wait"}
<1>1. CASE config.mode = "full"
  BY <1>1 DEF Placed, ModeOrder, After, FullOrder
<1>2. CASE config.mode # "full"
  BY <1>2 DEF Placed, ModeOrder, After, EdgeOrder
<1> QED BY <1>1, <1>2

LEMMA StagesOfMode == DOMAIN ModeOrder \subseteq StageNames
BY DEF ModeOrder, StageNames

\* Every variable has its type, and the command is started properly.
LEMMA Typed == Spec => [](TypeOK /\ Started /\ Placed)
<1>1. Init => TypeOK /\ Started /\ Placed
  <2> SUFFICES ASSUME Init PROVE TypeOK /\ Started /\ Placed
    OBVIOUS
  <2>1. /\ cmd = [kind |-> "none", json |-> FALSE, pc |-> "idle",
                  added |-> <<>>, errors |-> <<>>, code |-> 0]
        /\ cmd = NoCommand
    BY DEF Init, NoCommand
  <2>2. main \in StageNames /\ Placed
    BY DEF Init, StageNames, Placed, ModeOrder, FullOrder, EdgeOrder
  <2>3. TypeOK
    <3>1. cmd \in Commands
      <4> DEFINE c == [kind |-> "none", json |-> FALSE, pc |-> "idle",
                       added |-> <<>>, errors |-> <<>>, code |-> 0]
      <4>1. <<>> \in Seq(1..NAddrs)
        BY EmptySeq
      <4>2. c \in Commands
        BY <4>1 DEF Commands
      <4> QED BY <2>1, <4>2
    <3>2. signal \in BOOLEAN
      BY DEF Init
    <3>3. calls \in 0..MaxCalls
      BY CallsAssumption DEF Init
    <3>4. /\ config \in Configs
          /\ closer \in {"none", "done"} \cup DOMAIN CloseOrder
          /\ result \in Results
      BY DEF Init, Results
    <3>5. /\ up = {} /\ hub = {} /\ closed = {} /\ unclosed = {} /\ missing = {}
          /\ joined = {}
      BY DEF Init
    <3> QED BY <2>2, <3>1, <3>2, <3>3, <3>4, <3>5 DEF TypeOK
  <2> QED BY <2>1, <2>2, <2>3 DEF Started, Asking
<1>2. TypeOK /\ Started /\ Placed /\ [Next]_vars => (TypeOK /\ Started /\ Placed)'
  <2> SUFFICES ASSUME TypeOK, Started, Placed, [Next]_vars
               PROVE  (TypeOK /\ Started /\ Placed)'
    OBVIOUS
  <2> DEFINE NodeTyped ==
        /\ config \in Configs
        /\ main \in StageNames \cup {"wait", "select", "exit"}
        /\ up \subseteq StageNames /\ hub \subseteq StageNames
        /\ closer \in {"none", "done"} \cup DOMAIN CloseOrder
        /\ closed \subseteq DOMAIN CloseOrder /\ unclosed \subseteq DOMAIN CloseOrder
        /\ signal \in BOOLEAN
        /\ result \in Results
        /\ missing \subseteq {"edgeNetwork", "telepool", "relayServer", "syncer"}
        /\ calls \in 0..MaxCalls
      CommandTyped ==
        /\ cmd \in Commands
        /\ joined \subseteq 1..NAddrs
  <2>1. NodeTyped /\ CommandTyped
    BY DEF TypeOK, Commands
  <2>2. ASSUME NEW kind \in Kinds, Handler(kind)
        PROVE  /\ main' \in {main, "exit"} /\ result' \in {result, "crashed", "minerPanic"}
               /\ missing' \subseteq {"edgeNetwork", "telepool", "relayServer", "syncer"}
               /\ UNCHANGED <<config, up, hub, closer, closed, unclosed, signal>>
    <3>1. Nils(kind) \subseteq {"edgeNetwork", "telepool", "relayServer", "syncer"}
      BY <2>2 DEF Nils, Kinds, Grpc, MinerCalls
    <3> QED BY <2>1, <2>2, <3>1 DEF Handler, Exit
  <2>3. NodeTyped'
    <3>1. CASE StageDone
      <4>1. After(main) \in StageNames \cup {"wait"}
        BY <2>1, <3>1, NextStage, StagesOfMode DEF StageDone
      <4>2. up' \subseteq StageNames /\ hub' \subseteq StageNames
        BY <2>1, <3>1 DEF StageDone
      <4> QED BY <2>1, <3>1, <4>1, <4>2 DEF StageDone
    <3>2. CASE StageFails
      BY <2>1, <3>2 DEF StageFails, MayFail, Exit, Results
    <3>3. CASE Signal
      BY <2>1, <3>3 DEF Signal, Exit, Results
    <3>4. CASE HandleSignal
      BY <2>1, <3>4 DEF HandleSignal, CloseOrder
    <3>5. CASE CloseStep
      BY <2>1, <3>5 DEF CloseStep, Closes, CloseOrder
    <3>6. CASE Leave
      BY <2>1, <3>6 DEF Leave, Select, Exit, Results
    <3>7. ASSUME NEW kind \in Kinds, Serve(kind) PROVE NodeTyped'
      BY <2>1, <2>2, <3>7, CallsAssumption DEF Serve, Results
    <3>8. CASE Served
      <4>1. Asking /\ Handler(cmd.kind)
        BY <3>8 DEF Served, Asking
      <4>2. cmd.kind \in CommandKinds
        BY <4>1, AsksTyped
      <4>3. cmd.kind \in Kinds
        BY <4>2 DEF CommandKinds, Kinds, Grpc, MinerCalls
      <4>4. UNCHANGED calls
        BY <3>8 DEF Served
      <4> QED BY <2>1, <2>2, <4>1, <4>3, <4>4 DEF Results
    <3>9. CASE UNCHANGED node
      BY <2>1, <3>9 DEF node
    <3> QED BY <3>1, <3>2, <3>3, <3>4, <3>5, <3>6, <3>7, <3>8, <3>9, Frames
            DEF Next, vars, node
  <2>4. CommandTyped' /\ Started'
    <3>1. CASE UNCHANGED operator
      BY <2>1, <3>1 DEF operator, Started, NextAsk, Asking, ExitCode
    <3>2. ASSUME NEW kind \in CommandKinds, NEW json \in BOOLEAN, StartCommand(kind, json)
          PROVE  CommandTyped' /\ Started'
      <4>1. /\ cmd' = [kind |-> kind, json |-> json, pc |-> "next",
                       added |-> <<>>, errors |-> <<>>, code |-> 0]
            /\ UNCHANGED joined
        BY <3>2 DEF StartCommand, NoCommand
      <4>2. NextAsk' = 1 /\ Asks(cmd'.kind) \in Nat /\ kind # "none"
        BY <4>1, AddrsAssumption DEF NextAsk, Asks, CommandKinds, MinerCalls
      <4> QED BY <2>1, <4>1, <4>2 DEF Started, Asking, Commands
    <3>3. CASE Call
      <4>1. NextAsk \in 1..NAddrs /\ Asks(cmd.kind) \in Nat /\ cmd.kind \in CommandKinds
        BY <3>3, AsksTyped DEF Call
      <4>2. CASE cmd' = [cmd EXCEPT !.pc = "asked"]
        <5>1. NextAsk' = NextAsk /\ cmd'.kind = cmd.kind /\ cmd'.pc = "asked"
          BY <2>1, <4>2 DEF NextAsk, Commands
        <5> QED BY <2>1, <3>3, <4>1, <4>2, <5>1 DEF Call, Started, Asking, CommandKinds, MinerCalls, Commands
      <4>3. CASE Record("error")
        BY <2>1, <3>3, <4>1, <4>3, Recorded DEF Call, Started, Asking, CommandKinds, MinerCalls
      <4> QED BY <3>3, <4>2, <4>3 DEF Call
    <3>4. CASE Served
      <4>1. NextAsk \in 1..NAddrs /\ Asks(cmd.kind) \in Nat /\ cmd.kind \in CommandKinds
        <5>1. Asking
          BY <3>4 DEF Served, Asking
        <5> QED BY <5>1, AsksTyped
      <4>2. PICK pc \in {"ok", "error", "asked"} : cmd' = [cmd EXCEPT !.pc = pc]
        BY <2>1, <3>4 DEF Served, Outcomes
      <4>3. NextAsk' = NextAsk /\ cmd'.kind = cmd.kind /\ cmd'.pc = pc
        BY <2>1, <4>2 DEF NextAsk, Commands
      <4>4. joined' \subseteq 1..NAddrs
        BY <2>1, <3>4, <4>1 DEF Served
      <4> QED BY <2>1, <3>4, <4>1, <4>2, <4>3, <4>4
              DEF Served, Started, Asking, CommandKinds, MinerCalls, Commands
    <3>5. CASE Replied
      <4>1. NextAsk \in 1..NAddrs /\ Asks(cmd.kind) \in Nat /\ cmd.kind \in CommandKinds
        <5>1. Asking
          BY <3>5 DEF Replied, Asking
        <5> QED BY <5>1, AsksTyped
      <4>2. PICK outcome \in {"ok", "error"} : Record(outcome)
        BY <3>5 DEF Replied
      <4> QED BY <2>1, <3>5, <4>1, <4>2, Recorded
              DEF Replied, Started, Asking, CommandKinds, MinerCalls
    <3>6. CASE WriteOutput
      <4>1. /\ cmd' = [cmd EXCEPT !.pc = "end", !.code = ExitCode] /\ UNCHANGED joined
            /\ ExitCode \in {0, 1}
        BY <3>6 DEF WriteOutput, ExitCode
      <4>2. /\ NextAsk' = NextAsk /\ cmd'.kind = cmd.kind /\ cmd'.pc = "end"
            /\ ExitCode' = ExitCode /\ cmd'.code = ExitCode
        BY <2>1, <4>1 DEF NextAsk, ExitCode, Commands
      <4>3. cmd.kind \in CommandKinds /\ NextAsk \in Nat
        BY <2>1, <3>6 DEF WriteOutput, Started, NextAsk, Commands
      <4>4. NextAsk = Asks(cmd.kind) + 1
        BY <3>6, <4>3, AddrsAssumption DEF WriteOutput, Started, Asks
      <4> QED BY <2>1, <4>1, <4>2, <4>3, <4>4 DEF Started, Asking, CommandKinds, MinerCalls, Commands
    <3> QED BY <3>1, <3>2, <3>3, <3>4, <3>5, <3>6, Frames DEF Command
  <2>5. Placed'
    <3>1. CASE StageDone
      BY <3>1, NextStage DEF StageDone, Placed, ModeOrder, StageNames, FullOrder, EdgeOrder
    <3>2. CASE ~StageDone
      <4>1. main' \in {main, "select", "exit"}
        BY <3>2 DEF Next, vars, node, StageFails, Signal, HandleSignal, CloseStep, Leave,
           Select, Exit, Serve, Handler, Command, StartCommand, Call, Served, Replied,
           WriteOutput
      <4> QED BY <4>1, Frames DEF Placed, ModeOrder, StageNames, FullOrder, EdgeOrder
    <3> QED BY <3>1, <3>2
  <2> QED BY <2>3, <2>4, <2>5 DEF TypeOK, Commands
<1> QED BY <1>1, <1>2, PTL DEF Spec

\* Every variable has its type, for any number of calls and addresses.
THEOREM TypeCorrect == Spec => []TypeOK
BY Typed, PTL

-----------------------------------------------------------------------------
\* The stages before any part that a handler uses.
Opening == {"logger", "dataDir", "profiler", "secrets"}

\* The stages of a full node that come after one of its parts is set.
AfterNetwork == {"startNetwork", "endpoint", "syncClient"} \cup
                {"syncer", "telepool", "jsonrpc", "proxy", "relayServer", "grpc",
                 "wait", "select"}
AfterSyncer == {"telepool", "jsonrpc", "proxy", "relayServer", "grpc", "wait", "select"}
AfterPool == {"jsonrpc", "proxy", "relayServer", "grpc", "wait", "select"}

Reached ==
  /\ main \in Opening \cup {"edgeNetwork", "exit"} \cup AfterNetwork
  /\ main \in AfterNetwork => "edgeNetwork" \in up
  /\ main \in AfterSyncer => "syncer" \in up
  /\ main \in AfterPool => "telepool" \in up

Listening ==
  /\ "grpc" \in up => "edgeNetwork" \in up
  /\ "jsonrpc" \in up => "syncer" \in up /\ {"edgeNetwork", "telepool"} \subseteq hub
  /\ "proxy" \in up => "syncer" \in up

Built == config.mode = "full" => Reached /\ Listening /\ HandlersFindParts

\* The stages of a full node, as NewServer orders them.
LEMMA StageOrder ==
  ASSUME config.mode = "full", Reached, main \in StageNames
  PROVE  /\ main \in Opening \cup {"edgeNetwork"} \cup (AfterNetwork \ {"wait", "select"})
         /\ main \in Opening => After(main) \in Opening \cup {"edgeNetwork"}
         /\ main = "edgeNetwork" => After(main) = "startNetwork"
         /\ main = "startNetwork" => After(main) = "endpoint"
         /\ main = "endpoint" => After(main) = "syncClient"
         /\ main = "syncClient" => After(main) = "syncer"
         /\ main = "syncer" => After(main) = "telepool"
         /\ main = "telepool" => After(main) = "jsonrpc"
         /\ main = "jsonrpc" => After(main) = "proxy"
         /\ main = "proxy" => After(main) = "relayServer"
         /\ main = "relayServer" => After(main) = "grpc"
         /\ main = "grpc" => After(main) = "wait"
<1>1. main \notin {"wait", "select", "exit"}
  BY DEF StageNames, FullOrder, EdgeOrder
<1> QED BY <1>1 DEF Reached, Opening, AfterNetwork, After, FullOrder

\* A served call finds its parts, or misses the relay server only.
LEMMA ServeFinds ==
  ASSUME config.mode = "full", Listening, NEW kind \in Kinds, Listener(kind) \in up
  PROVE  /\ Nils(kind) \subseteq {"relayServer"}
         /\ kind \in Grpc => Nils(kind) = {}
<1>1. CASE kind \in Grpc
  BY <1>1 DEF Listening, Listener, Nils, Grpc, MinerCalls
<1>2. CASE kind \in {"edgeCall", "peerCount"}
  BY <1>2 DEF Listening, Listener, Nils, Grpc, MinerCalls
<1>3. CASE kind = "forward"
  BY <1>3 DEF Listening, Listener, Nils, Grpc, MinerCalls
<1> QED BY <1>1, <1>2, <1>3 DEF Kinds

\* Stages, listeners and parts fit together throughout.
LEMMA BuiltHolds == Spec => []Built
<1>1. Init => Built
  BY DEF Init, Built, Reached, Listening, HandlersFindParts, Opening, AfterNetwork,
         AfterSyncer, AfterPool
<1>2. Built /\ TypeOK /\ Started /\ [Next]_vars => Built'
  <2> SUFFICES ASSUME Built, TypeOK, Started, [Next]_vars, config'.mode = "full"
               PROVE  (Reached /\ Listening /\ HandlersFindParts)'
    BY DEF Built
  <2>0. config' = config
    BY DEF Next, vars, StageDone, StageFails, Signal, HandleSignal, CloseStep, Leave,
       Serve, Handler, Command, StartCommand, Call, Served, Replied, WriteOutput, node
  <2>1. config.mode = "full" /\ Reached /\ Listening /\ HandlersFindParts
    BY <2>0 DEF Built
  <2>2. CASE StageDone
    <3>1. /\ main' = After(main) /\ up \subseteq up' /\ main \in StageNames
          /\ hub' = IF main = "jsonrpc" THEN up ELSE hub
          /\ missing' = missing /\ result' = result
      BY <2>2 DEF StageDone
    <3>2. up' \subseteq up \cup {main}
      BY <2>2 DEF StageDone
    <3>3. main \in {"edgeNetwork", "syncer", "telepool"} => main \in up'
      BY <2>2 DEF StageDone, MayLack, Skipped
    <3>4. Reached'
      BY <2>1, <3>1, <3>3, StageOrder DEF Reached, Opening, AfterNetwork, AfterSyncer, AfterPool
    <3>5. Listening'
      BY <2>1, <3>1, <3>2 DEF Reached, Listening, Opening, AfterNetwork, AfterSyncer, AfterPool
    <3> QED BY <2>0, <2>1, <3>1, <3>4, <3>5 DEF HandlersFindParts
  <2>3. CASE StageFails
    BY <2>0, <2>1, <2>3 DEF StageFails, MayFail, Exit, Reached, Listening, HandlersFindParts,
                            Opening, AfterNetwork, AfterSyncer, AfterPool
  <2>4. CASE Signal
    BY <2>0, <2>1, <2>4 DEF Signal, Exit, Reached, Listening, HandlersFindParts,
                            Opening, AfterNetwork, AfterSyncer, AfterPool
  <2>5. CASE HandleSignal
    BY <2>0, <2>1, <2>5 DEF HandleSignal, Reached, Listening, HandlersFindParts,
                            Opening, AfterNetwork, AfterSyncer, AfterPool
  <2>6. CASE CloseStep
    <3>1. UNCHANGED <<main, up, hub, result, missing>>
      BY <2>6 DEF CloseStep, Closes
    <3> QED BY <2>0, <2>1, <3>1 DEF Reached, Listening, HandlersFindParts
  <2>7. CASE Leave
    <3>1. main' = "exit" /\ result' # "crashed" /\ UNCHANGED <<up, hub, missing>>
      BY <2>7 DEF Leave, Select, Exit
    <3> QED BY <2>0, <2>1, <3>1 DEF Reached, Listening, HandlersFindParts,
                                    Opening, AfterNetwork, AfterSyncer, AfterPool
  <2>8. ASSUME NEW kind \in Kinds, Handler(kind)
        PROVE  (Reached /\ Listening /\ HandlersFindParts)'
    <3>1. Nils(kind) \subseteq {"relayServer"} /\ (kind \in Grpc => Nils(kind) = {})
      BY <2>1, <2>8, ServeFinds DEF Handler
    <3>2. /\ up' = up /\ hub' = hub /\ missing' = missing \cup Nils(kind)
          /\ \/ main' = main /\ result' = result
             \/ main' = "exit" /\ result' = "minerPanic"
      <4>1. /\ up' = up /\ hub' = hub /\ missing' = missing \cup Nils(kind)
            /\ \/ kind \in Grpc /\ Nils(kind) # {}
               \/ Exit("minerPanic")
               \/ main' = main /\ result' = result
        BY <2>8 DEF Handler
      <4> QED BY <3>1, <4>1 DEF Exit
    <3>3. Listening' /\ HandlersFindParts'
      BY <2>0, <2>1, <3>1, <3>2 DEF Listening, HandlersFindParts
    <3>4. Reached'
      BY <2>1, <3>2 DEF Reached, AfterNetwork, AfterSyncer, AfterPool
    <3> QED BY <3>3, <3>4
  <2>9. ASSUME NEW kind \in Kinds, Serve(kind)
        PROVE  (Reached /\ Listening /\ HandlersFindParts)'
    BY <2>8, <2>9 DEF Serve
  <2>10. CASE Command
    <3>1. CASE Served
      <4>1. Asking /\ Handler(cmd.kind)
        BY <3>1 DEF Served, Asking
      <4>2. cmd.kind \in CommandKinds
        BY <4>1, AsksTyped
      <4>3. cmd.kind \in Kinds
        BY <4>2 DEF CommandKinds, Kinds, Grpc, MinerCalls
      <4> QED BY <2>8, <4>1, <4>3
    <3>2. CASE ~Served
      <4>1. UNCHANGED node
        BY <2>10, <3>2 DEF Command, StartCommand, Call, Replied, WriteOutput
      <4> QED BY <2>1, <4>1 DEF node, Reached, Listening, HandlersFindParts
    <3> QED BY <3>1, <3>2
  <2>11. CASE UNCHANGED vars
    BY <2>1, <2>11 DEF vars, Reached, Listening, HandlersFindParts
  <2> QED BY <2>2, <2>3, <2>4, <2>5, <2>6, <2>7, <2>9, <2>10, <2>11 DEF Next
<1> QED BY <1>1, <1>2, Typed, PTL DEF Spec

\* Whenever a caller comes, a full node's handlers find every part they use but
\* the relay server, and no caller ends the process for want of a part.
THEOREM PartsFound == Spec => []HandlersFindParts
<1>1. Built => HandlersFindParts
  BY DEF Built, HandlersFindParts
<1> QED BY BuiltHolds, <1>1, PTL

\* A relay that is past its stage has its relay server, which nobody unsets.
Relaying ==
  config.mode = "full" /\ config.relayPort /\ main \in {"grpc", "wait", "select"}
  => "relayServer" \in up

\* Once a full node that is a relay waits for its signal, no handler meets a part
\* that is not there, whoever calls and however far Close has come.
THEOREM ServiceFinds == Spec => ServiceFindsParts
<1>1. Init => Relaying
  BY DEF Init, Relaying
<1>2. Built /\ Relaying /\ [Next]_vars => Relaying'
  <2> SUFFICES ASSUME Built, Relaying, [Next]_vars, config'.mode = "full", config'.relayPort,
                      main' \in {"grpc", "wait", "select"}
               PROVE  "relayServer" \in up'
    BY DEF Relaying
  <2>0. config' = config
    BY Frames
  <2>1. config.mode = "full" /\ config.relayPort /\ Reached
    BY <2>0 DEF Built
  <2>2. CASE StageDone
    <3>1. main' = After(main) /\ up \subseteq up' /\ main \in StageNames
      BY <2>2 DEF StageDone
    <3>2. main \in {"relayServer", "grpc"}
      BY <2>1, <3>1, StageOrder DEF Opening, AfterNetwork
    <3>3. main = "relayServer" => main \in up'
      BY <2>1, <2>2 DEF StageDone, MayLack, Skipped
    <3> QED BY <2>1, <3>1, <3>2, <3>3 DEF Relaying
  <2>3. CASE ~StageDone
    <3>1. up' = up /\ (main' = main \/ (main = "wait" /\ main' = "select") \/ main' = "exit")
      BY <2>3 DEF Next, vars, node, StageFails, Signal, HandleSignal, CloseStep, Closes,
         Leave, Select, Exit, Serve, Handler, Command, StartCommand, Call, Served, Replied,
         WriteOutput
    <3> QED BY <2>1, <3>1 DEF Relaying
  <2> QED BY <2>2, <2>3
<1>3. Built /\ Relaying /\ TypeOK /\ Started /\ [Next]_vars
      => [config.mode = "full" /\ config.relayPort /\ main \notin StageNames
          => missing' = missing]_vars
  <2> SUFFICES ASSUME Built, Relaying, TypeOK, Started, [Next]_vars, config.mode = "full",
                      config.relayPort, main \notin StageNames
               PROVE  missing' = missing
    OBVIOUS
  <2>1. ASSUME NEW kind \in Kinds, Handler(kind) PROVE missing' = missing
    <3>1. "relayServer" \in up
      <4>1. main \in {"wait", "select"}
        BY <2>1 DEF Handler, Running, TypeOK
      <4> QED BY <4>1 DEF Relaying
    <3>2. Nils(kind) \subseteq {"relayServer"}
      BY <2>1, ServeFinds DEF Handler, Built
    <3>3. Nils(kind) = {}
      BY <3>1, <3>2 DEF Nils, Listening
    <3> QED BY <2>1, <3>3 DEF Handler
  <2>2. CASE Served
    <3>1. Asking /\ Handler(cmd.kind)
      BY <2>2 DEF Served, Asking
    <3>2. cmd.kind \in Kinds
      BY <3>1, AsksTyped DEF CommandKinds, Kinds, Grpc, MinerCalls
    <3> QED BY <2>1, <3>1, <3>2
  <2>3. CASE ~Served
    BY <2>1, <2>3, Frames DEF Next, vars, node, StageDone, StageFails, Signal, HandleSignal,
       CloseStep, Leave, Serve
  <2> QED BY <2>2, <2>3
<1> QED BY <1>1, <1>2, <1>3, BuiltHolds, Typed, PTL DEF Spec, ServiceFindsParts

-----------------------------------------------------------------------------
\* Close goes over the parts in order and passes none over: Close of each part
\* that it is past has returned, and it started only after NewServer was done.
Past(part) ==
  CASE part = "syncClient" -> {"edgeNetwork"}
    [] part = "relayClient" -> {"edgeNetwork", "syncClient"}
    [] part = "profiler" -> {"edgeNetwork", "syncClient", "relayClient"}
    [] part = "done" -> {"edgeNetwork", "syncClient", "relayClient", "profiler"}
    [] OTHER -> {}

Closing ==
  /\ up \cap Past(closer) \subseteq closed \cup unclosed
  /\ "profiler" \notin unclosed
  /\ closer # "none" => main \in {"select", "exit"}
  /\ main # "exit" => result # "graceful"
  /\ result = "graceful" => closer = "done"

\* HandleSignals reports a graceful end only when Close of every part that it
\* knows of and NewServer had set has returned, with an error at most, whatever
\* the calls and commands meanwhile.
THEOREM GracefulClose == Spec => []GracefulClosedAll
<1>1. Init => Closing
  BY DEF Init, Closing, Past
<1>2. Closing /\ [Next]_vars => Closing'
  <2> SUFFICES ASSUME Closing, [Next]_vars PROVE Closing'
    OBVIOUS
  <2>1. CASE StageDone
    <3>1. closer = "none" /\ main # "exit"
      BY <2>1 DEF StageDone, Closing, StageNames, FullOrder, EdgeOrder
    <3>2. Past(closer) = {}
      BY <3>1 DEF Past
    <3> QED BY <2>1, <3>1, <3>2 DEF StageDone, Closing
  <2>2. CASE StageFails
    <3>1. closer = "none"
      BY <2>2 DEF StageFails, MayFail, Closing, StageNames, FullOrder, EdgeOrder
    <3> QED BY <2>2, <3>1 DEF StageFails, MayFail, Exit, Closing, Past
  <2>3. CASE Signal
    BY <2>3 DEF Signal, Running, Exit, Closing, StageNames, FullOrder, EdgeOrder
  <2>4. CASE HandleSignal
    BY <2>4 DEF HandleSignal, Closing, Past
  <2>5. CASE CloseStep
    <3>1. /\ closer \in {"edgeNetwork", "syncClient", "relayClient", "profiler"}
          /\ Past(closer') = Past(closer) \cup {closer}
      BY <2>5 DEF CloseStep, CloseOrder, Past
    <3>2. /\ UNCHANGED <<up, main, result>> /\ main # "exit"
          /\ closed \subseteq closed' /\ unclosed \subseteq unclosed'
          /\ {closer} \cap up \subseteq closed' \cup unclosed'
          /\ "profiler" \in unclosed' => "profiler" \in unclosed
      BY <2>5 DEF CloseStep, Closes, Running, MayError
    <3> QED BY <3>1, <3>2 DEF Closing
  <2>6. CASE Leave
    BY <2>6 DEF Leave, Select, Exit, Closing
  <2>7. ASSUME NEW kind, Handler(kind) PROVE Closing'
    BY <2>7 DEF Handler, Running, Exit, Closing
  <2>8. CASE UNCHANGED node
    BY <2>8 DEF node, Closing
  <2> QED BY <2>1, <2>2, <2>3, <2>4, <2>5, <2>6, <2>7, <2>8, Frames
          DEF Next, Serve, Served, vars, node
<1>3. Closing => GracefulClosedAll
  BY DEF Closing, Past, GracefulClosedAll
<1> QED BY <1>1, <1>2, <1>3, PTL DEF Spec

-----------------------------------------------------------------------------
\* What the two lists of a command hold while it runs: every address that was
\* asked for is in one of them, and only such addresses are; those that `peers
\* add` lists as added, and the one it was just answered "ok", were taken.
Listed ==
  /\ \A i \in 1..(NextAsk - 1) : InList(i, cmd.added) <=> ~InList(i, cmd.errors)
  /\ \A k \in DOMAIN cmd.added : cmd.added[k] \in 1..(NextAsk - 1)
  /\ \A k \in DOMAIN cmd.errors : cmd.errors[k] \in 1..(NextAsk - 1)
  /\ cmd.kind = "peersAdd" => \A k \in DOMAIN cmd.added : cmd.added[k] \in joined
  /\ cmd.kind = "peersAdd" /\ cmd.pc = "ok" => NextAsk \in joined

LEMMA AppendedList ==
  ASSUME NEW S, NEW s \in Seq(S), NEW x \in S
  PROVE  /\ \A i : InList(i, Append(s, x)) <=> InList(i, s) \/ i = x
         /\ \A k \in DOMAIN Append(s, x) :
              Append(s, x)[k] = x \/ (k \in DOMAIN s /\ Append(s, x)[k] = s[k])
<1> DEFINE t == Append(s, x)
           n == Len(s)
<1>1. n \in Nat /\ DOMAIN s = 1..n
  BY LenProperties
<1>2. t \in Seq(S) /\ Len(t) = n + 1 /\ (\A k \in 1..n : t[k] = s[k]) /\ t[n + 1] = x
  BY AppendProperties
<1>3. DOMAIN t = 1..(n + 1)
  BY <1>2, LenProperties
<1> HIDE DEF t, n
<1>4. \A k \in 1..(n + 1) : k \in 1..n \/ k = n + 1
  BY <1>1
<1>5. (\A k \in 1..n : k \in 1..(n + 1)) /\ n + 1 \in 1..(n + 1)
  BY <1>1
<1>6. \A k \in DOMAIN t : t[k] = x \/ (k \in DOMAIN s /\ t[k] = s[k])
  BY <1>1, <1>2, <1>3, <1>4, Zenon
<1>7. \A i : InList(i, t) <=> InList(i, s) \/ i = x
  BY <1>1, <1>2, <1>3, <1>4, <1>5, Zenon DEF InList
<1> QED BY <1>6, <1>7 DEF t

\* The address that a recorded call was about goes to one list only: it is in
\* neither before, since both hold earlier addresses.
LEMMA RecordedListed ==
  ASSUME TypeOK, Listed, NEW outcome \in {"ok", "error"}, Record(outcome),
         NextAsk \in 1..NAddrs, UNCHANGED joined,
         cmd.kind = "peersAdd" /\ outcome = "ok" => NextAsk \in joined
  PROVE  Listed'
<1> DEFINE j == NextAsk
           S == 1..NAddrs
<1>1. cmd.added \in Seq(S) /\ cmd.errors \in Seq(S)
  BY DEF TypeOK, Commands
<1>2. /\ cmd'.kind = cmd.kind /\ cmd'.pc = "next" /\ NextAsk' = j + 1
      /\ cmd'.added = IF outcome = "ok" THEN Append(cmd.added, j) ELSE cmd.added
      /\ cmd'.errors = IF outcome = "ok" THEN cmd.errors ELSE Append(cmd.errors, j)
  BY Recorded
<1>5. j \in 1..NAddrs /\ j \in S
  OBVIOUS
<1> HIDE DEF j, S
<1>3. /\ \A i : InList(i, Append(cmd.added, j)) <=> InList(i, cmd.added) \/ i = j
      /\ \A k \in DOMAIN Append(cmd.added, j) :
           \/ Append(cmd.added, j)[k] = j
           \/ k \in DOMAIN cmd.added /\ Append(cmd.added, j)[k] = cmd.added[k]
  BY <1>1, <1>5, AppendedList
<1>4. /\ \A i : InList(i, Append(cmd.errors, j)) <=> InList(i, cmd.errors) \/ i = j
      /\ \A k \in DOMAIN Append(cmd.errors, j) :
           \/ Append(cmd.errors, j)[k] = j
           \/ k \in DOMAIN cmd.errors /\ Append(cmd.errors, j)[k] = cmd.errors[k]
  BY <1>1, <1>5, AppendedList
<1>6. /\ \A i \in 1..(j - 1) : InList(i, cmd.added) <=> ~InList(i, cmd.errors)
      /\ \A k \in DOMAIN cmd.added : cmd.added[k] \in 1..(j - 1)
      /\ \A k \in DOMAIN cmd.errors : cmd.errors[k] \in 1..(j - 1)
      /\ cmd.kind = "peersAdd" => \A k \in DOMAIN cmd.added : cmd.added[k] \in joined
      /\ cmd.kind = "peersAdd" /\ outcome = "ok" => j \in joined
  BY DEF Listed, j
<1>7. /\ j \notin 1..(j - 1) /\ j + 1 - 1 = j /\ j \in 1..j
      /\ \A i \in 1..(j - 1) : i \in 1..j
      /\ \A i \in 1..j : i \in 1..(j - 1) \/ i = j
  BY <1>5, AddrsAssumption
<1>8. ~InList(j, cmd.added) /\ ~InList(j, cmd.errors)
  BY <1>6, <1>7 DEF InList
<1>9. /\ \A i \in 1..j : InList(i, cmd'.added) <=> ~InList(i, cmd'.errors)
      /\ \A k \in DOMAIN cmd'.added : cmd'.added[k] \in 1..j
      /\ \A k \in DOMAIN cmd'.errors : cmd'.errors[k] \in 1..j
      /\ cmd.kind = "peersAdd" => \A k \in DOMAIN cmd'.added : cmd'.added[k] \in joined
  <2>1. CASE outcome = "ok"
    <3>1. cmd'.added = Append(cmd.added, j) /\ cmd'.errors = cmd.errors
      BY <1>2, <2>1
    <3>2. \A i \in 1..j : InList(i, cmd'.added) <=> ~InList(i, cmd'.errors)
      BY <1>3, <1>6, <1>7, <1>8, <3>1
    <3>3. /\ \A k \in DOMAIN cmd'.added : cmd'.added[k] \in 1..j
          /\ \A k \in DOMAIN cmd'.errors : cmd'.errors[k] \in 1..j
      BY <1>3, <1>6, <1>7, <3>1
    <3>4. cmd.kind = "peersAdd" => \A k \in DOMAIN cmd'.added : cmd'.added[k] \in joined
      BY <1>3, <1>6, <2>1, <3>1
    <3> QED BY <3>2, <3>3, <3>4
  <2>2. CASE outcome # "ok"
    <3>1. cmd'.added = cmd.added /\ cmd'.errors = Append(cmd.errors, j)
      BY <1>2, <2>2
    <3>2. \A i \in 1..j : InList(i, cmd'.added) <=> ~InList(i, cmd'.errors)
      BY <1>4, <1>6, <1>7, <1>8, <3>1
    <3>3. /\ \A k \in DOMAIN cmd'.added : cmd'.added[k] \in 1..j
          /\ \A k \in DOMAIN cmd'.errors : cmd'.errors[k] \in 1..j
      BY <1>4, <1>6, <1>7, <3>1
    <3>4. cmd.kind = "peersAdd" => \A k \in DOMAIN cmd'.added : cmd'.added[k] \in joined
      BY <1>4, <1>6, <3>1
    <3> QED BY <3>2, <3>3, <3>4
  <2> QED BY <2>1, <2>2
<1> QED BY <1>2, <1>7, <1>9 DEF Listed

\* What a command reports is what happened, for any number of addresses and
\* wherever the node fails or ends between two of its calls.
THEOREM ReportTrue == Spec => []ReportIsTrue
<1>1. Init => Listed
  <2> SUFFICES ASSUME Init PROVE Listed
    OBVIOUS
  <2>1. /\ cmd.added = <<>> /\ cmd.errors = <<>> /\ cmd.kind = "none" /\ NextAsk = 1
    BY DEF Init, NoCommand, NextAsk
  <2> QED BY <2>1 DEF Listed
<1>2. Listed /\ TypeOK /\ Started /\ [Next]_vars => Listed'
  <2> SUFFICES ASSUME Listed, TypeOK, Started, [Next]_vars PROVE Listed'
    OBVIOUS
  <2>1. CASE UNCHANGED operator
    BY <2>1 DEF operator, Listed, NextAsk
  <2>2. ASSUME NEW kind \in CommandKinds, NEW json \in BOOLEAN, StartCommand(kind, json)
        PROVE  Listed'
    <3>1. cmd'.added = <<>> /\ cmd'.errors = <<>> /\ cmd'.pc = "next" /\ NextAsk' = 1
      BY <2>2 DEF StartCommand, NoCommand, NextAsk
    <3> QED BY <3>1 DEF Listed
  <2>3. CASE Call
    <3>1. NextAsk \in 1..NAddrs
      BY <2>3, AsksTyped DEF Call
    <3>2. CASE cmd' = [cmd EXCEPT !.pc = "asked"]
      <4>1. /\ cmd'.added = cmd.added /\ cmd'.errors = cmd.errors /\ cmd'.kind = cmd.kind
            /\ cmd'.pc = "asked" /\ NextAsk' = NextAsk /\ joined' = joined
        BY <2>3, <3>2 DEF Call, NextAsk, TypeOK, Commands
      <4> QED BY <4>1 DEF Listed
    <3>3. CASE Record("error")
      BY <2>3, <3>1, <3>3, RecordedListed DEF Call
    <3> QED BY <2>3, <3>2, <3>3 DEF Call
  <2>4. CASE Served
    <3>1. PICK pc \in {"ok", "error", "asked"} :
            /\ cmd' = [cmd EXCEPT !.pc = pc]
            /\ joined \subseteq joined'
            /\ cmd.kind = "peersAdd" /\ pc = "ok" => NextAsk \in joined'
      BY <2>4 DEF Served, Outcomes
    <3>2. /\ cmd'.added = cmd.added /\ cmd'.errors = cmd.errors /\ cmd'.kind = cmd.kind
          /\ cmd'.pc = pc /\ NextAsk' = NextAsk
      BY <3>1 DEF NextAsk, TypeOK, Commands
    <3> QED BY <3>1, <3>2 DEF Listed
  <2>5. CASE Replied
    <3>1. Asking /\ UNCHANGED joined
      BY <2>5 DEF Replied, Asking
    <3>2. NextAsk \in 1..NAddrs
      BY <3>1, AsksTyped
    <3>3. CASE cmd.pc \in {"ok", "error"} /\ Record(cmd.pc)
      BY <3>1, <3>2, <3>3, RecordedListed DEF Listed
    <3>4. CASE Record("error")
      BY <3>1, <3>2, <3>4, RecordedListed
    <3> QED BY <2>5, <3>3, <3>4 DEF Replied
  <2>6. CASE WriteOutput
    <3>1. /\ cmd'.added = cmd.added /\ cmd'.errors = cmd.errors /\ cmd'.kind = cmd.kind
          /\ cmd'.pc = "end" /\ NextAsk' = NextAsk /\ joined' = joined
      BY <2>6 DEF WriteOutput, NextAsk, TypeOK, Commands
    <3> QED BY <3>1 DEF Listed
  <2> QED BY <2>1, <2>2, <2>3, <2>4, <2>5, <2>6, Frames DEF Command
<1>3. TypeOK /\ Started /\ Listed => ReportIsTrue
  <2> SUFFICES ASSUME TypeOK, Started, Listed, cmd.pc = "end" PROVE ReportIsTrue
    BY DEF ReportIsTrue
  <2>1. /\ NextAsk = Asks(cmd.kind) + 1 /\ cmd.code = ExitCode
        /\ Asks(cmd.kind) \in Nat
        /\ cmd.added \in Seq(1..NAddrs) /\ cmd.errors \in Seq(1..NAddrs)
    BY AddrsAssumption DEF Started, Asks, TypeOK, Commands
  <2>2. /\ Len(cmd.added) \in Nat /\ Len(cmd.errors) \in Nat
        /\ NextAsk = Len(cmd.added) + Len(cmd.errors) + 1
    BY <2>1, LenProperties DEF NextAsk
  <2>3. Len(cmd.added) + Len(cmd.errors) = Asks(cmd.kind) /\ NextAsk - 1 = Asks(cmd.kind)
    <3>1. \A k, a, n, m \in Nat :
            k = n + m + 1 /\ k = a + 1 => n + m = a /\ k - 1 = a
      OBVIOUS
    <3>2. \A a \in Nat : a + 1 \in Nat
      OBVIOUS
    <3>3. NextAsk \in Nat
      BY <2>1, <3>2, Zenon
    <3> QED BY <2>1, <2>2, <3>1, <3>3, Zenon
  <2>4. cmd.kind \notin Tolerant => (cmd.errors = <<>>) = (cmd.added # <<>>)
    <3> SUFFICES ASSUME cmd.kind \notin Tolerant PROVE (cmd.errors = <<>>) = (cmd.added # <<>>)
      OBVIOUS
    <3>1. Len(cmd.added) + Len(cmd.errors) = 1
      BY <2>3 DEF Asks, Tolerant
    <3>2. /\ (cmd.errors = <<>>) = (Len(cmd.errors) = 0)
          /\ (cmd.added = <<>>) = (Len(cmd.added) = 0)
      BY <2>1, <2>2, EmptySeq
    <3>3. \A n, m \in Nat : n + m = 1 => (m = 0) = (n # 0)
      OBVIOUS
    <3>4. (Len(cmd.errors) = 0) = (Len(cmd.added) # 0)
      BY <2>2, <3>1, <3>3, Zenon
    <3> QED BY <3>2, <3>4
  <2>5. cmd.kind \notin Tolerant /\ ~cmd.json => (cmd.code = 0) = (cmd.added # <<>>)
    BY <2>1, <2>4 DEF ExitCode
  <2> QED BY <2>3, <2>5 DEF ReportIsTrue, Listed
<1> QED BY <1>1, <1>2, <1>3, Typed, PTL DEF Spec


-----------------------------------------------------------------------------
(* What ends a process. *)

EdgeParts ==
  config.mode = "edge" => up \subseteq DOMAIN EdgeOrder /\ missing \subseteq {"edgeNetwork"}

Crashes ==
  result = "crashed" => config.mode = "edge" /\ missing # {}

\* On an edge node only gRPC is served, and what its handlers may miss is the
\* network.
LEMMA EdgeServes ==
  ASSUME EdgeParts, config.mode = "edge", NEW kind \in Kinds, Listener(kind) \in up
  PROVE  Nils(kind) \subseteq {"edgeNetwork"}
<1>1. Listener(kind) \in DOMAIN EdgeOrder
  BY DEF EdgeParts
<1>2. kind \in Grpc
  BY <1>1 DEF Listener, EdgeOrder, Kinds, Grpc, MinerCalls
<1> QED BY <1>2 DEF Nils, Grpc, MinerCalls

LEMMA EdgePartsHold == Spec => []EdgeParts
<1>1. Init => EdgeParts
  BY DEF Init, EdgeParts
<1>2. TypeOK /\ Started /\ Placed /\ EdgeParts /\ [Next]_vars => EdgeParts'
  <2> SUFFICES ASSUME TypeOK, Started, Placed, EdgeParts, [Next]_vars,
                      config.mode = "edge"
               PROVE  up' \subseteq DOMAIN EdgeOrder /\ missing' \subseteq {"edgeNetwork"}
    BY Frames DEF EdgeParts
  <2>1. CASE StageDone
    <3>1. main \in DOMAIN EdgeOrder
      BY <2>1 DEF StageDone, Placed, ModeOrder
    <3>2. up' \subseteq up \cup {main} /\ UNCHANGED missing
      BY <2>1 DEF StageDone
    <3> QED BY <3>1, <3>2 DEF EdgeParts
  <2>2. ASSUME NEW kind \in Kinds, Handler(kind)
        PROVE  up' \subseteq DOMAIN EdgeOrder /\ missing' \subseteq {"edgeNetwork"}
    BY <2>2, EdgeServes DEF Handler, EdgeParts
  <2>3. CASE Served
    <3>1. Asking
      BY <2>3 DEF Served, Asking
    <3>2. cmd.kind \in Kinds
      BY <3>1, AsksTyped DEF CommandKinds, Kinds, Grpc, MinerCalls
    <3> QED BY <2>2, <2>3, <3>2 DEF Served
  <2>4. CASE StageFails \/ Signal \/ HandleSignal \/ CloseStep \/ Leave \/ UNCHANGED node
    BY <2>4 DEF StageFails, Signal, HandleSignal, CloseStep, Closes, Leave, node, EdgeParts
  <2> QED BY <2>1, <2>2, <2>3, <2>4, Frames DEF Next, vars, node, Serve
<1> QED BY <1>1, <1>2, Typed, PTL DEF Spec

\* For want of a part, a caller ends the process of an edge node only, and only by
\* a gRPC call that uses the network without looking: whatever else is called,
\* and whenever, an edge node serves no handler that could miss another part.
\* (The Miner service may end a process without missing one.)
THEOREM CrashIsOfNetwork ==
  Spec => []( /\ result = "crashed" => config.mode = "edge" /\ missing = {"edgeNetwork"}
              /\ config.mode = "edge" => missing \subseteq {"edgeNetwork"} )
<1>1. Init => Crashes
  BY DEF Init, Crashes
<1>2. TypeOK /\ Started /\ Built /\ Crashes /\ [Next]_vars => Crashes'
  <2> SUFFICES ASSUME TypeOK, Started, Built, Crashes, [Next]_vars, result' = "crashed"
               PROVE  config.mode = "edge" /\ missing' # {}
    BY Frames DEF Crashes
  <2>1. ASSUME NEW kind \in Kinds, Handler(kind) PROVE config.mode = "edge" /\ missing' # {}
    <3>1. CASE kind \in Grpc /\ Nils(kind) # {}
      <4>1. config.mode # "full"
        BY <2>1, <3>1, ServeFinds DEF Handler, Built
      <4> QED BY <2>1, <3>1, <4>1, ModesAssumption DEF Handler, TypeOK, Configs
    <3>2. CASE ~(kind \in Grpc /\ Nils(kind) # {})
      BY <2>1, <3>2 DEF Handler, Exit, Crashes
    <3> QED BY <3>1, <3>2
  <2>2. CASE Served
    <3>1. Asking
      BY <2>2 DEF Served, Asking
    <3>2. cmd.kind \in Kinds
      BY <3>1, AsksTyped DEF CommandKinds, Kinds, Grpc, MinerCalls
    <3> QED BY <2>1, <2>2, <3>2 DEF Served
  <2>3. CASE \/ StageDone \/ StageFails \/ Signal \/ HandleSignal \/ CloseStep \/ Leave
             \/ UNCHANGED node
    BY <2>3 DEF StageDone, StageFails, Signal, HandleSignal, CloseStep, Leave, Select, Exit,
                node, Crashes
  <2> QED BY <2>1, <2>2, <2>3, Frames DEF Next, vars, node, Serve
<1>3. EdgeParts /\ Crashes =>
        /\ result = "crashed" => config.mode = "edge" /\ missing = {"edgeNetwork"}
        /\ config.mode = "edge" => missing \subseteq {"edgeNetwork"}
  BY DEF EdgeParts, Crashes
<1> QED BY <1>1, <1>2, <1>3, Typed, BuiltHolds, EdgePartsHold, PTL DEF Spec
=============================================================================
