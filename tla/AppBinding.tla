------------------------------ MODULE AppBinding ------------------------------
(***************************************************************************)
(* The node's hold on the application beside it (server/server.go,         *)
(* agent/app_agent.go): NewServer binds the application to the node and    *)
(* reads the origin that the node's endpoint publishes; an edge node then  *)
(* does both again at every tick.  The application is a process of its own:*)
(* it stops and starts, forgets who bound it, gets another origin, and     *)
(* another node may bind it.  A call to it can fail before or after the    *)
(* application has served it.                                              *)
(***************************************************************************)
EXTENDS Naturals

CONSTANTS
  Origins,     \* origins that the application may have
  NoOrigin,    \* the empty string
  MaxEvents,   \* bound on what the application and its other users do
  MaxFaults    \* bound on calls that fail though the application is up

ASSUME OriginsAssumption == Origins # {} /\ NoOrigin \notin Origins
ASSUME BoundsAssumption == MaxEvents \in Nat /\ MaxFaults \in Nat

VARIABLES
  mode,        \* "edge" or "full"
  step,        \* what the round does next
  read,        \* the origin of the answer that is on its way back
  published,   \* the endpoint's origin
  app,         \* the application: up, the node that bound it, its origin
  asked,       \* history: the origins the application had since the last two
               \* times it was asked for one
  events, faults

vars == <<mode, step, read, published, app, asked, events, faults>>

Steps == {"bind", "getOrigin", "answered", "setOrigin", "tick", "done"}
Answers == Origins \cup {NoOrigin}

TypeOK ==
  /\ mode \in {"edge", "full"}
  /\ step \in Steps
  /\ read \in Answers /\ published \in Answers
  /\ app \in [up : BOOLEAN, node : {"none", "self", "other"}, origin : Origins]
  /\ asked \in [now : SUBSET Origins, before : SUBSET Origins]
  /\ events \in 0 .. MaxEvents /\ faults \in 0 .. MaxFaults

Init ==
  /\ mode \in {"edge", "full"}
  /\ step = "bind"
  /\ read = NoOrigin /\ published = NoOrigin
  /\ app \in [up : BOOLEAN, node : {"none", "other"}, origin : Origins]
  /\ asked = [now |-> {}, before |-> {}]
  /\ events = 0 /\ faults = 0

-----------------------------------------------------------------------------
(* The node. *)

\* A call fails because the application is down, or for once although it is up.
Fails ==
  \/ ~app.up /\ UNCHANGED faults
  \/ app.up /\ faults < MaxFaults /\ faults' = faults + 1

\* doAppNodeBind: an error is logged, and the origin is asked for all the same.
\* An answer that is lost leaves the application bound.
Bind ==
  /\ step = "bind"
  /\ step' = "getOrigin"
  /\ \/ app.up /\ app' = [app EXCEPT !.node = "self"] /\ UNCHANGED faults
     \/ Fails /\ UNCHANGED app
  /\ UNCHANGED <<mode, read, published, asked, events>>

\* getAppOrigin: the application answers with the origin it has, or the call
\* fails and there is none.
GetOrigin ==
  /\ step = "getOrigin"
  /\ step' = "answered"
  /\ \/ app.up /\ read' = app.origin /\ UNCHANGED faults
     \/ Fails /\ read' = NoOrigin
  /\ asked' = [now |-> IF app.up THEN {app.origin} ELSE {}, before |-> asked.now]
  /\ UNCHANGED <<mode, published, app, events>>

\* The answer comes back, or is lost on its way.
Return ==
  /\ step = "answered"
  /\ step' = "setOrigin"
  /\ \/ UNCHANGED <<read, faults>>
     \/ faults < MaxFaults /\ faults' = faults + 1 /\ read' = NoOrigin
  /\ UNCHANGED <<mode, published, app, asked, events>>

Published_Failure(answer) == IF answer = NoOrigin THEN "error" ELSE answer
Published_KeepOnError(answer) == IF answer = NoOrigin THEN published ELSE answer
Published(answer) == answer

NextRound_Once == "done"
NextRound == IF mode = "edge" THEN "tick" ELSE "done"

\* SetAppOrigin, of the empty string too; a full node is then done.
SetOrigin ==
  /\ step = "setOrigin"
  /\ published' = Published(read)
  /\ step' = NextRound
  /\ UNCHANGED <<mode, read, app, asked, events, faults>>

RoundStart_Origin == "getOrigin"
RoundStart == "bind"

\* DefaultAppBindSyncDuration has passed.
Tick ==
  /\ step = "tick"
  /\ step' = RoundStart
  /\ UNCHANGED <<mode, read, published, app, asked, events, faults>>

Node == Bind \/ GetOrigin \/ Return \/ SetOrigin \/ Tick

-----------------------------------------------------------------------------
(* The application. *)

Event ==
  /\ events < MaxEvents /\ events' = events + 1
  /\ UNCHANGED <<mode, step, read, published, faults>>

Stop == Event /\ app.up /\ app' = [app EXCEPT !.up = FALSE] /\ UNCHANGED asked

\* It comes back with its binding or without it, with the same origin or not.
Start ==
  /\ Event /\ ~app.up
  /\ \E node \in {"none", app.node}, origin \in Origins :
       /\ app' = [up |-> TRUE, node |-> node, origin |-> origin]
       /\ asked' = [asked EXCEPT !.now = @ \cup {origin}]

ChangeOrigin ==
  /\ Event /\ app.up
  /\ \E origin \in Origins \ {app.origin} :
       /\ app' = [app EXCEPT !.origin = origin]
       /\ asked' = [asked EXCEPT !.now = @ \cup {origin}]

OtherNodeBinds ==
  Event /\ app.up /\ app' = [app EXCEPT !.node = "other"] /\ UNCHANGED asked

App == Stop \/ Start \/ ChangeOrigin \/ OtherNodeBinds

Next == Node \/ App

Spec == Init /\ [][Next]_vars /\ WF_vars(Node)

-----------------------------------------------------------------------------
(* Properties. *)

\* The origin that the node publishes is none, or one that the application had
\* since it was asked the time before last: an origin is not published on after
\* the application stopped answering (the empty string is set on an error).
OriginFresh ==
  mode = "edge" => published \in {NoOrigin} \cup asked.now \cup asked.before

\* When the application and its users come to rest, an edge node publishes its
\* origin, and none if it is down, whatever failed before ("do agent binding").
OriginSettles ==
  (mode = "edge")
    ~> [](published = IF app.up THEN app.origin ELSE NoOrigin)

\* And the application that is up is the node's, also when it was restarted
\* without its binding, or another node bound it, at any moment of a round.
BindingSettles == (mode = "edge") ~> [](app.up => app.node = "self")
=============================================================================
