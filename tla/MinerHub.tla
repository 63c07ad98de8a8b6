------------------------------- MODULE MinerHub -------------------------------
(***************************************************************************)
(* Operators register the owner of a node at the EMC Hub through the node's*)
(* gRPC service (miner/miner_service.go), or ask for its status there; the *)
(* service calls the hub (miner/miner_hub_agent.go) once and tells what    *)
(* came of it.  Calls run concurrently; the hub serves one request at a    *)
(* time and may refuse it; its answer may be lost, be empty or unreadable, *)
(* and a request that the service gave up may still reach the hub.         *)
(***************************************************************************)
EXTENDS Naturals, FiniteSets

CONSTANTS
  Callers,     \* gRPC calls; a caller makes one
  Owners,      \* addresses that pass isValidPrincipal
  NoNode       \* the hub knows no owner

ASSUME OwnersAssumption == Owners # {}

VARIABLES
  call,        \* what a caller asked, and where the call stands
  node,        \* the process of the node: "up" or "down"
  hub,         \* the registration that the hub holds
  late,        \* the calls whose registration was given up and may still arrive
  accepted,    \* history: what the hub registered for a call
  alone        \* history: the calls that set the owner, and had the hub for
               \* themselves since they were asked

vars == <<call, node, hub, late, accepted, alone>>

\* The names of the command line, a type that only other clients send, and one
\* that the service does not know.
Names == {"router", "computing", "validator", "other"}
\* What a call is about; a commit that is neither set nor remove is "other".
Ops == {"set", "remove", "other", "query"}
Phases == {"idle", "asked", "keyless", "posted", "served", "told"}
Results == {"none", "nokey", "ok", "refused"}
Messages ==
  {"register ok", "unregister ok", "empty", "status", "fail", "unavailable"}
Registrations == [type : {"router", "validator", "computing"}, owner : Owners]

ASSUME NoNodeAssumption == NoNode \notin Registrations

Waiting == {"asked", "keyless", "posted", "served"}
Sets(c) == call[c].phase \in Waiting /\ call[c].op = "set"

TypeOK ==
  /\ call \in [Callers ->
        [phase : Phases, op : Ops, name : Names, owner : Owners,
         result : Results, message : Messages \cup {"none"}]]
  /\ node \in {"up", "down"}
  /\ hub \in Registrations \cup {NoNode}
  /\ late \subseteq Callers
  /\ accepted \in [Callers -> Registrations \cup {NoNode}]
  /\ alone \subseteq Callers /\ Cardinality(alone) <= 1

\* Only a registration needs an owner.
AnyOwner == CHOOSE owner \in Owners : TRUE

Init ==
  /\ call = [c \in Callers |->
       [phase |-> "idle", op |-> "query", name |-> "other",
        owner |-> AnyOwner, result |-> "none", message |-> "none"]]
  /\ node = "up"
  /\ hub = NoNode /\ late = {}
  /\ accepted = [c \in Callers |-> NoNode]
  /\ alone = {}

-----------------------------------------------------------------------------
\* The number of a node type: getRegisterUpdate, and NodeType.
TypeNumber_Default(name) == IF name = "validator" THEN 1 ELSE 2
TypeNumber(name) ==
  CASE name = "router" -> 0
    [] name = "validator" -> 1
    [] name = "computing" -> 2
    [] OTHER -> 3

\* The entity that Register...Node sends for a type.
EntityType(number) ==
  CASE number = 0 -> "router"
    [] number = 1 -> "validator"
    [] number = 2 -> "computing"

Known(number) == number \in 0 .. 2

Request(c) == [type |-> EntityType(TypeNumber(call[c].name)), owner |-> call[c].owner]

Tell(c, message) ==
  call' = [call EXCEPT ![c].phase = "told", ![c].message = message]

\* No registration is under way or late.
Free == late = {} /\ ~\E c \in Callers : Sets(c)

\* An operator's call; without a node there is nobody to ask.
Ask(c) ==
  /\ call[c].phase = "idle"
  /\ \E op \in Ops, name \in Names, owner \in Owners :
       /\ op = "query" => name = "other"
       /\ op # "set" => owner = AnyOwner
       /\ call' = [call EXCEPT ![c] =
            [@ EXCEPT !.op = op, !.name = name, !.owner = owner,
                      !.phase = IF node = "up" THEN "asked" ELSE "told",
                      !.message = IF node = "up" THEN "none" ELSE "unavailable"]]
       /\ alone' = IF op # "set" THEN alone
                   ELSE IF Free THEN {c} ELSE {}
  /\ UNCHANGED <<node, hub, late, accepted>>

\* What MinerRegiser says when no error replaces it.
Claim_Unset(op) == ""
Claim(op) ==
  CASE op = "set" -> "register ok"
    [] op = "remove" -> "unregister ok"
    [] OTHER -> "empty"

\* The key of the node cannot be read: getPrivateKey returns nil.
KeyFails(c) ==
  /\ call[c].phase = "asked" /\ call[c].op = "set"
  /\ Known(TypeNumber(call[c].name))
  /\ call' = [call EXCEPT ![c].phase = "keyless", ![c].result = "nokey"]
  /\ UNCHANGED <<node, hub, late, accepted, alone>>

\* MinerRegiser ends without a request: a type that it does not know is claimed
\* to be done, a commit that it does not know is answered with no text ...
EndsAtOnce(c) ==
  /\ call[c].phase = "asked" /\ call[c].op # "query"
  /\ call[c].op = "other" \/ ~Known(TypeNumber(call[c].name))
  /\ Tell(c, Claim(call[c].op))
  /\ UNCHANGED <<node, hub, late, accepted, alone>>

\* ... and a removal is not implemented.
UnRegister(c) ==
  /\ call[c].phase = "asked" /\ call[c].op = "remove"
  /\ Known(TypeNumber(call[c].name))
  /\ Tell(c, "fail")
  /\ UNCHANGED <<node, hub, late, accepted, alone>>

\* The request of Register...Node, MyNode or MyCurrentEPower.
Post(c) ==
  /\ call[c].phase = "asked"
  /\ \/ call[c].op = "query"
     \/ call[c].op = "set" /\ Known(TypeNumber(call[c].name))
  /\ call' = [call EXCEPT ![c].phase = "posted"]
  /\ UNCHANGED <<node, hub, late, accepted, alone>>

-----------------------------------------------------------------------------
(* The hub. *)

Accepts(c) ==
  /\ hub' = Request(c)
  /\ accepted' = [accepted EXCEPT ![c] = Request(c)]

HubServes(c) ==
  /\ call[c].phase = "posted"
  /\ \E result \in {"ok", "refused"} :
       /\ call' = [call EXCEPT ![c].phase = "served", ![c].result = result]
       /\ IF result = "ok" /\ call[c].op = "set"
          THEN Accepts(c)
          ELSE UNCHANGED <<hub, accepted>>
  /\ UNCHANGED <<node, late, alone>>

\* What was given up is accepted, refused or lost.
LateArrives(c) ==
  /\ c \in late
  /\ late' = late \ {c}
  /\ Accepts(c) \/ UNCHANGED <<hub, accepted>>
  /\ UNCHANGED <<call, node, alone>>

-----------------------------------------------------------------------------
\* Those of these calls whose registration the hub has not seen yet.
Posted(calls) == {c \in calls : call[c].phase = "posted" /\ call[c].op = "set"}

NoAnswer_Retries(c) ==
  /\ call[c].phase \in {"posted", "served"}
  /\ call' = [call EXCEPT ![c].phase = "asked"]
  /\ UNCHANGED <<node, hub, late, accepted, alone>>

\* No answer, an empty one or one that cannot be read.
NoAnswer(c) ==
  /\ call[c].phase \in {"posted", "served"}
  /\ Tell(c, "fail")
  /\ late' \in {late, late \cup Posted({c})}
  /\ UNCHANGED <<node, hub, accepted, alone>>

\* A panic in a handler: the gRPC server recovers none, the process ends.
Crash ==
  /\ node' = "down"
  /\ call' = [c \in Callers |->
       IF call[c].phase \in Waiting
       THEN [call[c] EXCEPT !.phase = "told", !.message = "unavailable"]
       ELSE call[c]]

\* What a node that ends had posted may still arrive.
LateIfDown ==
  late' = IF node' = "up" THEN late ELSE late \cup Posted(Callers)

\* Register...Node passes the nil key to the library, which reports an error or,
\* as it reads a field of the key, panics.
Keyless(c) ==
  /\ call[c].phase = "keyless"
  /\ \/ Tell(c, "fail") /\ UNCHANGED node
     \/ Crash
  /\ LateIfDown
  /\ UNCHANGED <<hub, accepted, alone>>

\* Register...Node returns the hub's refusal as an error.
RegisterEnds_Unchecked(c) == Tell(c, Claim("set")) /\ UNCHANGED node
RegisterEnds_NilError(c) ==
  IF call[c].result = "ok" THEN Tell(c, Claim("set")) /\ UNCHANGED node ELSE Crash
RegisterEnds(c) ==
  /\ Tell(c, IF call[c].result = "ok" THEN Claim("set") ELSE "fail")
  /\ UNCHANGED node

\* MyNode and MyCurrentEPower take the text of the error that is nil when the
\* hub refuses a query that it answered.
QueryEnds(c) ==
  IF call[c].result = "ok" THEN Tell(c, "status") /\ UNCHANGED node ELSE Crash

Answer(c) ==
  /\ call[c].phase = "served"
  /\ IF call[c].op = "set" THEN RegisterEnds(c) ELSE QueryEnds(c)
  /\ LateIfDown
  /\ UNCHANGED <<hub, accepted, alone>>

Step(c) ==
  \/ KeyFails(c)
  \/ Keyless(c)
  \/ EndsAtOnce(c)
  \/ UnRegister(c)
  \/ Post(c)
  \/ HubServes(c)
  \/ NoAnswer(c)
  \/ Answer(c)

Next == \E c \in Callers : Ask(c) \/ Step(c) \/ LateArrives(c)

\* A handler and its HTTP call, which ends or times out, do not stop for ever.
Spec == Init /\ [][Next]_vars /\ \A c \in Callers : WF_vars(Step(c))

-----------------------------------------------------------------------------
(* Properties. *)

Told(c, message) == call[c].phase = "told" /\ call[c].message = message

\* A call that registers a type that the service knows.
Registers(c) ==
  call[c].phase # "idle" /\ call[c].op = "set" /\ call[c].name # "other"

Named(c) == [type |-> call[c].name, owner |-> call[c].owner]

\* What RegistryService promises operators holds of the service, its agent and
\* the hub together: each registers what he named, at most once, and is told
\* "register ok" only after the hub took it.
Registry == INSTANCE RegistryService WITH
  record <- hub,
  asked <- [c \in Callers |-> IF Registers(c) THEN Named(c) ELSE NoNode],
  taken <- {c \in Callers : accepted[c] # NoNode},
  said <- [c \in Callers |->
             IF ~Registers(c) \/ call[c].phase # "told" THEN "nothing"
             ELSE IF call[c].message = "register ok" THEN "ok" ELSE "error"]

RegistryPromise == Registry!Spec

\* Who is told "register ok" while no other registration was under way, or given
\* up and late, since he asked, finds it at the hub.
LastOkHolds ==
  \A c \in alone : Told(c, "register ok") /\ Registers(c) => hub = Named(c)

\* The node ends only by a query that the hub refused, or by a registration of a
\* known type whose key could not be read: neither by a registration that the hub
\* refused, nor by a missing answer, a removal or a commit nobody knows.
CrashHasCause ==
  node = "down" =>
    \E c \in Callers :
      \/ call[c].op = "query" /\ call[c].result = "refused"
      \/ Registers(c) /\ call[c].result = "nokey"

\* Every caller is told something in the end.
EveryCallEnds == \A c \in Callers : call[c].phase \in Waiting ~> call[c].phase = "told"

\* A refused query is an error for its caller, "Query myNode fail: ...", and no
\* end of the node for all of them.
RefusedQueryFails ==
  \A c \in Callers :
    call[c].op = "query" /\ call[c].result = "refused" => ~Told(c, "unavailable")
=============================================================================
