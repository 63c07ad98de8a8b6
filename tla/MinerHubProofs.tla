--------------------------- MODULE MinerHubProofs ---------------------------
(***************************************************************************)
(* What callers of the miner service are told, for any number of callers   *)
(* and of owners: types, the promises of MinerHub that are no liveness, and*)
(* that service, agent and hub together implement RegistryService.         *)
(***************************************************************************)
EXTENDS MinerHub, FiniteSetTheorems, TLAPS

Calls == [phase : Phases, op : Ops, name : Names, owner : Owners,
          result : Results, message : Messages \cup {"none"}]

LEMMA OwnerExists == AnyOwner \in Owners
  BY OwnersAssumption DEF AnyOwner

LEMMA CallTyped ==
  ASSUME TypeOK, NEW c \in Callers
  PROVE  call[c] \in Calls
  BY DEF TypeOK, Calls

\* The service knows the numbers of all names but one.
LEMMA KnownNames ==
  ASSUME NEW name \in Names
  PROVE  Known(TypeNumber(name)) <=> name # "other"
<1>1. TypeNumber("other") = 3
  BY DEF TypeNumber
<1>2. /\ TypeNumber("router") = 0 /\ TypeNumber("validator") = 1
      /\ TypeNumber("computing") = 2
  BY DEF TypeNumber
<1> QED BY <1>1, <1>2 DEF Names, Known

LEMMA RequestTyped ==
  ASSUME TypeOK, NEW c \in Callers, Known(TypeNumber(call[c].name))
  PROVE  Request(c) \in Registrations
  <1>1. call[c].name \in Names /\ call[c].owner \in Owners
    BY CallTyped DEF Calls
  <1> QED BY <1>1 DEF Request, Registrations, EntityType, TypeNumber, Known, Names

\* The entity that is sent for a type that the service knows has its name.
LEMMA RequestNames ==
  ASSUME TypeOK, NEW c \in Callers, call[c].name # "other"
  PROVE  Request(c) = Named(c)
  <1>1. call[c].name \in Names
    BY CallTyped DEF Calls
  <1> QED BY <1>1 DEF Request, Named, EntityType, TypeNumber, Names

LEMMA AloneSmall ==
  ASSUME NEW c
  PROVE  Cardinality({c}) <= 1 /\ Cardinality({}) <= 1
  BY FS_Singleton, FS_EmptySet

-----------------------------------------------------------------------------
\* What a call has been through: only a type that the service knows is posted or
\* lacks a key, the hub has served it before it has the hub's result, and
\* "register ok" is said only of what the hub accepted.
CallOK(c) ==
  /\ call[c].phase \in {"idle", "asked", "posted"}
     => call[c].result = "none" /\ accepted[c] = NoNode
  /\ call[c].phase = "keyless"
     => call[c].op = "set" /\ call[c].result = "nokey" /\ accepted[c] = NoNode
  /\ call[c].phase \in {"keyless", "posted", "served"} /\ call[c].op = "set"
     => Known(TypeNumber(call[c].name))
  /\ call[c].phase \in {"posted", "served"} => call[c].op \in {"set", "query"}
  /\ call[c].phase = "served" => call[c].result \in {"ok", "refused"}
  /\ call[c].phase = "served" /\ call[c].op = "set" /\ call[c].result = "ok"
     => accepted[c] = Request(c)
  /\ Told(c, "register ok") /\ call[c].name # "other" => accepted[c] = Request(c)

\* What may still arrive was given up before the hub took it, and its caller has
\* not been told that it did.
LateOK(c) ==
  /\ Registers(c) /\ call[c].phase = "told" /\ call[c].message # "register ok"
  /\ accepted[c] = NoNode

\* While a call is alone nobody else registers; nothing of it is late unless it
\* failed, so that the hub holds what it was answered.
AloneOK(c) ==
  /\ call[c].phase # "idle" /\ call[c].op = "set"
  /\ \A d \in Callers \ {c} : ~Sets(d)
  /\ call[c].phase \in Waiting \/ Told(c, "register ok") => late = {}
  /\ call[c].phase = "served" /\ call[c].result = "ok" => hub = Request(c)
  /\ Told(c, "register ok") /\ call[c].name # "other" => hub = Request(c)

\* A node that ended answers nobody.
NobodyWaits ==
  node = "down" => \A c \in Callers : call[c].phase \notin Waiting

\* A call that a node may end by.
Ends(c) ==
  \/ call[c].op = "query" /\ call[c].result = "refused"
  \/ Registers(c) /\ call[c].result = "nokey"

MinerInv ==
  /\ TypeOK
  /\ NobodyWaits
  /\ \A c \in Callers : CallOK(c)
  /\ \A c \in late : LateOK(c)
  /\ \A c \in alone : AloneOK(c)
  /\ CrashHasCause

LEMMA CauseEnds == CrashHasCause <=> (node = "down" => \E c \in Callers : Ends(c))
  BY DEF CrashHasCause, Ends

LEMMA EndsKept ==
  ASSUME NEW c, Ends(c), call'[c] = call[c]
  PROVE  Ends(c)'
BY DEF Ends, Registers

LEMMA InitHolds == Init => MinerInv
<1> SUFFICES ASSUME Init PROVE MinerInv
  OBVIOUS
<1>1. TypeOK
  <2>1. alone \subseteq Callers /\ Cardinality(alone) <= 1
    BY AloneSmall DEF Init
  <2>2. call \in [Callers -> Calls]
    BY OwnerExists DEF Init, Calls, Phases, Ops, Names, Results, Messages
  <2> QED BY <2>1, <2>2 DEF Init, TypeOK, Calls
<1>2. \A c \in Callers : CallOK(c)
  BY DEF Init, CallOK, Told
<1>3. alone = {} /\ late = {} /\ CrashHasCause /\ NobodyWaits
  BY DEF Init, CrashHasCause, NobodyWaits
<1> QED BY <1>1, <1>2, <1>3 DEF MinerInv

\* What the hub has not seen yet are calls that register.
LEMMA PostedSets ==
  ASSUME MinerInv, NEW calls \in SUBSET Callers
  PROVE  /\ Posted(calls) \subseteq calls
         /\ \A d \in Posted(calls) :
              Sets(d) /\ call[d].name # "other" /\ accepted[d] = NoNode
<1>1. \A d \in Callers : CallOK(d)
  BY DEF MinerInv
<1>2. ASSUME NEW d \in Posted(calls)
      PROVE  Sets(d) /\ call[d].name # "other" /\ accepted[d] = NoNode
  <2>1. /\ d \in Callers /\ call[d].phase = "posted" /\ call[d].op = "set"
        /\ Known(TypeNumber(call[d].name)) /\ accepted[d] = NoNode
    BY <1>1 DEF Posted, CallOK
  <2>2. call[d].name \in Names
    BY <2>1, CallTyped DEF MinerInv, Calls
  <2> QED BY <2>1, <2>2, KnownNames DEF Sets, Waiting
<1> QED BY <1>2 DEF Posted

\* What waits is not late.
LEMMA LateTold ==
  ASSUME MinerInv, NEW c \in late
  PROVE  c \in Callers /\ call[c].phase \notin Waiting /\ call[c].phase # "idle"
BY DEF MinerInv, TypeOK, LateOK, Waiting

LEMMA LateKept ==
  ASSUME NEW d, LateOK(d), call'[d] = call[d], accepted'[d] = accepted[d]
  PROVE  LateOK(d)'
BY DEF LateOK, Registers

\* What is true of a call stays so while neither it nor its acceptance changes.
LEMMA CallKept ==
  ASSUME NEW d, CallOK(d), call'[d] = call[d], accepted'[d] = accepted[d]
  PROVE  CallOK(d)'
<1>1. (call[d])' = call[d] /\ (accepted[d])' = accepted[d]
  OBVIOUS
<1>2. Request(d)' = Request(d)
  BY <1>1 DEF Request
<1>3. Told(d, "register ok")' = Told(d, "register ok")
  BY <1>1 DEF Told
<1>4. Known(TypeNumber(call[d].name))' = Known(TypeNumber(call[d].name))
  BY <1>1 DEF Known, TypeNumber
<1>5. (call[d].phase \in {"idle", "asked", "posted"}
         => call[d].result = "none" /\ accepted[d] = NoNode)'
  BY <1>1 DEF CallOK
<1>6. (call[d].phase \in {"keyless", "posted", "served"} /\ call[d].op = "set"
         => Known(TypeNumber(call[d].name)))'
  BY <1>1, <1>4 DEF CallOK
<1>7. (call[d].phase = "served" /\ call[d].op = "set" /\ call[d].result = "ok"
         => accepted[d] = Request(d))'
  BY <1>1, <1>2 DEF CallOK
<1>8. (Told(d, "register ok") /\ call[d].name # "other" => accepted[d] = Request(d))'
  BY <1>1, <1>2, <1>3 DEF CallOK
<1>9. (call[d].phase \in {"posted", "served"} => call[d].op \in {"set", "query"})'
  BY <1>1 DEF CallOK
<1>10. (call[d].phase = "served" => call[d].result \in {"ok", "refused"})'
  BY <1>1 DEF CallOK
<1>11. (call[d].phase = "keyless"
          => call[d].op = "set" /\ call[d].result = "nokey" /\ accepted[d] = NoNode)'
  BY <1>1 DEF CallOK
<1> QED BY <1>5, <1>6, <1>7, <1>8, <1>9, <1>10, <1>11 DEF CallOK

LEMMA StutterHolds == MinerInv /\ UNCHANGED vars => MinerInv'
<1> SUFFICES ASSUME MinerInv, UNCHANGED vars PROVE MinerInv'
  OBVIOUS
<1>1. TypeOK' /\ CrashHasCause' /\ NobodyWaits'
  BY DEF MinerInv, TypeOK, CrashHasCause, Registers, NobodyWaits, Waiting, vars
<1>2. ASSUME NEW c \in Callers PROVE CallOK(c)'
  BY CallKept DEF MinerInv, vars
<1>3. ASSUME NEW c \in alone PROVE AloneOK(c)'
  BY DEF MinerInv, AloneOK, Told, Sets, Request, vars
<1>4. ASSUME NEW c \in late PROVE LateOK(c)'
  BY LateKept DEF MinerInv, vars
<1> QED BY <1>1, <1>2, <1>3, <1>4 DEF MinerInv, vars

\* A step of one call that leaves the hub alone.
LEMMA CallStep ==
  ASSUME MinerInv, NEW c \in Callers, NEW new \in Calls,
         call' = [call EXCEPT ![c] = new],
         call[c].phase \in Waiting,
         new.op = call[c].op, new.name = call[c].name,
         new.owner = call[c].owner, new.phase \in {"keyless", "posted", "told"},
         new.result = call[c].result \/ new.phase = "keyless",
         UNCHANGED <<node, hub, accepted, alone>>,
         \/ late' = late
         \/ /\ late' = late \cup {c} /\ c \in Posted({c})
            /\ new.phase = "told" /\ new.message = "fail",
         CallOK(c)',
         c \in alone /\ new.phase = "told" /\ new.message = "register ok"
           /\ new.name # "other" => hub = Request(c)
  PROVE  MinerInv'
<1>1. \A d \in Callers \ {c} : call'[d] = call[d]
  BY DEF MinerInv, TypeOK
<1>2. call'[c] = new
  BY DEF MinerInv, TypeOK
<1>3. TypeOK'
  BY DEF MinerInv, TypeOK, Calls
<1>4. \A d \in Callers : CallOK(d)'
  <2>1. ASSUME NEW d \in Callers, d # c PROVE CallOK(d)'
    <3>1. CallOK(d) /\ call'[d] = call[d] /\ accepted' = accepted
      BY <1>1, <2>1 DEF MinerInv
    <3> QED BY <3>1, CallKept
  <2> QED BY <2>1
<1>5. \A d \in alone : AloneOK(d)'
  <2> SUFFICES ASSUME NEW d \in alone PROVE AloneOK(d)'
    OBVIOUS
  <2>1. d \in Callers /\ AloneOK(d)
    BY DEF MinerInv, TypeOK
  <2>2. \A e \in Callers \ {d} : ~Sets(e)'
    BY <1>1, <1>2, <2>1 DEF AloneOK, Sets, Waiting
  <2>3. CASE d # c
    <3>1. call'[d] = call[d] /\ (call[d])' = call[d]
      BY <1>1, <2>1, <2>3
    <3>2. ~Sets(c) /\ late' = late
      BY <2>1, <2>3, PostedSets DEF AloneOK
    <3> QED BY <2>1, <2>2, <3>1, <3>2 DEF AloneOK, Told, Request
  <2>4. CASE d = c
    <3>1. late = {} /\ call[c].op = "set"
      BY <2>1, <2>4 DEF AloneOK
    <3>2. Request(c)' = Request(c)
      BY <1>2 DEF Request
    <3> QED BY <1>2, <2>2, <2>4, <3>1, <3>2 DEF AloneOK, Told, Waiting
  <2> QED BY <2>3, <2>4
<1>6. CrashHasCause' /\ NobodyWaits'
  BY DEF MinerInv, CrashHasCause, NobodyWaits, TypeOK
<1>7. ASSUME NEW d \in late' PROVE LateOK(d)'
  <2>1. CASE d \in late
    <3>1. d \in Callers /\ d # c /\ LateOK(d)
      BY <2>1, LateTold DEF MinerInv
    <3> QED BY <1>1, <3>1, LateKept
  <2>2. CASE d \notin late
    <3>1. /\ d = c /\ new.phase = "told" /\ new.message = "fail"
          /\ Sets(c) /\ call[c].name # "other" /\ accepted[c] = NoNode
      BY <1>7, <2>2, PostedSets
    <3> QED BY <1>2, <3>1 DEF LateOK, Registers, Sets
  <2> QED BY <2>1, <2>2
<1> QED BY <1>3, <1>4, <1>5, <1>6, <1>7 DEF MinerInv

\* The same for a call that is told something now.
LEMMA TellStep ==
  ASSUME MinerInv, NEW c \in Callers, NEW message \in Messages,
         Tell(c, message), call[c].phase \in Waiting,
         UNCHANGED <<node, hub, accepted, alone>>,
         \/ late' = late
         \/ late' = late \cup {c} /\ c \in Posted({c}) /\ message = "fail",
         message = "register ok" /\ call[c].name # "other" =>
           accepted[c] = Request(c) /\ (c \in alone => hub = Request(c))
  PROVE  MinerInv'
<1> DEFINE new == [call[c] EXCEPT !.phase = "told", !.message = message]
<1>1. call[c] \in Calls
  BY CallTyped DEF MinerInv
<1>2. new \in Calls /\ new.phase = "told" /\ new.message = message
      /\ new.op = call[c].op /\ new.name = call[c].name
      /\ new.owner = call[c].owner /\ new.result = call[c].result
  BY <1>1 DEF Calls, Phases
<1>3. call' = [call EXCEPT ![c] = new]
  BY DEF Tell
<1>4. CallOK(c)'
  <2>1. (call[c])' = new /\ (accepted[c])' = accepted[c]
    BY <1>3 DEF MinerInv, TypeOK
  <2>2. Request(c)' = Request(c)
    BY <1>2, <2>1 DEF Request
  <2> HIDE DEF new
  <2> QED BY <1>2, <2>1, <2>2 DEF CallOK, Told
<1> HIDE DEF new
<1> QED BY <1>2, <1>3, <1>4, CallStep

-----------------------------------------------------------------------------
\* The steps of a handler that end it without an answer of the hub.
LEMMA EndsWithoutAnswer ==
  ASSUME MinerInv, NEW c \in Callers,
         EndsAtOnce(c) \/ UnRegister(c) \/ NoAnswer(c)
  PROVE  MinerInv'
<1>1. call[c].name \in Names
  BY CallTyped DEF MinerInv, TypeOK, Calls
<1>3. CASE EndsAtOnce(c)
  <2>1. call[c].op = "other" \/ call[c].name = "other"
    BY <1>1, <1>3, KnownNames DEF EndsAtOnce
  <2>2. /\ Claim(call[c].op) \in Messages
        /\ Claim(call[c].op) = "register ok" => call[c].name = "other"
    BY <2>1 DEF Claim, Messages
  <2> QED BY <1>3, <2>2, TellStep DEF EndsAtOnce, Waiting
<1>4. CASE UnRegister(c)
  BY <1>1, <1>4, TellStep DEF UnRegister, Waiting, Messages
<1>5. CASE NoAnswer(c)
  <2>1. Posted({c}) = {} \/ Posted({c}) = {c}
    BY DEF Posted
  <2>2. late' = late \/ (late' = late \cup {c} /\ c \in Posted({c}))
    BY <1>5, <2>1 DEF NoAnswer
  <2> QED BY <1>5, <2>2, TellStep DEF NoAnswer, Waiting, Messages
<1> QED BY <1>3, <1>4, <1>5

LEMMA KeyFailsHolds ==
  ASSUME MinerInv, NEW c \in Callers, KeyFails(c)
  PROVE  MinerInv'
<1> DEFINE new == [call[c] EXCEPT !.phase = "keyless", !.result = "nokey"]
<1>1. call[c] \in Calls
  BY CallTyped DEF MinerInv
<1>2. new \in Calls /\ new.phase = "keyless" /\ new.result = "nokey"
      /\ new.op = call[c].op /\ new.name = call[c].name
      /\ new.owner = call[c].owner
  BY <1>1 DEF Calls, Phases, Results
<1>3. call' = [call EXCEPT ![c] = new]
  BY DEF KeyFails
<1>4. (call[c])' = new
  BY <1>3 DEF MinerInv, TypeOK
<1>5. CallOK(c)'
  <2>1. /\ call[c].op = "set" /\ Known(TypeNumber(call[c].name))
        /\ call[c].phase = "asked" /\ accepted' = accepted
    BY DEF KeyFails
  <2>2. Known(TypeNumber(call[c].name))' = Known(TypeNumber(call[c].name))
    BY <1>2, <1>4 DEF Known, TypeNumber
  <2>3. accepted[c] = NoNode
    BY <2>1 DEF MinerInv, CallOK
  <2> HIDE DEF new
  <2> QED BY <1>2, <1>4, <2>1, <2>2, <2>3 DEF CallOK, Told
<1> HIDE DEF new
<1> QED BY <1>2, <1>3, <1>5, CallStep DEF KeyFails, Waiting

LEMMA PostHolds ==
  ASSUME MinerInv, NEW c \in Callers, Post(c)
  PROVE  MinerInv'
<1> DEFINE new == [call[c] EXCEPT !.phase = "posted"]
<1>1. call[c] \in Calls
  BY CallTyped DEF MinerInv
<1>2. new \in Calls /\ new.phase = "posted"
      /\ new.op = call[c].op /\ new.name = call[c].name
      /\ new.owner = call[c].owner /\ new.result = call[c].result
  BY <1>1 DEF Calls, Phases
<1>3. call' = [call EXCEPT ![c] = new]
  BY DEF Post
<1>4. (call[c])' = new
  BY <1>3 DEF MinerInv, TypeOK
<1>5. CallOK(c)'
  <2>1. call[c].op = "set" => Known(TypeNumber(call[c].name))
    BY DEF Post
  <2>2. Known(TypeNumber(call[c].name))' = Known(TypeNumber(call[c].name))
    BY <1>2, <1>4 DEF Known, TypeNumber
  <2>3. call[c].result = "none" /\ accepted[c] = NoNode
    BY DEF MinerInv, CallOK, Post
  <2> HIDE DEF new
  <2> QED BY <1>2, <1>4, <2>1, <2>2, <2>3 DEF CallOK, Told, Post
<1> HIDE DEF new
<1> QED BY <1>2, <1>3, <1>5, CallStep DEF Post, Waiting

\* A new call that registers ends what the call before it had for itself.
LEMMA AskHolds ==
  ASSUME MinerInv, NEW c \in Callers, Ask(c)
  PROVE  MinerInv'
<1>1. PICK new \in Calls :
        /\ call' = [call EXCEPT ![c] = new]
        /\ new.result = call[c].result
        /\ \/ new.phase = "asked" /\ node = "up"
           \/ new.phase = "told" /\ new.message = "unavailable"
        /\ alone' = IF new.op # "set" THEN alone
                    ELSE IF Free THEN {c} ELSE {}
  <2>1. PICK op \in Ops, name \in Names, owner \in Owners :
          /\ call' = [call EXCEPT ![c] =
               [@ EXCEPT !.op = op, !.name = name, !.owner = owner,
                         !.phase = IF node = "up" THEN "asked" ELSE "told",
                         !.message = IF node = "up" THEN "none" ELSE "unavailable"]]
          /\ alone' = IF op # "set" THEN alone
                      ELSE IF Free THEN {c} ELSE {}
    BY DEF Ask
  <2> DEFINE new == [call[c] EXCEPT !.op = op, !.name = name, !.owner = owner,
                       !.phase = IF node = "up" THEN "asked" ELSE "told",
                       !.message = IF node = "up" THEN "none" ELSE "unavailable"]
  <2>2. call[c] \in Calls
    BY CallTyped DEF MinerInv
  <2>3. new \in Calls /\ new.result = call[c].result /\ new.op = op
        /\ ((new.phase = "asked" /\ node = "up")
             \/ (new.phase = "told" /\ new.message = "unavailable"))
    BY <2>2 DEF Calls, Phases, Messages
  <2> HIDE DEF new
  <2>4. call' = [call EXCEPT ![c] = new]
    BY <2>1 DEF new
  <2> QED BY <2>1, <2>3, <2>4
<1>2. call'[c] = new /\ \A d \in Callers \ {c} : call'[d] = call[d]
  BY <1>1 DEF MinerInv, TypeOK
<1>3. /\ call[c].phase = "idle"
      /\ UNCHANGED <<node, hub, late, accepted>>
  BY DEF Ask
<1>4. c \notin alone
  BY <1>3 DEF MinerInv, AloneOK
<1>5. TypeOK'
  <2>1. alone' \subseteq Callers /\ Cardinality(alone') <= 1
    BY <1>1, AloneSmall DEF MinerInv, TypeOK
  <2> QED BY <1>1, <1>3, <2>1 DEF MinerInv, TypeOK, Calls
<1>6. \A d \in Callers : CallOK(d)'
  <2>1. CallOK(c)'
    <3>1. call[c].result = "none" /\ accepted[c] = NoNode
      BY <1>3 DEF MinerInv, CallOK
    <3> QED BY <1>1, <1>2, <1>3, <3>1 DEF CallOK, Told
  <2>2. ASSUME NEW d \in Callers, d # c PROVE CallOK(d)'
    <3>1. CallOK(d) /\ call'[d] = call[d] /\ accepted'[d] = accepted[d]
      BY <1>2, <1>3, <2>2 DEF MinerInv
    <3> QED BY <3>1, CallKept
  <2> QED BY <2>1, <2>2
<1>7. \A d \in alone' : AloneOK(d)'
  <2>1. CASE new.op # "set"
    <3> SUFFICES ASSUME NEW d \in alone PROVE AloneOK(d)'
      BY <1>1, <2>1
    <3>1. d \in Callers /\ d # c /\ AloneOK(d)
      BY <1>4 DEF MinerInv, TypeOK
    <3>2. (call[d])' = call[d]
      BY <1>2, <3>1
    <3>3. \A e \in Callers \ {d} : ~Sets(e)'
      BY <1>2, <2>1, <3>1 DEF AloneOK, Sets
    <3> QED BY <1>3, <3>1, <3>2, <3>3 DEF AloneOK, Told, Request
  <2>2. CASE new.op = "set" /\ Free
    <3>1. \A e \in Callers \ {c} : ~Sets(e)'
      BY <1>2, <2>2 DEF Free, Sets
    <3>2. late' = {}
      BY <1>3, <2>2 DEF Free
    <3> QED BY <1>1, <1>2, <2>2, <3>1, <3>2 DEF AloneOK, Told
  <2>3. CASE new.op = "set" /\ ~Free
    BY <1>1, <2>3
  <2> QED BY <2>1, <2>2, <2>3
<1>8. CrashHasCause'
  <2> SUFFICES ASSUME node = "down" PROVE \E d \in Callers : Ends(d)'
    BY <1>3, CauseEnds DEF CrashHasCause, Ends
  <2>1. PICK d \in Callers : Ends(d)
    BY CauseEnds DEF MinerInv
  <2>2. d # c
    BY <1>3, <2>1 DEF MinerInv, CallOK, Ends
  <2> QED BY <1>2, <2>1, <2>2, EndsKept
<1>9. NobodyWaits'
  BY <1>1, <1>2, <1>3 DEF MinerInv, NobodyWaits, Waiting
<1>10. ASSUME NEW d \in late' PROVE LateOK(d)'
  <2>1. d \in Callers /\ d # c /\ LateOK(d)
    BY <1>3, <1>10, LateTold DEF MinerInv
  <2> QED BY <1>2, <1>3, <2>1, LateKept
<1> QED BY <1>5, <1>6, <1>7, <1>8, <1>9, <1>10 DEF MinerInv

-----------------------------------------------------------------------------
LEMMA HubHolds ==
  ASSUME MinerInv, NEW c \in Callers, HubServes(c)
  PROVE  MinerInv'
<1>1. PICK result \in {"ok", "refused"} :
        /\ call' = [call EXCEPT ![c].phase = "served", ![c].result = result]
        /\ IF result = "ok" /\ call[c].op = "set"
           THEN /\ hub' = Request(c)
                /\ accepted' = [accepted EXCEPT ![c] = Request(c)]
           ELSE UNCHANGED <<hub, accepted>>
  BY DEF HubServes, Accepts
<1> DEFINE new == [call[c] EXCEPT !.phase = "served", !.result = result]
<1>2. call[c] \in Calls
  BY CallTyped DEF MinerInv
<1>3. new \in Calls /\ new.phase = "served" /\ new.result = result
      /\ new.op = call[c].op /\ new.name = call[c].name /\ new.owner = call[c].owner
  BY <1>2 DEF Calls, Phases, Results
<1>4. call' = [call EXCEPT ![c] = new]
  BY <1>1
<1> HIDE DEF new
<1>5. (call[c])' = new /\ \A d \in Callers \ {c} : call'[d] = call[d]
  BY <1>4 DEF MinerInv, TypeOK
<1>6. call[c].phase = "posted" /\ UNCHANGED <<node, late, alone>>
  BY DEF HubServes
<1>7. Request(c)' = Request(c)
  BY <1>3, <1>5 DEF Request
<1>8. CallOK(c)
  BY DEF MinerInv
<1>9. call[c].op = "set" => Request(c) \in Registrations
  BY <1>6, <1>8, RequestTyped DEF CallOK, MinerInv
<1>10. TypeOK'
  BY <1>1, <1>3, <1>4, <1>6, <1>9 DEF MinerInv, TypeOK, Calls
<1>11. \A d \in Callers : CallOK(d)'
  <2>1. CallOK(c)'
    <3>1. Known(TypeNumber(call[c].name))' = Known(TypeNumber(call[c].name))
      BY <1>3, <1>5 DEF Known, TypeNumber
    <3>2. call[c].op = "set" /\ result = "ok" => (accepted[c])' = Request(c)
      BY <1>1 DEF MinerInv, TypeOK
    <3>3. call[c].op \in {"set", "query"} /\ (call[c].op = "set" => Known(TypeNumber(call[c].name)))
      BY <1>6, <1>8 DEF CallOK
    <3> QED BY <1>3, <1>5, <1>7, <3>1, <3>2, <3>3 DEF CallOK, Told
  <2>2. ASSUME NEW d \in Callers, d # c PROVE CallOK(d)'
    <3>1. CallOK(d) /\ call'[d] = call[d] /\ accepted'[d] = accepted[d]
      BY <1>1, <1>5, <2>2 DEF MinerInv, TypeOK
    <3> QED BY <3>1, CallKept
  <2> QED BY <2>1, <2>2
<1>12. \A d \in alone : AloneOK(d)'
  <2> SUFFICES ASSUME NEW d \in alone PROVE AloneOK(d)'
    OBVIOUS
  <2>1. d \in Callers /\ AloneOK(d)
    BY DEF MinerInv, TypeOK
  <2>2. \A e \in Callers \ {d} : ~Sets(e)'
    BY <1>3, <1>5, <1>6, <2>1 DEF AloneOK, Sets, Waiting
  <2>3. CASE d # c
    <3>1. call[c].op # "set"
      BY <1>6, <2>1, <2>3 DEF AloneOK, Sets, Waiting
    <3>2. (call[d])' = call[d] /\ hub' = hub
      BY <1>1, <1>5, <2>1, <2>3, <3>1
    <3> QED BY <1>6, <2>1, <2>2, <3>2 DEF AloneOK, Told, Request
  <2>4. CASE d = c
    <3>1. call[c].op = "set" /\ late = {}
      BY <1>6, <2>1, <2>4 DEF AloneOK, Waiting
    <3>2. result = "ok" => hub' = Request(c)
      BY <1>1, <3>1
    <3> QED BY <1>3, <1>5, <1>6, <1>7, <2>2, <2>4, <3>1, <3>2 DEF AloneOK, Told
  <2> QED BY <2>3, <2>4
<1>13. CrashHasCause'
  BY <1>6 DEF MinerInv, CrashHasCause, NobodyWaits, Waiting
<1>14. NobodyWaits'
  BY <1>6 DEF MinerInv, NobodyWaits, Waiting
<1>15. ASSUME NEW d \in late' PROVE LateOK(d)'
  <2>1. d \in Callers /\ d # c /\ LateOK(d)
    BY <1>6, <1>15, LateTold DEF MinerInv, Waiting
  <2> QED BY <1>1, <1>5, <2>1, LateKept DEF MinerInv, TypeOK
<1> QED BY <1>6, <1>10, <1>11, <1>12, <1>13, <1>14, <1>15 DEF MinerInv

\* A call that is alone and was told of its registration has nothing late.
LEMMA LateHolds ==
  ASSUME MinerInv, NEW c \in Callers, LateArrives(c)
  PROVE  MinerInv'
<1>1. /\ UNCHANGED <<call, node, alone>>
      /\ c \in late /\ late' = late \ {c}
      /\ \/ hub' = Request(c) /\ accepted' = [accepted EXCEPT ![c] = Request(c)]
         \/ hub' = hub /\ accepted' = accepted
  BY DEF LateArrives, Accepts
<1>2. /\ LateOK(c) /\ call[c].phase = "told" /\ call[c].message # "register ok"
      /\ Request(c) \in Registrations
  <2>1. LateOK(c) /\ TypeOK
    BY <1>1 DEF MinerInv
  <2>2. Known(TypeNumber(call[c].name))
    BY <2>1, CallTyped, KnownNames DEF LateOK, Registers, Calls
  <2> QED BY <2>1, <2>2, RequestTyped DEF LateOK
<1>3. \A d \in Callers \ {c} : accepted'[d] = accepted[d]
  BY <1>1 DEF MinerInv, TypeOK
<1>4. TypeOK' /\ CrashHasCause' /\ NobodyWaits'
  BY <1>1, <1>2 DEF MinerInv, TypeOK, CrashHasCause, Registers, NobodyWaits, Waiting
<1>5. ASSUME NEW d \in Callers PROVE CallOK(d)'
  <2>1. CASE d # c
    BY <1>1, <1>3, <2>1, CallKept DEF MinerInv
  <2>2. CASE d = c
    BY <1>1, <1>2, <2>2 DEF CallOK, Told
  <2> QED BY <2>1, <2>2
<1>6. ASSUME NEW d \in alone PROVE AloneOK(d)'
  <2>1. d \in Callers /\ AloneOK(d)
    BY DEF MinerInv, TypeOK
  <2>2. call[d].phase \notin Waiting /\ ~Told(d, "register ok")
    BY <1>1, <2>1 DEF AloneOK
  <2> QED BY <1>1, <2>1, <2>2 DEF AloneOK, Told, Sets, Waiting
<1>7. ASSUME NEW d \in late' PROVE LateOK(d)'
  <2>1. d \in Callers /\ d # c /\ LateOK(d)
    BY <1>1, <1>7, LateTold DEF MinerInv
  <2> QED BY <1>1, <1>3, <2>1, LateKept
<1> QED BY <1>1, <1>4, <1>5, <1>6, <1>7 DEF MinerInv

-----------------------------------------------------------------------------
\* A panic tells every caller "unavailable"; what was posted is late.
LEMMA CrashHolds ==
  ASSUME MinerInv, NEW c \in Callers,
         \/ call[c].phase = "served" /\ call[c].op = "query" /\ call[c].result # "ok"
         \/ call[c].phase = "keyless",
         Crash, late' = late \cup Posted(Callers),
         UNCHANGED <<hub, accepted, alone>>
  PROVE  MinerInv'
<1>1. \A d \in Callers :
        IF call[d].phase \in Waiting
        THEN call'[d] = [call[d] EXCEPT !.phase = "told", !.message = "unavailable"]
        ELSE call'[d] = call[d]
  BY DEF Crash
<1>2. \A d \in Callers : call[d] \in Calls
  BY CallTyped DEF MinerInv
<1>3. \A d \in Callers :
        /\ call'[d] \in Calls
        /\ call'[d].op = call[d].op /\ call'[d].result = call[d].result
        /\ \/ call'[d].phase = "told" /\ call'[d].message = "unavailable"
           \/ call'[d] = call[d] /\ call[d].phase \notin Waiting
  <2> SUFFICES ASSUME NEW d \in Callers, call[d].phase \in Waiting
               PROVE  /\ call'[d] \in Calls
                      /\ call'[d].op = call[d].op /\ call'[d].result = call[d].result
                      /\ call'[d].phase = "told" /\ call'[d].message = "unavailable"
    BY <1>1, <1>2
  <2>1. call'[d] = [call[d] EXCEPT !.phase = "told", !.message = "unavailable"]
    BY <1>1
  <2>2. "told" \in Phases /\ "unavailable" \in Messages
    BY DEF Phases, Messages
  <2> QED BY <1>2, <2>1, <2>2 DEF Calls
<1>4. \A d \in Callers : ~Sets(d)'
  BY <1>3 DEF Sets, Waiting
<1>5. TypeOK'
  <2>1. call' = [d \in Callers |-> call'[d]]
    BY DEF Crash
  <2>2. call' \in [Callers -> Calls]
    BY <1>3, <2>1
  <2>3. late' \subseteq Callers
    BY PostedSets DEF MinerInv, TypeOK
  <2> QED BY <2>2, <2>3 DEF MinerInv, TypeOK, Calls, Crash
<1>6. ASSUME NEW d \in Callers PROVE CallOK(d)'
  <2>1. CASE call'[d] = call[d]
    BY <2>1, CallKept DEF MinerInv
  <2>2. CASE call'[d].phase = "told" /\ call'[d].message = "unavailable"
    BY <2>2 DEF CallOK, Told
  <2> QED BY <1>3, <2>1, <2>2
<1>7. ASSUME NEW d \in alone PROVE AloneOK(d)'
  <2>1. d \in Callers /\ AloneOK(d)
    BY DEF MinerInv, TypeOK
  <2>2. CASE call'[d].phase = "told" /\ call'[d].message = "unavailable"
    BY <1>3, <1>4, <2>1, <2>2 DEF AloneOK, Told, Waiting
  <2>3. CASE call'[d] = call[d] /\ call[d].phase \notin Waiting
    <3>1. \A e \in Callers : ~Sets(e)
      BY <2>1, <2>3 DEF AloneOK, Sets
    <3>2. late' = late
      BY <3>1, PostedSets
    <3> QED BY <1>4, <2>1, <2>3, <3>2 DEF AloneOK, Told, Request, Waiting
  <2> QED BY <1>3, <2>1, <2>2, <2>3
<1>8. CrashHasCause'
  <2>1. CallOK(c) /\ call[c] \in Calls
    BY <1>2 DEF MinerInv
  <2>2. CASE call[c].phase = "served" /\ call[c].op = "query" /\ call[c].result # "ok"
    <3>1. call[c].result = "refused"
      BY <2>1, <2>2 DEF CallOK
    <3> QED BY <1>3, <2>2, <3>1 DEF CrashHasCause
  <2>3. CASE call[c].phase = "keyless"
    <3>1. call[c].op = "set" /\ call[c].result = "nokey" /\ call[c].name # "other"
      BY <2>1, <2>3, KnownNames DEF CallOK, Calls
    <3>2. call'[c] = [call[c] EXCEPT !.phase = "told", !.message = "unavailable"]
      BY <1>1, <2>3 DEF Waiting
    <3>3. Registers(c)' /\ call'[c].result = "nokey"
      BY <2>1, <3>1, <3>2 DEF Registers, Calls
    <3> QED BY <3>3 DEF CrashHasCause
  <2> QED BY <2>2, <2>3
<1>9. NobodyWaits'
  BY <1>3 DEF NobodyWaits, Waiting
<1>10. ASSUME NEW d \in late' PROVE LateOK(d)'
  <2>1. CASE d \in late
    <3>1. d \in Callers /\ LateOK(d) /\ call'[d] = call[d]
      BY <1>1, <2>1, LateTold DEF MinerInv
    <3> QED BY <3>1, LateKept
  <2>2. CASE d \in Posted(Callers)
    <3>1. /\ d \in Callers /\ Sets(d) /\ call[d].name # "other" /\ accepted[d] = NoNode
      BY <2>2, PostedSets
    <3>2. /\ call'[d].phase = "told" /\ call'[d].message = "unavailable"
          /\ call'[d].op = "set" /\ call'[d].name # "other"
      BY <1>1, <1>2, <3>1 DEF Sets, Calls
    <3> QED BY <3>1, <3>2 DEF LateOK, Registers
  <2> QED BY <1>10, <2>1, <2>2
<1> QED BY <1>5, <1>6, <1>7, <1>8, <1>9, <1>10 DEF MinerInv, Crash

LEMMA KeylessHolds ==
  ASSUME MinerInv, NEW c \in Callers, Keyless(c)
  PROVE  MinerInv'
<1>1. call[c].phase = "keyless" /\ UNCHANGED <<hub, accepted, alone>>
  BY DEF Keyless
<1>2. node = "up"
  BY <1>1 DEF MinerInv, TypeOK, NobodyWaits, Waiting
<1>3. CASE Tell(c, "fail") /\ UNCHANGED node
  <2>1. late' = late
    BY <1>2, <1>3 DEF Keyless, LateIfDown
  <2> QED BY <1>1, <1>3, <2>1, TellStep DEF Waiting, Messages
<1>4. CASE Crash
  <2>1. late' = late \cup Posted(Callers)
    BY <1>4 DEF Keyless, LateIfDown, Crash
  <2> QED BY <1>1, <1>4, <2>1, CrashHolds
<1> QED BY <1>3, <1>4 DEF Keyless

LEMMA AnswerHolds ==
  ASSUME MinerInv, NEW c \in Callers, Answer(c)
  PROVE  MinerInv'
<1>1. /\ call[c].phase = "served"
      /\ UNCHANGED <<hub, accepted, alone>>
      /\ late' = IF node' = "up" THEN late ELSE late \cup Posted(Callers)
  BY DEF Answer, LateIfDown
<1>2. call[c] \in Calls /\ CallOK(c)
  BY CallTyped DEF MinerInv
<1>3. call[c].op \in {"set", "query"}
  BY <1>1, <1>2 DEF CallOK
<1>4. node = "up"
  BY <1>1 DEF MinerInv, TypeOK, NobodyWaits, Waiting
<1>6. CASE call[c].op = "set"
  <2>1. RegisterEnds(c)
    BY <1>6 DEF Answer
  <2>2. node' = node /\ late' = late
    BY <1>1, <1>4, <2>1 DEF RegisterEnds
  <2>3. call[c].result = "ok" => accepted[c] = Request(c) /\ (c \in alone => hub = Request(c))
    BY <1>1, <1>2, <1>6 DEF CallOK, AloneOK, MinerInv
  <2>4. CASE call[c].result = "ok"
    <3>1. Tell(c, "register ok")
      BY <2>1, <2>4 DEF RegisterEnds, Claim
    <3> QED BY <1>1, <2>2, <2>3, <2>4, <3>1, TellStep DEF Waiting, Messages
  <2>5. CASE call[c].result # "ok"
    <3>1. Tell(c, "fail")
      BY <2>1, <2>5 DEF RegisterEnds
    <3> QED BY <1>1, <2>2, <3>1, TellStep DEF Waiting, Messages
  <2> QED BY <2>4, <2>5
<1>7. CASE call[c].op = "query"
  <2>1. QueryEnds(c)
    BY <1>7 DEF Answer
  <2>2. CASE call[c].result = "ok"
    <3>1. Tell(c, "status") /\ node' = node /\ late' = late
      BY <1>1, <1>4, <2>1, <2>2 DEF QueryEnds
    <3> QED BY <1>1, <3>1, TellStep DEF Waiting, Messages
  <2>3. CASE call[c].result # "ok"
    <3>1. Crash /\ late' = late \cup Posted(Callers)
      BY <1>1, <2>1, <2>3 DEF QueryEnds, Crash
    <3> QED BY <1>1, <1>7, <2>3, <3>1, CrashHolds
  <2> QED BY <2>2, <2>3
<1> QED BY <1>3, <1>6, <1>7

LEMMA NextHolds == MinerInv /\ [Next]_vars => MinerInv'
<1> SUFFICES ASSUME MinerInv, [Next]_vars PROVE MinerInv'
  OBVIOUS
<1>1. CASE \E c \in Callers : LateArrives(c)
  BY <1>1, LateHolds
<1>2. CASE UNCHANGED vars
  BY <1>2, StutterHolds
<1>3. CASE \E c \in Callers : Ask(c) \/ Step(c)
  BY <1>3, AskHolds, EndsWithoutAnswer, KeyFailsHolds, KeylessHolds, PostHolds,
     HubHolds, AnswerHolds DEF Step
<1> QED BY <1>1, <1>2, <1>3 DEF Next

LEMMA Invariant == Spec => []MinerInv
  BY InitHolds, NextHolds, PTL DEF Spec

-----------------------------------------------------------------------------
\* Every variable has its type.
THEOREM TypeCorrect == Spec => []TypeOK
  BY Invariant, PTL DEF MinerInv

\* The hub still holds the registration of a caller who was told so and had it
\* for himself: nothing given up before or crashed since replaces it.
THEOREM LastOk == Spec => []LastOkHolds
<1>1. MinerInv => LastOkHolds
  <2> SUFFICES ASSUME MinerInv, NEW c \in alone,
                      Told(c, "register ok"), call[c].name # "other"
               PROVE  hub = Named(c)
    BY DEF LastOkHolds, Registers
  <2>1. c \in Callers /\ hub = Request(c)
    BY DEF MinerInv, TypeOK, AloneOK
  <2> QED BY <2>1, RequestNames DEF MinerInv
<1> QED BY <1>1, Invariant, PTL

\* A node that ended had a query that the hub refused, or a registration whose
\* key could not be read: whatever else comes back, or does not, it goes on.
THEOREM CrashCaused == Spec => []CrashHasCause
  BY Invariant, PTL DEF MinerInv

-----------------------------------------------------------------------------
(* The refinement of RegistryService. *)

\* What an operator of the abstract service asked for and has been told.
Asked(c) == IF Registers(c) THEN Named(c) ELSE NoNode
Said(c) ==
  IF ~Registers(c) \/ call[c].phase # "told" THEN "nothing"
  ELSE IF call[c].message = "register ok" THEN "ok" ELSE "error"

\* What a step leaves alone when it neither asks nor tells a call that registers.
LEMMA SameView ==
  ASSUME NEW c, call'[c] = call[c]
  PROVE  Asked(c)' = Asked(c) /\ Said(c)' = Said(c)
BY DEF Asked, Said, Registers, Named

LEMMA NamedTyped ==
  ASSUME TypeOK, NEW c \in Callers, Registers(c)
  PROVE  Named(c) \in Registrations /\ Named(c) # NoNode /\ Request(c) = Named(c)
<1>1. call[c] \in Calls /\ call[c].name # "other"
  BY CallTyped DEF Registers
<1>2. Named(c) \in Registrations
  BY <1>1 DEF Named, Registrations, Calls, Names
<1> QED BY <1>1, <1>2, NoNodeAssumption, RequestNames

\* A step that shows the operators nothing.
LEMMA HidesAll ==
  ASSUME UNCHANGED <<hub, accepted>>,
         \A c \in Callers : Asked(c)' = Asked(c) /\ Said(c)' = Said(c)
  PROVE  UNCHANGED Registry!vars
BY DEF Registry!vars, Asked, Said

\* The hub takes what a call registers.
LEMMA AcceptsTakes ==
  ASSUME MinerInv, NEW c \in Callers, Registers(c), accepted[c] = NoNode,
         hub' = Request(c), accepted' = [accepted EXCEPT ![c] = Request(c)],
         \A d \in Callers : Asked(d)' = Asked(d) /\ Said(d)' = Said(d)
  PROVE  Registry!Take(c)
<1>1. Named(c) # NoNode /\ Request(c) = Named(c)
  BY NamedTyped DEF MinerInv
<1>2. {d \in Callers : accepted[d] # NoNode}'
        = {d \in Callers : accepted[d] # NoNode} \cup {c}
  BY <1>1 DEF MinerInv, TypeOK
<1>3. UNCHANGED <<[d \in Callers |-> Asked(d)], [d \in Callers |-> Said(d)]>>
  OBVIOUS
<1> QED BY <1>1, <1>2, <1>3 DEF Registry!Take, Asked, Said

\* Calls that have been asked are told something, together.
LEMMA ToldTogether ==
  ASSUME MinerInv, UNCHANGED <<hub, accepted>>,
         \A d \in Callers :
           \/ call'[d] = call[d]
           \/ /\ call[d].phase \in Waiting /\ call'[d].phase = "told"
              /\ call'[d].op = call[d].op /\ call'[d].name = call[d].name
              /\ call'[d].owner = call[d].owner
              /\ call'[d].message = "register ok" /\ call[d].op = "set"
                   /\ call[d].name # "other"
                 => accepted[d] # NoNode
  PROVE  Registry!Next
<1>1. ASSUME NEW d \in Callers
      PROVE  /\ Asked(d)' = Asked(d)
             /\ \/ Said(d)' = Said(d)
                \/ /\ Registers(d) /\ Said(d) = "nothing"
                   /\ Said(d)' = "error" \/ (Said(d)' = "ok" /\ accepted[d] # NoNode)
  <2>1. CASE call'[d] = call[d]
    BY <2>1, SameView
  <2>2. CASE call'[d] # call[d]
    BY <2>2 DEF Asked, Said, Registers, Named, Waiting
  <2> QED BY <2>1, <2>2
<1>2. PICK callers \in SUBSET Callers :
        \A d \in Callers : d \in callers <=> Said(d)' # Said(d)
  <2>1. {d \in Callers : Said(d)' # Said(d)} \in SUBSET Callers
    OBVIOUS
  <2> QED BY <2>1
<1>3. ASSUME NEW d \in callers
      PROVE  /\ Asked(d) # NoNode /\ Said(d) = "nothing"
             /\ Said(d)' \in {"ok", "error"}
             /\ Said(d)' = "ok" => accepted[d] # NoNode
  BY <1>1, <1>2, NamedTyped DEF MinerInv, Asked
<1>4. PICK answer \in [callers -> {"ok", "error"}] : \A d \in callers : answer[d] = Said(d)'
  <2>1. [d \in callers |-> Said(d)'] \in [callers -> {"ok", "error"}]
    BY <1>3
  <2> QED BY <2>1
<1>5. Registry!Tell(callers)
  <2>1. \A d \in Callers : Said(d)' = IF d \in callers THEN answer[d] ELSE Said(d)
    BY <1>2, <1>4
  <2>2. UNCHANGED [d \in Callers |-> Asked(d)]
    BY <1>1
  <2>3. UNCHANGED {d \in Callers : accepted[d] # NoNode}
    OBVIOUS
  <2>4. \A d \in callers : [e \in Callers |-> Asked(e)][d] # NoNode
                            /\ [e \in Callers |-> Said(e)][d] = "nothing"
    BY <1>3
  <2>5. \A d \in callers : answer[d] = "ok" => d \in {e \in Callers : accepted[e] # NoNode}
    BY <1>3, <1>4
  <2>6. [d \in Callers |-> Said(d)]' =
          [d \in Callers |-> IF d \in callers THEN answer[d]
                             ELSE [e \in Callers |-> Said(e)][d]]
    BY <2>1
  <2> QED BY <2>2, <2>3, <2>4, <2>5, <2>6, Zenon DEF Registry!Tell, Asked, Said
<1> QED BY <1>5 DEF Registry!Next


\* One call is told something.
LEMMA TellShown ==
  ASSUME MinerInv, NEW c \in Callers, NEW message, Tell(c, message),
         call[c].phase \in Waiting, UNCHANGED <<hub, accepted>>,
         message = "register ok" /\ call[c].op = "set" /\ call[c].name # "other"
           => call[c].phase = "served" /\ call[c].result = "ok"
  PROVE  Registry!Next
<1>1. \A d \in Callers : call[d] \in Calls
  BY CallTyped DEF MinerInv
<1>2. /\ call'[c].phase = "told" /\ call'[c].message = message
      /\ call'[c].op = call[c].op /\ call'[c].name = call[c].name
      /\ call'[c].owner = call[c].owner
      /\ \A d \in Callers \ {c} : call'[d] = call[d]
  BY <1>1 DEF Tell, MinerInv, TypeOK, Calls
<1>3. message = "register ok" /\ call[c].op = "set" /\ call[c].name # "other"
      => accepted[c] # NoNode
  <2> SUFFICES ASSUME message = "register ok", call[c].op = "set", call[c].name # "other"
               PROVE  accepted[c] # NoNode
    OBVIOUS
  <2>1. accepted[c] = Request(c) /\ Registers(c)
    BY DEF MinerInv, CallOK, Registers
  <2> QED BY <2>1, NamedTyped DEF MinerInv
<1> QED BY <1>2, <1>3, ToldTogether

LEMMA AskShown ==
  ASSUME MinerInv, NEW c \in Callers, Ask(c)
  PROVE  Registry!Next \/ UNCHANGED Registry!vars
<1>1. /\ call[c].phase = "idle" /\ UNCHANGED <<hub, accepted>>
  BY DEF Ask
<1>2. \A d \in Callers : call[d] \in Calls
  BY CallTyped DEF MinerInv
<1>3. \A d \in Callers \ {c} : call'[d] = call[d]
  BY DEF Ask, MinerInv, TypeOK
<1>4. call'[c] \in Calls /\ call'[c].phase # "idle"
      /\ (call'[c].phase = "told" => call'[c].message = "unavailable")
  <2>1. PICK op \in Ops, name \in Names, owner \in Owners :
          call' = [call EXCEPT ![c] =
            [@ EXCEPT !.op = op, !.name = name, !.owner = owner,
                      !.phase = IF node = "up" THEN "asked" ELSE "told",
                      !.message = IF node = "up" THEN "none" ELSE "unavailable"]]
    BY DEF Ask
  <2> QED BY <1>2, <2>1 DEF MinerInv, TypeOK, Calls, Phases, Messages
<1>5. \A d \in Callers \ {c} : Asked(d)' = Asked(d) /\ Said(d)' = Said(d)
  BY <1>3, SameView
<1>6. Asked(c) = NoNode /\ Said(c) = "nothing"
  BY <1>1 DEF Asked, Said, Registers
<1>7. CASE Registers(c)'
  <2>1. Asked(c)' \in Registrations
    BY <1>4, <1>7 DEF Asked, Registers, Named, Registrations, Calls, Names
  <2>2. Said(c)' \in {"nothing", "error"}
    BY <1>4, <1>7 DEF Said, Registers
  <2>3. [d \in Callers |-> Asked(d)]' = [[d \in Callers |-> Asked(d)] EXCEPT ![c] = Asked(c)']
    BY <1>5
  <2>4. [d \in Callers |-> Said(d)]' = [[d \in Callers |-> Said(d)] EXCEPT ![c] = Said(c)']
    BY <1>5
  <2>5. Registry!Ask(c)
    BY <1>1, <1>6, <2>1, <2>2, <2>3, <2>4 DEF Registry!Ask, Asked, Said
  <2> QED BY <2>5 DEF Registry!Next
<1>8. CASE ~Registers(c)'
  <2>1. Asked(c)' = NoNode /\ Said(c)' = "nothing"
    BY <1>8 DEF Asked, Said
  <2> QED BY <1>1, <1>5, <1>6, <2>1, HidesAll
<1> QED BY <1>7, <1>8

LEMMA HubShown ==
  ASSUME MinerInv, NEW c \in Callers, Post(c) \/ HubServes(c) \/ LateArrives(c)
  PROVE  Registry!Next \/ UNCHANGED Registry!vars
<1>1. \A d \in Callers : call[d] \in Calls
  BY CallTyped DEF MinerInv
<1>2. \A d \in Callers : Asked(d)' = Asked(d) /\ Said(d)' = Said(d)
  <2>1. CASE LateArrives(c)
    BY <2>1, SameView DEF LateArrives
  <2>2. CASE Post(c) \/ HubServes(c)
    <3>1. /\ call[c].phase \in {"asked", "posted"} /\ call'[c].phase \in {"posted", "served"}
          /\ call'[c].op = call[c].op /\ call'[c].name = call[c].name
          /\ call'[c].owner = call[c].owner
          /\ \A d \in Callers \ {c} : call'[d] = call[d]
      BY <1>1, <2>2 DEF Post, HubServes, MinerInv, TypeOK, Calls
    <3>2. Asked(c)' = Asked(c) /\ Said(c)' = Said(c)
      BY <3>1 DEF Asked, Said, Registers, Named
    <3> QED BY <3>1, <3>2, SameView
  <2> QED BY <2>1, <2>2
<1>3. CASE UNCHANGED <<hub, accepted>>
  BY <1>2, <1>3, HidesAll
<1>4. CASE Accepts(c) /\ (LateArrives(c) \/ (HubServes(c) /\ call[c].op = "set"))
  <2>1. Registers(c) /\ accepted[c] = NoNode
    <3>1. CASE LateArrives(c)
      BY <3>1 DEF LateArrives, MinerInv, LateOK
    <3>2. CASE HubServes(c) /\ call[c].op = "set"
      <4>1. c \in Posted({c})
        BY <3>2 DEF HubServes, Posted
      <4> QED BY <3>2, <4>1, PostedSets DEF HubServes, Registers
    <3> QED BY <1>4, <3>1, <3>2
  <2>2. Registry!Take(c)
    BY <1>2, <1>4, <2>1, AcceptsTakes DEF Accepts
  <2> QED BY <2>2 DEF Registry!Next
<1> QED BY <1>3, <1>4 DEF Post, HubServes, LateArrives

\* A node that ends tells all who wait.
LEMMA CrashShown ==
  ASSUME MinerInv, Crash, UNCHANGED <<hub, accepted>>
  PROVE  Registry!Next
<1>1. \A d \in Callers : call[d] \in Calls
  BY CallTyped DEF MinerInv
<1>2. \A d \in Callers :
        \/ call'[d] = call[d]
        \/ /\ call[d].phase \in Waiting /\ call'[d].phase = "told"
           /\ call'[d].op = call[d].op /\ call'[d].name = call[d].name
           /\ call'[d].owner = call[d].owner
           /\ call'[d].message = "unavailable"
  BY <1>1 DEF Crash, Calls
<1> QED BY <1>2, ToldTogether

LEMMA AnswerShown ==
  ASSUME MinerInv, NEW c \in Callers, Answer(c)
  PROVE  Registry!Next
<1>1. /\ call[c].phase = "served" /\ UNCHANGED <<hub, accepted>>
      /\ IF call[c].op = "set" THEN RegisterEnds(c) ELSE QueryEnds(c)
  BY DEF Answer
<1>2. CASE ~Crash
  BY <1>1, <1>2, TellShown DEF RegisterEnds, QueryEnds, Claim, Waiting
<1>3. CASE Crash
  BY <1>1, <1>3, CrashShown
<1> QED BY <1>2, <1>3

LEMMA KeyFailsShown ==
  ASSUME MinerInv, NEW c \in Callers, KeyFails(c)
  PROVE  UNCHANGED Registry!vars
<1>1. \A d \in Callers : call[d] \in Calls
  BY CallTyped DEF MinerInv
<1>2. /\ call[c].phase = "asked" /\ call'[c].phase = "keyless"
      /\ call'[c].op = call[c].op /\ call'[c].name = call[c].name
      /\ call'[c].owner = call[c].owner
      /\ \A d \in Callers \ {c} : call'[d] = call[d]
      /\ UNCHANGED <<hub, accepted>>
  BY <1>1 DEF KeyFails, MinerInv, TypeOK, Calls
<1>3. Asked(c)' = Asked(c) /\ Said(c)' = Said(c)
  BY <1>2 DEF Asked, Said, Registers, Named
<1> QED BY <1>2, <1>3, SameView, HidesAll

LEMMA RegistryStep ==
  ASSUME MinerInv, [Next]_vars
  PROVE  [Registry!Next]_(Registry!vars)
<1>1. CASE UNCHANGED vars
  <2>1. UNCHANGED <<hub, accepted>> /\ \A c \in Callers : call'[c] = call[c]
    BY <1>1 DEF vars
  <2> QED BY <2>1, SameView, HidesAll
<1>2. ASSUME NEW c \in Callers, Ask(c) \/ Step(c) \/ LateArrives(c)
      PROVE  Registry!Next \/ UNCHANGED Registry!vars
  <2>1. CASE UnRegister(c) \/ NoAnswer(c)
    BY <2>1, TellShown DEF UnRegister, NoAnswer, Waiting
  <2>2. CASE EndsAtOnce(c)
    <3>1. call[c].op = "other" \/ call[c].name = "other"
      BY <2>2, CallTyped, KnownNames DEF EndsAtOnce, MinerInv, Calls
    <3> QED BY <2>2, <3>1, TellShown DEF EndsAtOnce, Waiting
  <2>3. CASE Keyless(c)
    BY <2>3, TellShown, CrashShown DEF Keyless, Waiting
  <2> QED BY <1>2, <2>1, <2>2, <2>3, AskShown, HubShown, KeyFailsShown, AnswerShown
          DEF Step
<1> QED BY <1>1, <1>2 DEF Next

\* The miner service, its agent and the hub are the registry that operators may
\* rely on: however calls overlap, and whatever is lost, late or ends the node,
\* a registration is of what was named, is taken at most once, and "register ok"
\* is only said of one that was.
THEOREM ImplementsRegistry == Spec => RegistryPromise
<1>1. Init => Registry!Init
  BY DEF Init, Registry!Init, Registers
<1>2. MinerInv /\ [Next]_vars => [Registry!Next]_(Registry!vars)
  BY RegistryStep
<1>3. Spec => Registry!Init /\ [][Registry!Next]_(Registry!vars)
  BY <1>1, <1>2, Invariant, PTL DEF Spec
<1> QED BY <1>3 DEF RegistryPromise, Registry!Spec


\* A caller is told "register ok" only of the type and owner that he named and
\* the hub accepted from him, however many calls run at the same time.
THEOREM OkAccepted ==
  Spec => [](\A c \in Callers :
               Told(c, "register ok") /\ Registers(c) => accepted[c] = Named(c))
<1>1. MinerInv => \A c \in Callers :
                    Told(c, "register ok") /\ Registers(c) => accepted[c] = Named(c)
  BY NamedTyped DEF MinerInv, CallOK, Registers
<1> QED BY <1>1, Invariant, PTL


-----------------------------------------------------------------------------
(* What operators may conclude from RegistryService alone. *)

Kept ==
  /\ hub # NoNode => \E c \in Callers : accepted[c] # NoNode /\ Asked(c) = hub
  /\ \A c \in Callers : accepted[c] # NoNode => Asked(c) # NoNode
  /\ \A c \in Callers : Said(c) = "ok" => accepted[c] # NoNode

LEMMA KeptStep == ASSUME Kept, [Registry!Next]_(Registry!vars) PROVE Kept'
<1>1. ASSUME UNCHANGED {c \in Callers : accepted[c] # NoNode}, NEW c \in Callers
      PROVE  accepted'[c] # NoNode <=> accepted[c] # NoNode
  BY <1>1
<1>2. ASSUME UNCHANGED [c \in Callers |-> Asked(c)], NEW c \in Callers
      PROVE  Asked(c)' = Asked(c)
  <2>1. [d \in Callers |-> Asked(d)']  = [d \in Callers |-> Asked(d)]
    BY <1>2
  <2> QED BY <2>1
<1>3. ASSUME UNCHANGED [c \in Callers |-> Said(c)], NEW c \in Callers
      PROVE  Said(c)' = Said(c)
  <2>1. [d \in Callers |-> Said(d)']  = [d \in Callers |-> Said(d)]
    BY <1>3
  <2> QED BY <2>1
<1>4. CASE UNCHANGED Registry!vars
  <2>1. /\ UNCHANGED hub
        /\ UNCHANGED [c \in Callers |-> Asked(c)]
        /\ UNCHANGED [c \in Callers |-> Said(c)]
        /\ UNCHANGED {c \in Callers : accepted[c] # NoNode}
    BY <1>4, Zenon DEF Registry!vars, Asked, Said
  <2>2. \A c \in Callers : /\ Asked(c)' = Asked(c) /\ Said(c)' = Said(c)
                           /\ accepted'[c] # NoNode <=> accepted[c] # NoNode
    BY <2>1, <1>1, <1>2, <1>3
  <2> QED BY <2>1, <2>2 DEF Kept
<1>5. ASSUME NEW c \in Callers, Registry!Ask(c) PROVE Kept'
  <2>1. /\ UNCHANGED hub
        /\ UNCHANGED {d \in Callers : accepted[d] # NoNode}
        /\ [d \in Callers |-> Asked(d)][c] = NoNode
        /\ \E registration \in Registrations :
             [d \in Callers |-> Asked(d)]' =
               [[d \in Callers |-> Asked(d)] EXCEPT ![c] = registration]
        /\ \E answer \in {"nothing", "error"} :
             [d \in Callers |-> Said(d)]' =
               [[d \in Callers |-> Said(d)] EXCEPT ![c] = answer]
    BY <1>5, Zenon DEF Registry!Ask, Asked, Said
  <2>2. Asked(c) = NoNode
    BY <2>1
  <2>3. \A d \in Callers \ {c} : Asked(d)' = Asked(d)
    BY <2>1
  <2>4. \A d \in Callers : Said(d)' = "ok" => Said(d) = "ok"
    BY <2>1
  <2>5. \A d \in Callers : accepted'[d] # NoNode <=> accepted[d] # NoNode
    BY <2>1, <1>1
  <2>6. \A d \in Callers : accepted[d] # NoNode => d # c
    BY <2>2 DEF Kept
  <2> QED BY <2>1, <2>3, <2>4, <2>5, <2>6 DEF Kept
<1>6. ASSUME NEW c \in Callers, Registry!Take(c) PROVE Kept'
  <2>1. /\ UNCHANGED [d \in Callers |-> Asked(d)]
        /\ UNCHANGED [d \in Callers |-> Said(d)]
        /\ [d \in Callers |-> Asked(d)][c] # NoNode
        /\ hub' = [d \in Callers |-> Asked(d)][c]
        /\ {d \in Callers : accepted[d] # NoNode}' =
             {d \in Callers : accepted[d] # NoNode} \cup {c}
    BY <1>6, Zenon DEF Registry!Take, Asked, Said
  <2>2. Asked(c) # NoNode /\ hub' = Asked(c)
    BY <2>1
  <2>3. \A d \in Callers : Asked(d)' = Asked(d) /\ Said(d)' = Said(d)
    BY <2>1, <1>2, <1>3
  <2>4. \A d \in Callers : accepted'[d] # NoNode <=> accepted[d] # NoNode \/ d = c
    BY <2>1
  <2> QED BY <2>2, <2>3, <2>4 DEF Kept
<1>7. ASSUME NEW callers \in SUBSET Callers, Registry!Tell(callers) PROVE Kept'
  <2>1. /\ UNCHANGED hub
        /\ UNCHANGED [d \in Callers |-> Asked(d)]
        /\ UNCHANGED {d \in Callers : accepted[d] # NoNode}
        /\ \E answer \in [callers -> {"ok", "error"}] :
             /\ \A d \in callers : answer[d] = "ok" => d \in {e \in Callers : accepted[e] # NoNode}
             /\ [d \in Callers |-> Said(d)]' =
                  [d \in Callers |-> IF d \in callers THEN answer[d]
                                     ELSE [e \in Callers |-> Said(e)][d]]
    BY <1>7, Zenon DEF Registry!Tell, Asked, Said
  <2>2. PICK answer \in [callers -> {"ok", "error"}] :
          /\ \A d \in callers : answer[d] = "ok" => d \in {e \in Callers : accepted[e] # NoNode}
          /\ [d \in Callers |-> Said(d)]' =
               [d \in Callers |-> IF d \in callers THEN answer[d]
                                  ELSE [e \in Callers |-> Said(e)][d]]
    BY <2>1
  <2>3. \A d \in Callers : Said(d)' = "ok" => Said(d) = "ok" \/ accepted[d] # NoNode
    BY <2>2
  <2>4. \A d \in Callers : /\ Asked(d)' = Asked(d)
                           /\ accepted'[d] # NoNode <=> accepted[d] # NoNode
    BY <2>1, <1>1, <1>2
  <2> QED BY <2>1, <2>3, <2>4 DEF Kept
<1> QED BY <1>4, <1>5, <1>6, <1>7 DEF Registry!Next

\* Whatever keeps the promise of RegistryService keeps an honest record: what the
\* hub holds was named by an operator whose registration took effect, and who is
\* told "register ok" is such an operator.
THEOREM RecordIsHonest ==
  RegistryPromise =>
    [](/\ hub # NoNode =>
            \E c \in Callers : Registers(c) /\ accepted[c] # NoNode /\ hub = Named(c)
       /\ \A c \in Callers :
            Registers(c) /\ Told(c, "register ok") => accepted[c] # NoNode)
<1>1. Registry!Init => Kept
  <2> SUFFICES ASSUME Registry!Init PROVE Kept
    OBVIOUS
  <2>1. /\ hub = NoNode /\ {c \in Callers : accepted[c] # NoNode} = {}
        /\ [c \in Callers |-> Said(c)] = [c \in Callers |-> "nothing"]
    BY DEF Registry!Init, Said
  <2>2. \A c \in Callers : Said(c) = "nothing"
    BY <2>1
  <2> QED BY <2>1, <2>2 DEF Kept
<1>2. Kept =>
        /\ hub # NoNode =>
             \E c \in Callers : Registers(c) /\ accepted[c] # NoNode /\ hub = Named(c)
        /\ \A c \in Callers :
             Registers(c) /\ Told(c, "register ok") => accepted[c] # NoNode
  BY DEF Kept, Asked, Said, Told
<1> QED BY <1>1, <1>2, KeptStep, PTL DEF RegistryPromise, Registry!Spec
=============================================================================
