--------------------------- MODULE AppBindingProofs ---------------------------
(***************************************************************************)
(* The node never publishes an origin that is two rounds old, for every set*)
(* of origins and every number of events and faults.  OriginFresh alone is *)
(* not inductive: Recent also says where the answer on its way back comes  *)
(* from, and that between two questions the published origin is of the last*)
(* one, so that it is of the one before when the next is asked.            *)
(***************************************************************************)
EXTENDS AppBinding, TLAPS

\* The types of AppBinding's state hold in every behaviour.
THEOREM TypeCorrect == Spec => []TypeOK
<1>1. Init => TypeOK
  BY BoundsAssumption DEF Init, TypeOK, Answers, Steps
<1>2. TypeOK /\ [Next]_vars => TypeOK'
  <2> SUFFICES ASSUME TypeOK, [Next]_vars PROVE TypeOK'
    OBVIOUS
  <2> USE DEF TypeOK, Answers, Steps
  <2>1. CASE Bind
    BY <2>1, BoundsAssumption DEF Bind, Fails
  <2>2. CASE GetOrigin
    BY <2>2, BoundsAssumption DEF GetOrigin, Fails
  <2>3. CASE Return
    BY <2>3, BoundsAssumption DEF Return
  <2>4. CASE SetOrigin
    BY <2>4 DEF SetOrigin, Published, NextRound
  <2>5. CASE Tick
    BY <2>5 DEF Tick, RoundStart
  <2>6. CASE Stop
    <3>1. events' \in 0 .. MaxEvents
      BY <2>6, BoundsAssumption DEF Stop, Event
    <3>2. app' \in [up : BOOLEAN, node : {"none", "self", "other"}, origin : Origins]
      BY <2>6 DEF Stop
    <3> QED BY <2>6, <3>1, <3>2 DEF Stop, Event
  <2>7. CASE Start
    <3>1. PICK node \in {"none", app.node}, origin \in Origins :
            /\ app' = [up |-> TRUE, node |-> node, origin |-> origin]
            /\ asked' = [asked EXCEPT !.now = @ \cup {origin}]
      BY <2>7 DEF Start
    <3>2. events' \in 0 .. MaxEvents
      BY <2>7, BoundsAssumption DEF Start, Event
    <3>3. app' \in [up : BOOLEAN, node : {"none", "self", "other"}, origin : Origins]
      BY <3>1
    <3>4. asked' \in [now : SUBSET Origins, before : SUBSET Origins]
      BY <3>1
    <3> QED BY <2>7, <3>2, <3>3, <3>4 DEF Start, Event
  <2>8. CASE ChangeOrigin
    BY <2>8, BoundsAssumption DEF ChangeOrigin, Event
  <2>9. CASE OtherNodeBinds
    BY <2>9, BoundsAssumption DEF OtherNodeBinds, Event
  <2>10. CASE UNCHANGED vars
    BY <2>10 DEF vars
  <2> QED BY <2>1, <2>2, <2>3, <2>4, <2>5, <2>6, <2>7, <2>8, <2>9, <2>10
         DEF Next, Node, App
<1> QED BY <1>1, <1>2, PTL DEF Spec

Asking == step \in {"answered", "setOrigin"}

Recent ==
  /\ Asking => /\ read \in {NoOrigin} \cup asked.now
               /\ published \in {NoOrigin} \cup asked.now \cup asked.before
  /\ ~Asking => published \in {NoOrigin} \cup asked.now

\* An edge node publishes no origin, or one that the application had since it
\* was asked the time before last.
THEOREM PublishedIsRecent == Spec => []OriginFresh
<1>1. Init => Recent
  BY DEF Init, Recent, Asking
<1>2. TypeOK /\ Recent /\ [Next]_vars => Recent'
  <2> SUFFICES ASSUME TypeOK, Recent, [Next]_vars PROVE Recent'
    OBVIOUS
  <2> USE DEF Recent, Asking
  <2>0. asked = [now |-> asked.now, before |-> asked.before]
    BY DEF TypeOK
  <2>1. CASE Bind
    BY <2>1 DEF Bind
  <2>2. CASE GetOrigin
    <3>1. /\ step = "getOrigin" /\ step' = "answered" /\ published' = published
          /\ asked'.before = asked.now
      BY <2>2 DEF GetOrigin
    <3>2. read' \in {NoOrigin} \cup asked'.now
      BY <2>2 DEF GetOrigin, Fails
    <3> QED BY <3>1, <3>2
  <2>3. CASE Return
    BY <2>3 DEF Return
  <2>4. CASE SetOrigin
    BY <2>4 DEF SetOrigin, Published, NextRound
  <2>5. CASE Tick
    BY <2>5 DEF Tick, RoundStart
  <2>6. CASE App
    <3>1. UNCHANGED <<step, read, published>>
      BY <2>6 DEF App, Stop, Start, ChangeOrigin, OtherNodeBinds, Event
    <3>2. asked.now \subseteq asked'.now /\ asked'.before = asked.before
      BY <2>0, <2>6 DEF App, Stop, Start, ChangeOrigin, OtherNodeBinds
    <3> QED BY <3>1, <3>2
  <2>7. CASE UNCHANGED vars
    BY <2>7 DEF vars
  <2> QED BY <2>1, <2>2, <2>3, <2>4, <2>5, <2>6, <2>7 DEF Next, Node
<1>3. Recent => OriginFresh
  BY DEF Recent, OriginFresh
<1> QED BY <1>1, <1>2, <1>3, TypeCorrect, PTL DEF Spec
=============================================================================
