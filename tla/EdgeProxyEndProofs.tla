-------------------------- MODULE EdgeProxyEndProofs --------------------------
(***************************************************************************)
(* What a client may conclude from the end of a request: RefusedNotRun,    *)
(* BrokenHasCause and CleanMeansComplete, for any set of requests and any  *)
(* bound on pieces.  Ends(r) relates where the three threads of a request  *)
(* are, whose status lines are on the links and in the ResponseWriters,    *)
(* why a link was cut and how many pieces have passed; with the stream of  *)
(* EdgeProxyProofs it is inductive.  At the end, EdgeProxy is shown to     *)
(* implement ProxyService, step by step.                                   *)
(***************************************************************************)
EXTENDS EdgeProxyProofs

\* A status line tells how far its request came: of the application, that it
\* answered; of the edge node, that its handler returned and, unless it is 502,
\* never asked the application; of the proxy, that the request was not sent on.
Tells(p, status) ==
  /\ status.by = "app" => p["app"] \notin {"idle", "run"}
  /\ status.by = "edge" =>
       p["edge"] = "done" /\ (status.code = 502 \/ p["app"] = "idle")
  /\ status.by = "proxy" => p["proxy"] = "done" /\ p["edge"] = "idle"

\* Each thread starts the next one, and the application answers once.
Order(r) ==
  /\ pc[r]["proxy"] \in {"idle", "middleware", "auth", "handle", "dial"}
     => pc[r]["edge"] = "idle"
  /\ pc[r]["edge"] \in {"idle", "validate", "call"} => pc[r]["app"] = "idle"
  /\ pc[r]["app"] \in {"idle", "run"} =>
       /\ pc[r]["edge"] \notin {"copy", "flush"}
       /\ body[r] = NoBody /\ head[r]["app"] = NoHead
       /\ held[r]["edge"].written = 0 /\ wire[r]["app"] = <<>>
  /\ pc[r]["app"] \in {"idle", "run", "write"} => fin[r]["app"] # "clean"
  /\ pc[r]["app"] = "idle" => fin[r]["app"] = "open"
  /\ pc[r]["edge"] \in {"idle", "validate", "call", "await"}
     => held[r]["edge"] = Unwritten

\* Whose status line is where.
Says(r) ==
  /\ \A l \in Links : Tells(pc[r], head[r][l])
  /\ \A h \in Hops : Tells(pc[r], held[r][h].head)
  /\ head[r]["app"].by \notin Hops /\ held[r]["edge"].head.by \notin Hops
  /\ head[r]["p2p"].by # "proxy" /\ held[r]["proxy"].head.by # "proxy"
  /\ pc[r]["edge"] \in {"copy", "flush"} => held[r]["edge"].head.by = "app"
  /\ held[r]["proxy"].head.by = "app" => head[r]["p2p"].by = "app"
  /\ head[r]["p2p"].by = "app" => pc[r]["edge"] \in {"copy", "flush", "done"}

\* A link is cut by the environment, or ends short because the one before it
\* did or because a line was dropped.
Causes(r) ==
  /\ fin[r]["app"] = "broken" => "app" \in fault[r]
  /\ fin[r]["app"] # "short"
  /\ fin[r]["p2p"] = "broken" => fault[r] \cap {"p2p", "app"} # {}
  /\ fin[r]["p2p"] = "short" => "app" \in fault[r] \/ LosesLine(r)
  /\ fin[r]["cli"] \in {"broken", "short"} => fault[r] # {} \/ LosesLine(r)

\* The pieces of the answer, and what passed when a link ended in order.
Counts(r) ==
  /\ Emitted(r) <= body[r].pieces
  /\ held[r]["edge"].written <= Whole(r)
  /\ body[r].tail => body[r].kind = "sse" /\ body[r].pieces > 0
  /\ fin[r]["app"] = "clean" => Emitted(r) = body[r].pieces

EdgeEnded(r) ==
  /\ fin[r]["p2p"] \in {"clean", "short"} =>
       pc[r]["edge"] = "done" /\ held[r]["edge"].data = <<>>
  /\ fin[r]["p2p"] = "clean" =>
    /\ \/ ~body[r].sized
       \/ held[r]["edge"].written = body[r].pieces
       \/ fault[r] # {}
    /\ \/ head[r]["p2p"].by # "app"
       \/ held[r]["edge"].written = Whole(r)
       \/ "app" \in fault[r]

ProxyEnded(r) ==
  /\ fin[r]["cli"] \in {"clean", "short"} => pc[r]["proxy"] = "done"
  /\ fin[r]["cli"] = "clean" =>
       \/ head[r]["cli"].by # "app"
       \/ Len(wire[r]["cli"]) = Whole(r)
       \/ ~body[r].sized /\ fault[r] \cap {"p2p", "app"} # {}

Ends(r) ==
  Order(r) /\ Says(r) /\ Causes(r) /\ Counts(r) /\ EdgeEnded(r) /\ ProxyEnded(r)

EndInv == TypeOK /\ StreamInv /\ \A r \in Requests : Ends(r)

LEMMA EndTypes ==
  ASSUME EndInv, NEW r \in Requests
  PROVE  FlowOK /\ RestOK /\ Stream(r) /\ Ends(r)
BY TypeSplit DEF EndInv, StreamInv

-----------------------------------------------------------------------------
(* What a step leaves as it is. *)

\* A request of which nothing changes that Ends speaks of, but that more may
\* have befallen it.
Untouched(q) ==
  /\ pc'[q] = pc[q] /\ head'[q] = head[q] /\ wire'[q] = wire[q]
  /\ fin'[q] = fin[q] /\ held'[q] = held[q] /\ body'[q] = body[q]
  /\ fault[q] \subseteq fault'[q]

LEMMA UntouchedEnds ==
  ASSUME NEW q, Ends(q), Untouched(q)
  PROVE  Ends(q)'
<1> USE DEF Ends, Untouched
<1>1. Order(q)'
  BY DEF Order
<1>2. Says(q)'
  BY DEF Says
<1>3. Causes(q)'
  BY DEF Causes, LosesLine
<1>4. Whole(q)' = Whole(q) /\ Emitted(q)' = Emitted(q)
  BY DEF Whole, Emitted
<1>5. Counts(q)'
  BY <1>4 DEF Counts
<1>6. EdgeEnded(q)'
  BY <1>4 DEF EdgeEnded
<1>7. ProxyEnded(q)'
  BY <1>4 DEF ProxyEnded
<1> QED BY <1>1, <1>2, <1>3, <1>5, <1>6, <1>7

\* All that Put does.
LEMMA PutGives ==
  ASSUME FlowOK, NEW r \in Requests, NEW l \in Links, NEW status, NEW pieces,
         NEW end, Put(r, l, status, pieces, end)
  PROVE  /\ \A q \in Requests \ {r} :
              head'[q] = head[q] /\ wire'[q] = wire[q] /\ fin'[q] = fin[q]
         /\ \A m \in Links \ {l} :
              head'[r][m] = head[r][m] /\ wire'[r][m] = wire[r][m] /\ fin'[r][m] = fin[r][m]
         /\ Closed(r, l) => head'[r] = head[r] /\ wire'[r] = wire[r] /\ fin'[r] = fin[r]
         /\ ~Closed(r, l) => /\ head'[r][l] = status
                             /\ wire'[r][l] = wire[r][l] \o pieces
                             /\ fin'[r][l] = end
<1>1. CASE Closed(r, l)
  BY <1>1 DEF Put
<1>2. CASE ~Closed(r, l)
  BY <1>2 DEF Put, FlowOK
<1> QED BY <1>1, <1>2

\* All that Goto does.
LEMMA GotoGives ==
  ASSUME FlowOK, NEW r \in Requests, NEW t \in Threads, NEW label, Goto(r, t, label)
  PROVE  /\ \A q \in Requests \ {r} : pc'[q] = pc[q]
         /\ \A u \in Threads \ {t} : pc'[r][u] = pc[r][u]
         /\ pc'[r][t] = label
BY DEF Goto, FlowOK

\* What the threads of a request do to each other's histories.
Forward(p, q) ==
  /\ p["app"] \notin {"idle", "run"} => q["app"] \notin {"idle", "run"}
  /\ p["edge"] = "done" => q["edge"] = "done" /\ (p["app"] = "idle" => q["app"] = "idle")
  /\ p["proxy"] = "done" => q["proxy"] = "done" /\ (p["edge"] = "idle" => q["edge"] = "idle")

LEMMA TellsForward ==
  \A p, q, status : Tells(p, status) /\ Forward(p, q) => Tells(q, status)
BY DEF Tells, Forward

\* A step that writes no status line.
LEMMA SaysKept ==
  ASSUME FlowOK, NEW r \in Requests, Says(r), Forward(pc[r], pc'[r]),
         head'[r] = head[r],
         \A h \in Hops : held'[r][h].head = held[r][h].head,
         pc'[r]["edge"] \in {"copy", "flush"} => pc[r]["edge"] \in {"copy", "flush"},
         pc[r]["edge"] \in {"copy", "flush", "done"} => pc'[r]["edge"] \in {"copy", "flush", "done"}
  PROVE  Says(r)'
<1>1. \A l \in Links : Tells(pc'[r], head'[r][l])
  BY TellsForward DEF Says
<1>2. \A h \in Hops : Tells(pc'[r], held'[r][h].head)
  BY TellsForward DEF Says
<1> QED BY <1>1, <1>2 DEF Says, Hops

-----------------------------------------------------------------------------
(* The proxy's handler until it waits for the edge node. *)

BeforeDial == {"idle", "middleware", "auth", "handle", "dial"}

LEMMA ProxyMoves ==
  ASSUME EndInv, NEW r \in Requests, NEW label \in BeforeDial,
         pc[r]["proxy"] \in BeforeDial, Goto(r, "proxy", label),
         UNCHANGED <<flow, body, fault>>
  PROVE  Ends(r)'
<1>1. FlowOK /\ Ends(r)
  BY EndTypes
<1>2. /\ pc'[r]["proxy"] = label
      /\ pc'[r]["edge"] = pc[r]["edge"] /\ pc'[r]["app"] = pc[r]["app"]
  BY <1>1, GotoGives DEF Threads, Hops
<1>3. UNCHANGED <<head, wire, fin, held>>
  BY DEF flow
<1>4. Order(r)'
  BY <1>1, <1>2, <1>3 DEF Ends, Order, BeforeDial
<1>5. Says(r)'
  <2>1. Forward(pc[r], pc'[r])
    BY <1>2 DEF Forward, BeforeDial
  <2> QED BY <1>1, <1>2, <1>3, <2>1, SaysKept DEF Ends
<1>6. Causes(r)'
  BY <1>1, <1>3 DEF Ends, Causes, LosesLine
<1>7. Counts(r)' /\ EdgeEnded(r)'
  BY <1>1, <1>2, <1>3 DEF Ends, Counts, EdgeEnded, Emitted, Whole
<1>8. ProxyEnded(r)'
  BY <1>1, <1>2, <1>3 DEF Ends, ProxyEnded, BeforeDial
<1> QED BY <1>4, <1>5, <1>6, <1>7, <1>8 DEF Ends

\* The proxy ends a request that it did not send on.
LEMMA ProxyReplies ==
  ASSUME EndInv, NEW r \in Requests, NEW code, pc[r]["proxy"] \in BeforeDial,
         Reply(r, "proxy", code), UNCHANGED <<body, fault>>
  PROVE  Ends(r)'
<1>1. FlowOK /\ Ends(r)
  BY EndTypes
<1>2. /\ pc'[r]["proxy"] = "done"
      /\ pc'[r]["edge"] = pc[r]["edge"] /\ pc'[r]["app"] = pc[r]["app"]
      /\ pc[r]["edge"] = "idle" /\ pc[r]["proxy"] # "done"
  BY <1>1, GotoGives DEF Reply, Threads, Hops, Ends, Order, BeforeDial
<1>3. /\ held' = held
      /\ \A l \in {"app", "p2p"} :
           head'[r][l] = head[r][l] /\ wire'[r][l] = wire[r][l] /\ fin'[r][l] = fin[r][l]
      /\ \/ head'[r] = head[r] /\ wire'[r] = wire[r] /\ fin'[r] = fin[r]
         \/ head'[r]["cli"] = Answer("proxy", code) /\ fin'[r]["cli"] = "clean"
  BY <1>1, PutGives DEF Reply, Links, Out, Hops
<1>4. Order(r)'
  BY <1>1, <1>2, <1>3 DEF Ends, Order, BeforeDial
<1>5. Says(r)'
  <2>1. Forward(pc[r], pc'[r])
    BY <1>2 DEF Forward
  <2>2. \A l \in {"app", "p2p"} : Tells(pc'[r], head'[r][l])
    BY <1>1, <1>3, <2>1, TellsForward DEF Ends, Says, Links
  <2>3. Tells(pc'[r], head'[r]["cli"])
    <3>1. CASE head'[r] = head[r]
      BY <1>1, <2>1, <3>1, TellsForward DEF Ends, Says, Links
    <3>2. CASE head'[r]["cli"] = Answer("proxy", code)
      BY <1>2, <3>2 DEF Tells, Answer
    <3> QED BY <1>3, <3>1, <3>2
  <2>4. \A h \in Hops : Tells(pc'[r], held'[r][h].head)
    BY <1>1, <1>3, <2>1, TellsForward DEF Ends, Says
  <2> QED BY <1>1, <1>2, <1>3, <2>2, <2>3, <2>4 DEF Ends, Says, Links
<1>6. Causes(r)'
  BY <1>1, <1>3 DEF Ends, Causes, LosesLine
<1>7. Counts(r)' /\ EdgeEnded(r)'
  BY <1>1, <1>2, <1>3 DEF Ends, Counts, EdgeEnded, Emitted, Whole
<1>8. ProxyEnded(r)'
  BY <1>1, <1>2, <1>3 DEF Ends, ProxyEnded, Answer
<1> QED BY <1>4, <1>5, <1>6, <1>7, <1>8 DEF Ends

\* The proxy panics: there is a cause, and the client gets no clean end.
LEMMA ProxyPanics ==
  ASSUME EndInv, NEW r \in Requests, pc[r]["proxy"] \in BeforeDial \cup {"await"},
         Panic(r, "proxy"), body' = body, fault[r] \subseteq fault'[r], fault'[r] # {}
  PROVE  Ends(r)'
<1>1. FlowOK /\ Ends(r)
  BY EndTypes
<1>2. /\ pc'[r]["proxy"] = "done"
      /\ pc'[r]["edge"] = pc[r]["edge"] /\ pc'[r]["app"] = pc[r]["app"]
      /\ pc[r]["proxy"] # "done"
  BY <1>1, GotoGives DEF Panic, Threads, Hops, BeforeDial
<1>3. /\ held'[r]["edge"] = held[r]["edge"] /\ held'[r]["proxy"] = Unwritten
      /\ \A l \in {"app", "p2p"} : wire'[r][l] = wire[r][l] /\ fin'[r][l] = fin[r][l]
      /\ head'[r] = head[r]
      /\ fin'[r] = fin[r] \/ fin'[r]["cli"] = "broken"
  <2>1. held'[r]["edge"] = held[r]["edge"] /\ held'[r]["proxy"] = Unwritten
    BY <1>1 DEF Panic, FlowOK, Hops
  <2>2. Put(r, "cli", head[r]["cli"], <<>>, "broken")
    BY DEF Panic, Out, Hops
  <2>3. \A l \in Links : head'[r][l] = head[r][l]
    BY <1>1, <2>2, PutGives DEF Links
  <2>4. head'[r] = head[r]
    <3>1. CASE Closed(r, "cli")
      BY <1>1, <2>2, <3>1, PutGives DEF Links
    <3>2. CASE ~Closed(r, "cli")
      BY <1>1, <2>2, <3>2 DEF Put, FlowOK
    <3> QED BY <3>1, <3>2
  <2> QED BY <1>1, <2>1, <2>2, <2>4, PutGives DEF Links
<1>4. Order(r)'
  BY <1>1, <1>2, <1>3 DEF Ends, Order
<1>5. Says(r)'
  <2>1. Forward(pc[r], pc'[r])
    BY <1>2 DEF Forward
  <2>2. \A l \in Links : Tells(pc'[r], head'[r][l])
    BY <1>1, <1>3, <2>1, TellsForward DEF Ends, Says
  <2>3. Tells(pc'[r], held'[r]["edge"].head)
    BY <1>1, <1>3, <2>1, TellsForward DEF Ends, Says, Hops
  <2>4. Tells(pc'[r], held'[r]["proxy"].head) /\ held'[r]["proxy"].head.by = "none"
    BY <1>3 DEF Tells, Unwritten, NoHead
  <2> QED BY <1>1, <1>2, <1>3, <2>2, <2>3, <2>4 DEF Ends, Says, Hops
<1>6. Causes(r)'
  BY <1>1, <1>3 DEF Ends, Causes, LosesLine
<1>7. Counts(r)' /\ EdgeEnded(r)'
  <2>1. Whole(r)' = Whole(r) /\ Emitted(r)' = Emitted(r)
    BY <1>3 DEF Whole, Emitted
  <2> QED BY <1>1, <1>2, <1>3, <2>1 DEF Ends, Counts, EdgeEnded
<1>8. ProxyEnded(r)'
  BY <1>1, <1>2, <1>3 DEF Ends, ProxyEnded
<1> QED BY <1>4, <1>5, <1>6, <1>7, <1>8 DEF Ends

-----------------------------------------------------------------------------
(* The edge node's handler until it copies. *)

\* The stream opens.
LEMMA EdgeStarts ==
  ASSUME EndInv, NEW r \in Requests, DialOpens(r)
  PROVE  Ends(r)'
<1>1. FlowOK /\ Ends(r)
  BY EndTypes
<1>2. /\ pc[r]["proxy"] = "dial" /\ pc[r]["edge"] = "idle"
      /\ pc'[r]["proxy"] = "await" /\ pc'[r]["edge"] = "validate"
      /\ pc'[r]["app"] = pc[r]["app"] /\ pc[r]["app"] = "idle"
  BY <1>1 DEF DialOpens, FlowOK, Threads, Hops, Ends, Order
<1>3. UNCHANGED <<head, wire, fin, held, body, fault>>
  BY DEF DialOpens, flow, local
<1>4. Order(r)'
  BY <1>1, <1>2, <1>3 DEF Ends, Order
<1>5. Says(r)'
  <2>1. Forward(pc[r], pc'[r])
    BY <1>2 DEF Forward
  <2> QED BY <1>1, <1>2, <1>3, <2>1, SaysKept DEF Ends
<1>6. Causes(r)'
  BY <1>1, <1>3 DEF Ends, Causes, LosesLine
<1>7. Counts(r)' /\ EdgeEnded(r)' /\ ProxyEnded(r)'
  BY <1>1, <1>2, <1>3 DEF Ends, Counts, EdgeEnded, ProxyEnded, Emitted, Whole
<1> QED BY <1>4, <1>5, <1>6, <1>7 DEF Ends

\* The handler goes on, and may start the application.
LEMMA EdgeMoves ==
  ASSUME EndInv, NEW r \in Requests, UNCHANGED <<flow, body, fault>>,
         pc'[r]["proxy"] = pc[r]["proxy"], pc[r]["app"] = "idle",
         \/ /\ pc[r]["edge"] = "validate" /\ pc'[r]["edge"] = "call"
            /\ pc'[r]["app"] = "idle"
         \/ /\ pc[r]["edge"] = "call" /\ pc'[r]["edge"] = "await"
            /\ pc'[r]["app"] = "run"
  PROVE  Ends(r)'
<1>1. FlowOK /\ Ends(r)
  BY EndTypes
<1>2. UNCHANGED <<head, wire, fin, held>>
  BY DEF flow
<1>3. Order(r)'
  BY <1>1, <1>2 DEF Ends, Order
<1>4. Says(r)'
  <2>1. Forward(pc[r], pc'[r])
    BY <1>1 DEF Forward, Ends, Order
  <2> QED BY <1>1, <1>2, <2>1, SaysKept DEF Ends
<1>5. Causes(r)'
  BY <1>1, <1>2 DEF Ends, Causes, LosesLine
<1>6. Counts(r)' /\ EdgeEnded(r)' /\ ProxyEnded(r)'
  BY <1>1, <1>2 DEF Ends, Counts, EdgeEnded, ProxyEnded, Emitted, Whole
<1> QED BY <1>3, <1>4, <1>5, <1>6 DEF Ends

\* The edge node ends a request: the application was not asked, or it died and
\* the answer is 502.
LEMMA EdgeReplies ==
  ASSUME EndInv, NEW r \in Requests, NEW code, Reply(r, "edge", code),
         UNCHANGED <<body, fault>>,
         \/ pc[r]["edge"] \in {"validate", "call"}
         \/ pc[r]["edge"] = "await" /\ code = 502 /\ fin[r]["app"] = "broken"
  PROVE  Ends(r)'
<1>1. FlowOK /\ Ends(r)
  BY EndTypes
<1>2. /\ pc'[r]["edge"] = "done" /\ pc[r]["edge"] # "done"
      /\ pc'[r]["proxy"] = pc[r]["proxy"] /\ pc'[r]["app"] = pc[r]["app"]
      /\ code = 502 \/ pc[r]["app"] = "idle"
      /\ fault[r] # {} \/ ~body[r].sized
      /\ held[r]["edge"].data = <<>>
  BY <1>1, GotoGives
     DEF Reply, Threads, Hops, Ends, Order, Causes, NoBody, Unwritten
<1>3. /\ held' = held
      /\ \A l \in {"app", "cli"} :
           head'[r][l] = head[r][l] /\ wire'[r][l] = wire[r][l] /\ fin'[r][l] = fin[r][l]
      /\ \/ head'[r] = head[r] /\ wire'[r] = wire[r] /\ fin'[r] = fin[r]
         \/ head'[r]["p2p"] = Answer("edge", code) /\ fin'[r]["p2p"] = "clean"
  BY <1>1, PutGives DEF Reply, Links, Out, Hops
<1>4. Order(r)'
  BY <1>1, <1>2, <1>3 DEF Ends, Order
<1>5. Says(r)'
  <2>1. Forward(pc[r], pc'[r])
    BY <1>2 DEF Forward
  <2>2. \A l \in {"app", "cli"} : Tells(pc'[r], head'[r][l])
    BY <1>1, <1>3, <2>1, TellsForward DEF Ends, Says, Links
  <2>3. /\ Tells(pc'[r], head'[r]["p2p"])
        /\ head'[r]["p2p"].by # "proxy" /\ head'[r]["p2p"].by # "app"
    <3>1. head[r]["p2p"].by # "app"
      BY <1>1, <1>2 DEF Ends, Says
    <3>2. CASE head'[r] = head[r]
      BY <1>1, <2>1, <3>1, <3>2, TellsForward DEF Ends, Says, Links
    <3>3. CASE head'[r]["p2p"] = Answer("edge", code)
      BY <1>2, <3>3 DEF Tells, Answer
    <3> QED BY <1>3, <3>2, <3>3
  <2>4. \A h \in Hops : Tells(pc'[r], held'[r][h].head)
    BY <1>1, <1>3, <2>1, TellsForward DEF Ends, Says
  <2>5. held'[r]["proxy"].head.by # "app"
    BY <1>1, <1>2, <1>3 DEF Ends, Says
  <2> QED BY <1>1, <1>2, <1>3, <2>2, <2>3, <2>4, <2>5 DEF Ends, Says, Links
<1>6. Causes(r)'
  BY <1>1, <1>3 DEF Ends, Causes, LosesLine
<1>7. Counts(r)' /\ ProxyEnded(r)'
  BY <1>1, <1>2, <1>3 DEF Ends, Counts, ProxyEnded, Emitted, Whole
<1>8. EdgeEnded(r)'
  BY <1>1, <1>2, <1>3 DEF Ends, EdgeEnded, Answer
<1> QED BY <1>4, <1>5, <1>6, <1>7, <1>8 DEF Ends

-----------------------------------------------------------------------------
(* The copy loop of both handlers. *)

LEMMA BodyFacts ==
  ASSUME FlowOK, NEW r \in Requests
  PROVE  /\ body[r].pieces \in Nat
         /\ Whole(r) = IF body[r].kind = "sse" /\ body[r].tail
                       THEN body[r].pieces - 1 ELSE body[r].pieces
<1>1. body[r] \in Bodies \cup {NoBody}
  BY DEF FlowOK
<1>2. body[r].pieces \in Nat
  BY <1>1, BoundAssumption DEF Bodies, NoBody
<1> QED BY <1>2 DEF Whole

\* A step of a handler that copies, of which only status lines and the end of
\* its outgoing link matter.
LEMMA HeadCopied ==
  ASSUME EndInv, NEW r \in Requests, NEW h \in Hops, CopyHead(r, h)
  PROVE  Ends(r)'
<1>1. FlowOK /\ Ends(r)
  BY EndTypes
<1>2. /\ \A u \in Threads \ {h} : pc'[r][u] = pc[r][u]
      /\ pc[r][h] = "await" /\ pc'[r][h] = "copy"
  BY <1>1, HopLinks, GotoGives DEF CopyHead
<1>3. /\ UNCHANGED <<head, wire, fin, body, fault>>
      /\ \A g \in Hops \ {h} : held'[r][g] = held[r][g]
      /\ held'[r][h].head = head[r][In[h]]
      /\ held'[r][h].data = held[r][h].data /\ held'[r][h].written = held[r][h].written
  BY <1>1 DEF CopyHead, local, FlowOK, Writers
<1>4. /\ pc'[r]["app"] = pc[r]["app"]
      /\ h = "edge" => /\ pc[r]["edge"] = "await" /\ pc'[r]["edge"] = "copy"
                       /\ pc'[r]["proxy"] = pc[r]["proxy"]
      /\ h = "proxy" => /\ pc[r]["proxy"] = "await" /\ pc'[r]["proxy"] = "copy"
                        /\ pc'[r]["edge"] = pc[r]["edge"]
  BY <1>2 DEF Threads, Hops
<1>5. Forward(pc[r], pc'[r])
  BY <1>4 DEF Forward, Hops
<1>6. In[h] \in Links /\ (h = "edge" => In[h] = "app") /\ (h = "proxy" => In[h] = "p2p")
  BY DEF In, Hops, Links
<1>7. h = "edge" => head[r]["app"].by = "app"
  <2>1. head[r]["app"] \in Statuses \cup {NoHead}
    BY <1>1 DEF FlowOK, Links, Lines
  <2>2. h = "edge" => head[r]["app"] # NoHead
    BY <1>6 DEF CopyHead
  <2>3. head[r]["app"] # NoHead => head[r]["app"].by \in Hops \cup {"app"}
    BY <2>1 DEF Statuses
  <2> QED BY <1>1, <2>2, <2>3 DEF Ends, Says
<1>8. Order(r)'
  <2>1. h = "edge" => pc[r]["app"] \notin {"idle", "run"}
    BY <1>1, <1>7 DEF Ends, Says, Tells, Links
  <2>2. CASE h = "edge"
    BY <1>1, <1>3, <1>4, <2>1, <2>2 DEF Ends, Order
  <2>3. CASE h = "proxy"
    <3>1. held'[r]["edge"] = held[r]["edge"]
      BY <1>3, <2>3 DEF Hops
    <3> QED BY <1>1, <1>3, <1>4, <2>3, <3>1 DEF Ends, Order
  <2> QED BY <2>2, <2>3 DEF Hops
<1>9. Says(r)'
  <2>1. \A l \in Links : Tells(pc'[r], head'[r][l])
    BY <1>1, <1>3, <1>5, TellsForward DEF Ends, Says
  <2>2. \A g \in Hops : Tells(pc'[r], held'[r][g].head)
    BY <1>1, <1>3, <1>5, <1>6, TellsForward DEF Ends, Says
  <2>3. CASE h = "edge"
    <3>1. held'[r]["proxy"] = held[r]["proxy"] /\ held'[r]["edge"].head = head[r]["app"]
      BY <1>3, <1>6, <2>3 DEF Hops
    <3> QED BY <1>1, <1>3, <1>4, <1>7, <2>1, <2>2, <2>3, <3>1 DEF Ends, Says, Hops
  <2>4. CASE h = "proxy"
    <3>1. held'[r]["edge"] = held[r]["edge"] /\ held'[r]["proxy"].head = head[r]["p2p"]
      BY <1>3, <1>6, <2>4 DEF Hops
    <3> QED BY <1>1, <1>3, <1>4, <2>1, <2>2, <2>4, <3>1 DEF Ends, Says
  <2> QED BY <2>3, <2>4 DEF Hops
<1>10. Causes(r)'
  BY <1>1, <1>3 DEF Ends, Causes, LosesLine
<1>11. \A g \in Hops : held'[r][g].data = held[r][g].data
                       /\ held'[r][g].written = held[r][g].written
  BY <1>3
<1>12. Whole(r)' = Whole(r) /\ Emitted(r)' = Emitted(r)
  BY <1>3, <1>11 DEF Whole, Emitted, Hops
<1>13. Counts(r)'
  BY <1>1, <1>3, <1>11, <1>12 DEF Ends, Counts, Hops
<1>14. EdgeEnded(r)'
  BY <1>1, <1>3, <1>4, <1>11, <1>12 DEF Ends, EdgeEnded, Hops
<1>15. ProxyEnded(r)'
  BY <1>1, <1>3, <1>4, <1>12 DEF Ends, ProxyEnded, Hops
<1> QED BY <1>8, <1>9, <1>10, <1>13, <1>14, <1>15 DEF Ends

\* The copy of a piece: the last line of an event stream is not written unless
\* it ends.
LEMMA PieceCopied ==
  ASSUME EndInv, NEW r \in Requests, NEW h \in Hops, CopyPiece(r, h)
  PROVE  Ends(r)'
<1> DEFINE in == wire[r][In[h]]
           w == held[r][h]
<1>1. FlowOK /\ Ends(r) /\ Stream(r)
  BY EndTypes
<1>2. /\ held' = [held EXCEPT ![r][h] = Written(w, Head(in))]
      /\ wire' = [wire EXCEPT ![r][In[h]] = Tail(in)]
      /\ Goto(r, h, AfterWrite(r))
      /\ pc[r][h] = "copy" /\ AfterWrite(r) \in {"copy", "flush"}
      /\ UNCHANGED <<head, fin, body, fault>>
      /\ in # <<>> /\ ~Unterminated(r, Head(in))
  BY DEF CopyPiece, local, AfterWrite
<1>3. In[h] \in Links /\ h \in Threads /\ in \in Pieces /\ w.written \in Nat
  BY <1>1, StreamTypes, HopLinks
<1>4. /\ held'[r][h] = Written(w, Head(in))
      /\ \A g \in Hops \ {h} : held'[r][g] = held[r][g]
      /\ wire'[r][In[h]] = Tail(in)
      /\ \A l \in Links \ {In[h]} : wire'[r][l] = wire[r][l]
  BY <1>1, <1>2, <1>3 DEF FlowOK
<1>5. \A g \in Hops : held'[r][g].head = held[r][g].head
  BY <1>4 DEF Written
<1>6. /\ pc'[r]["app"] = pc[r]["app"]
      /\ h = "edge" => /\ pc[r]["edge"] = "copy" /\ pc'[r]["edge"] \in {"copy", "flush"}
                       /\ pc'[r]["proxy"] = pc[r]["proxy"]
      /\ h = "proxy" => /\ pc[r]["proxy"] = "copy" /\ pc'[r]["proxy"] \in {"copy", "flush"}
                        /\ pc'[r]["edge"] = pc[r]["edge"]
  BY <1>1, <1>2, <1>3, GotoGives DEF Threads, Hops
<1>7. Says(r)'
  <2>1. Forward(pc[r], pc'[r])
    BY <1>6 DEF Forward, Hops
  <2>2. /\ pc'[r]["edge"] \in {"copy", "flush"} => pc[r]["edge"] \in {"copy", "flush"}
        /\ pc[r]["edge"] \in {"copy", "flush", "done"} => pc'[r]["edge"] \in {"copy", "flush", "done"}
    BY <1>6 DEF Hops
  <2>3. head'[r] = head[r] /\ Says(r)
    BY <1>1, <1>2 DEF Ends
  <2> QED BY <1>1, <1>5, <2>1, <2>2, <2>3, SaysKept
<1>8. Causes(r)'
  BY <1>1, <1>2 DEF Ends, Causes, LosesLine
<1>9. Whole(r)' = Whole(r)
  BY <1>2 DEF Whole
<1>10. ProxyEnded(r)'
  <2>1. fin[r]["cli"] \in {"clean", "short"} =>
          pc[r]["proxy"] = "done" /\ pc'[r]["proxy"] = "done"
    BY <1>1, <1>6 DEF Ends, ProxyEnded, Hops
  <2>2. wire'[r]["cli"] = wire[r]["cli"]
    BY <1>4 DEF In, Hops, Links
  <2> QED BY <1>1, <1>2, <1>9, <2>1, <2>2 DEF Ends, ProxyEnded
<1>11. CASE h = "proxy"
  <2>1. held'[r]["edge"] = held[r]["edge"] /\ wire'[r]["app"] = wire[r]["app"]
    BY <1>4, <1>11 DEF In, Hops, Links
  <2>2. Emitted(r)' = Emitted(r)
    BY <2>1 DEF Emitted
  <2>3. Order(r)'
    BY <1>1, <1>2, <1>6, <1>11, <2>1 DEF Ends, Order
  <2>4. Counts(r)' /\ EdgeEnded(r)'
    BY <1>1, <1>2, <1>6, <1>9, <1>11, <2>1, <2>2 DEF Ends, Counts, EdgeEnded
  <2> QED BY <1>7, <1>8, <1>10, <2>3, <2>4 DEF Ends
<1>12. CASE h = "edge"
  <2>1. In[h] = "app" /\ in = wire[r]["app"] /\ w = held[r]["edge"]
    BY <1>12 DEF In, Hops
  <2>2. held'[r]["edge"].written = w.written + 1 /\ wire'[r]["app"] = Tail(in)
    BY <1>4, <1>12, <2>1 DEF Written
  <2>3. Len(Tail(in)) = Len(in) - 1 /\ Len(in) > 0 /\ Len(in) \in Nat
    BY <1>2, <1>3, LenFacts
  <2>4. Emitted(r)' = Emitted(r) /\ Emitted(r) = w.written + Len(in)
    BY <1>3, <2>1, <2>2, <2>3 DEF Emitted
  <2>5. Head(in) = w.written + 1
    BY <1>1, <1>2, <1>3, <2>1, AfterFacts DEF Stream, Hops
  <2>6. held'[r]["edge"].written <= Whole(r)
    <3>1. w.written + Len(in) <= body[r].pieces
      BY <1>1, <2>4 DEF Ends, Counts
    <3>2. w.written + 1 <= body[r].pieces
      BY <1>1, <1>3, <2>3, <3>1, BodyFacts
    <3>3. body[r].kind = "sse" /\ body[r].tail => w.written + 1 # body[r].pieces
      BY <1>2, <2>5 DEF Unterminated
    <3> QED BY <1>1, <1>3, <2>2, <3>2, <3>3, BodyFacts
  <2>7. Order(r)'
    BY <1>1, <1>2, <1>6, <1>12 DEF Ends, Order
  <2>8. Counts(r)'
    BY <1>1, <1>2, <1>9, <2>4, <2>6 DEF Ends, Counts
  <2>9. EdgeEnded(r)'
    BY <1>1, <1>2, <1>6, <1>12 DEF Ends, EdgeEnded
  <2> QED BY <1>7, <1>8, <1>10, <2>7, <2>8, <2>9 DEF Ends
<1> QED BY <1>11, <1>12 DEF Hops

\* What the ResponseWriter of a hop puts on its link.
LEMMA Flushed ==
  ASSUME EndInv, NEW r \in Requests, NEW h \in Hops, pc[r][h] \in {"copy", "flush"},
         Flush(r, h), UNCHANGED <<body, fault>>,
         \/ UNCHANGED pc
         \/ Goto(r, h, "copy")
  PROVE  Ends(r)'
<1>1. FlowOK /\ Ends(r)
  BY EndTypes
<1>2. Out[h] \in Links /\ h \in Threads
  BY HopLinks
<1>3. /\ pc'[r]["app"] = pc[r]["app"]
      /\ h = "edge" => /\ pc[r]["edge"] \in {"copy", "flush"}
                       /\ pc'[r]["edge"] \in {"copy", "flush"}
                       /\ pc'[r]["proxy"] = pc[r]["proxy"]
      /\ h = "proxy" => /\ pc[r]["proxy"] \in {"copy", "flush"}
                        /\ pc'[r]["proxy"] \in {"copy", "flush"}
                        /\ pc'[r]["edge"] = pc[r]["edge"]
  BY <1>1, <1>2, GotoGives DEF Threads, Hops
<1>4. /\ \A g \in Hops : held'[r][g].head = held[r][g].head
                         /\ held'[r][g].written = held[r][g].written
      /\ h = "proxy" => held'[r]["edge"] = held[r]["edge"]
  BY <1>1 DEF Flush, FlowOK, Writers, Hops
<1>5. /\ \A l \in Links \ {Out[h]} :
           head'[r][l] = head[r][l] /\ wire'[r][l] = wire[r][l] /\ fin'[r][l] = fin[r][l]
      /\ \/ head'[r] = head[r] /\ fin'[r] = fin[r]
         \/ head'[r][Out[h]] = held[r][h].head /\ fin'[r][Out[h]] = "open"
  BY <1>1, <1>2, PutGives DEF Flush
<1>6. Forward(pc[r], pc'[r])
  BY <1>3 DEF Forward, Hops
<1>7. /\ h = "edge" => Out[h] = "p2p"
      /\ h = "proxy" => Out[h] = "cli"
      /\ Links = {"app", "p2p", "cli"} /\ wire'[r]["app"] = wire[r]["app"]
      /\ fin'[r]["app"] = fin[r]["app"] /\ head'[r]["app"] = head[r]["app"]
  BY <1>5 DEF Out, Hops, Links
<1>8. Order(r)'
  <2>1. h = "edge" => pc'[r]["edge"] \notin {"idle", "validate", "call", "await"}
    BY <1>3
  <2> QED BY <1>1, <1>3, <1>4, <1>7, <2>1 DEF Ends, Order, Hops
<1>9. Says(r)'
  <2>1. \A l \in Links : Tells(pc'[r], head'[r][l])
    <3> SUFFICES ASSUME NEW l \in Links PROVE Tells(pc'[r], head'[r][l])
      OBVIOUS
    <3>1. CASE head'[r][l] = head[r][l]
      BY <1>1, <1>6, <3>1, TellsForward DEF Ends, Says
    <3>2. CASE head'[r][l] = held[r][h].head
      BY <1>1, <1>6, <3>2, TellsForward DEF Ends, Says
    <3> QED BY <1>5, <3>1, <3>2
  <2>2. \A g \in Hops : Tells(pc'[r], held'[r][g].head)
    BY <1>1, <1>4, <1>6, TellsForward DEF Ends, Says
  <2>3. CASE h = "edge"
    <3>1. held[r]["edge"].head.by = "app"
      BY <1>1, <1>3, <2>3 DEF Ends, Says
    <3>2. head'[r]["p2p"] = head[r]["p2p"] \/ head'[r]["p2p"] = held[r]["edge"].head
      BY <1>5, <1>7, <2>3
    <3> QED BY <1>1, <1>3, <1>4, <1>7, <2>1, <2>2, <2>3, <3>1, <3>2 DEF Ends, Says, Hops
  <2>4. CASE h = "proxy"
    <3>1. head'[r]["p2p"] = head[r]["p2p"]
      BY <1>5, <1>7, <2>4
    <3> QED BY <1>1, <1>3, <1>4, <1>7, <2>1, <2>2, <2>4, <3>1 DEF Ends, Says, Hops
  <2> QED BY <2>3, <2>4 DEF Hops
<1>10. Causes(r)'
  <2>1. \A l \in Links : fin'[r][l] = fin[r][l] \/ fin'[r][l] = "open"
    BY <1>5
  <2> QED BY <1>1, <1>4, <2>1 DEF Ends, Causes, Links, LosesLine
<1>11. Whole(r)' = Whole(r) /\ Emitted(r)' = Emitted(r)
  BY <1>4, <1>7 DEF Whole, Emitted, Hops
<1>12. Counts(r)'
  BY <1>1, <1>4, <1>7, <1>11 DEF Ends, Counts, Hops
<1>13. EdgeEnded(r)'
  <2>1. CASE h = "edge"
    <3>1. fin[r]["p2p"] \notin {"clean", "short"}
      BY <1>1, <1>3, <2>1 DEF Ends, EdgeEnded
    <3>2. fin'[r]["p2p"] \notin {"clean", "short"}
      BY <1>5, <1>7, <2>1, <3>1
    <3> QED BY <3>2 DEF EdgeEnded
  <2>2. CASE h = "proxy"
    <3>1. head'[r]["p2p"] = head[r]["p2p"] /\ fin'[r]["p2p"] = fin[r]["p2p"]
      BY <1>5, <1>7, <2>2
    <3> QED BY <1>1, <1>3, <1>4, <1>11, <2>2, <3>1 DEF Ends, EdgeEnded
  <2> QED BY <2>1, <2>2 DEF Hops
<1>14. ProxyEnded(r)'
  <2>1. CASE h = "proxy"
    <3>1. fin[r]["cli"] \notin {"clean", "short"}
      BY <1>1, <1>3, <2>1 DEF Ends, ProxyEnded
    <3>2. fin'[r]["cli"] \notin {"clean", "short"}
      BY <1>5, <1>7, <2>1, <3>1
    <3> QED BY <3>2 DEF ProxyEnded
  <2>2. CASE h = "edge"
    <3>1. /\ head'[r]["cli"] = head[r]["cli"] /\ fin'[r]["cli"] = fin[r]["cli"]
          /\ wire'[r]["cli"] = wire[r]["cli"]
      BY <1>5, <1>7, <2>2
    <3> QED BY <1>1, <1>3, <1>11, <2>2, <3>1 DEF Ends, ProxyEnded
  <2> QED BY <2>1, <2>2 DEF Hops
<1> QED BY <1>8, <1>9, <1>10, <1>12, <1>13, <1>14 DEF Ends

\* A handler whose reader is gone returns.
LEMMA WriteFailed ==
  ASSUME EndInv, NEW r \in Requests, NEW h \in Hops, CopyWriteFails(r, h)
  PROVE  Ends(r)'
<1>1. FlowOK /\ Ends(r)
  BY EndTypes
<1>2. UNCHANGED <<head, wire, fin, held, body, fault>>
  BY DEF CopyWriteFails, local, flow
<1>3. /\ pc'[r]["app"] = pc[r]["app"]
      /\ h = "edge" => /\ pc[r]["edge"] = "copy" /\ pc'[r]["edge"] = "done"
                       /\ pc'[r]["proxy"] = pc[r]["proxy"]
      /\ h = "proxy" => /\ pc[r]["proxy"] = "copy" /\ pc'[r]["proxy"] = "done"
                        /\ pc'[r]["edge"] = pc[r]["edge"]
  BY <1>1, HopLinks, GotoGives DEF CopyWriteFails, Threads, Hops
<1>4. Order(r)'
  BY <1>1, <1>2, <1>3 DEF Ends, Order, Hops
<1>5. Says(r)'
  <2>1. Forward(pc[r], pc'[r])
    BY <1>3 DEF Forward, Hops
  <2>2. /\ pc'[r]["edge"] \in {"copy", "flush"} => pc[r]["edge"] \in {"copy", "flush"}
        /\ pc[r]["edge"] \in {"copy", "flush", "done"} => pc'[r]["edge"] \in {"copy", "flush", "done"}
    BY <1>3 DEF Hops
  <2> QED BY <1>1, <1>2, <2>1, <2>2, SaysKept DEF Ends
<1>6. Causes(r)'
  BY <1>1, <1>2 DEF Ends, Causes, LosesLine
<1>7. Whole(r)' = Whole(r) /\ Emitted(r)' = Emitted(r)
  BY <1>2 DEF Whole, Emitted
<1>8. Counts(r)' /\ EdgeEnded(r)' /\ ProxyEnded(r)'
  BY <1>1, <1>2, <1>3, <1>7 DEF Ends, Counts, EdgeEnded, ProxyEnded, Hops
<1> QED BY <1>4, <1>5, <1>6, <1>8 DEF Ends

\* When the application ended in order and the edge's handler has copied all
\* that it keeps, it has written the whole answer.
LEMMA EdgeDrained ==
  ASSUME EndInv, NEW r \in Requests, fin[r]["app"] = "clean",
         \A i \in DOMAIN wire[r]["app"] : Unterminated(r, wire[r]["app"][i])
  PROVE  /\ held[r]["edge"].written = Whole(r)
         /\ body[r].sized /\ ~LosesLine(r) => held[r]["edge"].written = body[r].pieces
<1> DEFINE s == wire[r]["app"]
           n == held[r]["edge"].written
           last == body[r].pieces
<1>1. FlowOK /\ Ends(r) /\ Stream(r)
  BY EndTypes
<1>2. s \in Pieces /\ n \in Nat /\ last \in Nat
  BY <1>1, StreamTypes, BodyFacts DEF Links, Hops
<1>3. n + Len(s) = last /\ n <= Whole(r)
  BY <1>1 DEF Ends, Counts, Emitted
<1>4. After(s, n)
  BY <1>1 DEF Stream, In, Hops
<1>5. Len(s) \in Nat /\ DOMAIN s = 1..Len(s)
  BY <1>2, LenFacts, LenProperties DEF Pieces
<1>6. CASE body[r].kind = "sse" /\ body[r].tail
  <2>1. Whole(r) = last - 1
    BY <1>6 DEF Whole
  <2>2. Len(s) < 2
    <3> SUFFICES ASSUME Len(s) >= 2 PROVE FALSE
      BY <1>5
    <3>1. 1 \in DOMAIN s /\ 2 \in DOMAIN s
      BY <1>5
    <3>2. s[1] = last /\ s[2] = last
      BY <3>1 DEF Unterminated
    <3>3. s[1] = n + 1 /\ s[2] = n + 2
      BY <1>4, <3>1 DEF After
    <3> QED BY <1>2, <3>2, <3>3
  <2>3. body[r].sized => LosesLine(r)
    BY <1>6 DEF LosesLine
  <2> QED BY <1>2, <1>3, <1>5, <1>6, <2>1, <2>2, <2>3
<1>7. CASE ~(body[r].kind = "sse" /\ body[r].tail)
  <2>1. Whole(r) = last
    BY <1>7 DEF Whole
  <2>2. Len(s) = 0
    <3> SUFFICES ASSUME Len(s) > 0 PROVE FALSE
      BY <1>5
    <3>1. 1 \in DOMAIN s
      BY <1>5
    <3> QED BY <1>7, <3>1 DEF Unterminated
  <2> QED BY <1>2, <1>3, <1>5, <2>1, <2>2
<1> QED BY <1>6, <1>7

\* What is on the stream between the nodes is never the line that is dropped.
LEMMA ProxyDrained ==
  ASSUME EndInv, NEW r \in Requests, ~Closed(r, "p2p"),
         held[r]["edge"].data = <<>>,
         \A i \in DOMAIN wire[r]["p2p"] : Unterminated(r, wire[r]["p2p"][i])
  PROVE  held[r]["proxy"].written = held[r]["edge"].written
<1> DEFINE s == wire[r]["p2p"]
           n == held[r]["proxy"].written
           m == held[r]["edge"].written
<1>1. FlowOK /\ Ends(r) /\ Stream(r)
  BY EndTypes
<1>2. s \in Pieces /\ n \in Nat /\ m \in Nat /\ body[r].pieces \in Nat
  BY <1>1, StreamTypes, BodyFacts DEF Links, Hops
<1>3. n + Len(s) = m /\ m <= Whole(r)
  <2>1. n + Len(s) + Len(held[r]["edge"].data) = m
    BY <1>1 DEF Stream
  <2>2. Len(held[r]["edge"].data) = 0
    BY LenFacts
  <2>3. n + Len(s) \in Nat
    BY <1>2, LenFacts
  <2> QED BY <1>1, <2>1, <2>2, <2>3 DEF Ends, Counts
<1>4. After(s, n)
  BY <1>1 DEF Stream, In, Hops
<1>5. Len(s) \in Nat /\ DOMAIN s = 1..Len(s)
  BY <1>2, LenFacts, LenProperties DEF Pieces
<1>6. Len(s) = 0
  <2> SUFFICES ASSUME Len(s) > 0 PROVE FALSE
    BY <1>5
  <2>1. 1 \in DOMAIN s
    BY <1>5
  <2>2. s[1] = n + 1 /\ n + 1 <= m
    BY <1>2, <1>3, <1>4, <1>5, <2>1 DEF After
  <2>3. body[r].kind = "sse" /\ body[r].tail /\ s[1] = body[r].pieces
    BY <2>1 DEF Unterminated
  <2>4. Whole(r) = body[r].pieces - 1
    BY <2>3 DEF Whole
  <2> QED BY <1>2, <1>3, <2>2, <2>3, <2>4
<1> QED BY <1>2, <1>3, <1>6

LEMMA EdgeCopyEnds ==
  ASSUME EndInv, NEW r \in Requests, CopyEnds(r, "edge")
  PROVE  Ends(r)'
<1>1. FlowOK /\ Ends(r)
  BY EndTypes
<1>2. /\ pc[r]["edge"] = "copy" /\ pc'[r]["edge"] = "done"
      /\ pc'[r]["proxy"] = pc[r]["proxy"] /\ pc'[r]["app"] = pc[r]["app"]
      /\ UNCHANGED <<body, fault>>
  BY <1>1, GotoGives DEF CopyEnds, local, Threads, Hops
<1>3. /\ \A g \in Hops : held'[r][g].head = held[r][g].head
                         /\ held'[r][g].written = held[r][g].written
      /\ held'[r]["edge"].data = <<>>
  BY <1>1 DEF CopyEnds, FlowOK, Writers, Hops
<1>4. /\ \A l \in {"app", "cli"} :
           head'[r][l] = head[r][l] /\ wire'[r][l] = wire[r][l] /\ fin'[r][l] = fin[r][l]
      /\ \/ head'[r] = head[r] /\ fin'[r] = fin[r]
         \/ /\ head'[r]["p2p"] = held[r]["edge"].head
            /\ fin'[r]["p2p"] = IF Short(r, "edge") THEN "short" ELSE "clean"
  BY <1>1, PutGives DEF CopyEnds, Out, Hops, Links
<1>5. \/ "app" \in fault[r]
      \/ /\ held[r]["edge"].written = Whole(r)
         /\ body[r].sized /\ ~LosesLine(r) => held[r]["edge"].written = body[r].pieces
  <2>1. BodyOver(r, "edge") /\ In["edge"] = "app"
    BY DEF CopyEnds, In, Hops
  <2>2. CASE fin[r]["app"] = "broken"
    BY <1>1, <2>2 DEF Ends, Causes
  <2>3. CASE fin[r]["app"] # "broken"
    BY <1>1, <2>1, <2>3, EdgeDrained DEF BodyOver, Ends, Causes
  <2> QED BY <2>2, <2>3
<1>6. Order(r)'
  BY <1>1, <1>2, <1>3, <1>4 DEF Ends, Order, Hops
<1>7. Says(r)'
  <2>1. Forward(pc[r], pc'[r])
    BY <1>2 DEF Forward
  <2>2. held[r]["edge"].head.by = "app"
    BY <1>1, <1>2 DEF Ends, Says
  <2>3. head'[r]["p2p"] = head[r]["p2p"] \/ head'[r]["p2p"] = held[r]["edge"].head
    BY <1>4
  <2>4. \A l \in Links : Tells(pc'[r], head'[r][l])
    <3>1. \A l \in {"app", "cli"} : Tells(pc'[r], head'[r][l])
      BY <1>1, <1>4, <2>1, TellsForward DEF Ends, Says, Links
    <3>2. Tells(pc'[r], head'[r]["p2p"])
      BY <1>1, <2>1, <2>3, TellsForward DEF Ends, Says, Links, Hops
    <3> QED BY <3>1, <3>2 DEF Links
  <2>5. \A g \in Hops : Tells(pc'[r], held'[r][g].head)
    BY <1>1, <1>3, <2>1, TellsForward DEF Ends, Says
  <2> QED BY <1>1, <1>2, <1>3, <1>4, <2>2, <2>3, <2>4, <2>5 DEF Ends, Says, Hops
<1>8. Causes(r)'
  <2>1. Short(r, "edge") => "app" \in fault[r] \/ LosesLine(r)
    <3>1. held[r]["edge"].written \in Nat
      BY <1>1, StreamTypes DEF Hops
    <3> QED BY <1>5, <3>1 DEF Short
  <2>2. /\ fin'[r]["p2p"] = "broken" => fin[r]["p2p"] = "broken"
        /\ fin'[r]["p2p"] = "short" => fin[r]["p2p"] = "short" \/ Short(r, "edge")
    BY <1>4
  <2>3. LosesLine(r)' = LosesLine(r)
    BY <1>2 DEF LosesLine
  <2> QED BY <1>1, <1>2, <1>4, <2>1, <2>2, <2>3 DEF Ends, Causes
<1>9. Whole(r)' = Whole(r) /\ Emitted(r)' = Emitted(r)
  BY <1>2, <1>3, <1>4 DEF Whole, Emitted, Hops
<1>10. Counts(r)'
  BY <1>1, <1>2, <1>3, <1>4, <1>9 DEF Ends, Counts, Hops
<1>11. EdgeEnded(r)'
  <2> SUFFICES ASSUME fin'[r]["p2p"] = "clean", "app" \notin fault[r]
               PROVE  /\ ~body[r].sized \/ held[r]["edge"].written = body[r].pieces
                      /\ held[r]["edge"].written = Whole(r)
    BY <1>2, <1>3, <1>9 DEF EdgeEnded, Hops
  <2>1. fin[r]["p2p"] \notin {"clean", "short"}
    BY <1>1, <1>2 DEF Ends, EdgeEnded
  <2>2. ~Short(r, "edge")
    BY <1>4, <2>1
  <2>3. /\ held[r]["edge"].written = Whole(r)
        /\ body[r].sized /\ ~LosesLine(r) => held[r]["edge"].written = body[r].pieces
    BY <1>5
  <2>4. ASSUME body[r].sized, LosesLine(r) PROVE FALSE
    <3>1. Whole(r) = body[r].pieces - 1 /\ body[r].pieces \in Nat
      BY <1>1, <2>4, BodyFacts DEF LosesLine, Whole
    <3> QED BY <2>2, <2>3, <2>4, <3>1 DEF Short
  <2> QED BY <2>3, <2>4
<1>12. ProxyEnded(r)'
  BY <1>1, <1>2, <1>4, <1>9 DEF Ends, ProxyEnded
<1> QED BY <1>6, <1>7, <1>8, <1>10, <1>11, <1>12 DEF Ends

LEMMA ProxyCopyEnds ==
  ASSUME EndInv, NEW r \in Requests, CopyEnds(r, "proxy")
  PROVE  Ends(r)'
<1> DEFINE w == held[r]["proxy"]
<1>1. FlowOK /\ Ends(r) /\ Stream(r)
  BY EndTypes
<1>2. /\ pc[r]["proxy"] = "copy" /\ pc'[r]["proxy"] = "done"
      /\ pc'[r]["edge"] = pc[r]["edge"] /\ pc'[r]["app"] = pc[r]["app"]
      /\ UNCHANGED <<body, fault>>
  BY <1>1, GotoGives DEF CopyEnds, local, Threads, Hops
<1>3. /\ \A g \in Hops : held'[r][g].head = held[r][g].head
      /\ held'[r]["edge"] = held[r]["edge"]
  BY <1>1 DEF CopyEnds, FlowOK, Writers, Hops
<1>4. /\ \A l \in {"app", "p2p"} :
           head'[r][l] = head[r][l] /\ wire'[r][l] = wire[r][l] /\ fin'[r][l] = fin[r][l]
      /\ \/ head'[r] = head[r] /\ fin'[r] = fin[r]
         \/ /\ ~Closed(r, "cli")
            /\ head'[r]["cli"] = w.head
            /\ wire'[r]["cli"] = wire[r]["cli"] \o w.data
            /\ fin'[r]["cli"] = IF Short(r, "proxy") THEN "short" ELSE "clean"
  <2> DEFINE end == IF Short(r, "proxy") THEN "short" ELSE "clean"
  <2>1. Put(r, "cli", w.head, w.data, end)
    BY DEF CopyEnds, Out, Hops
  <2>2. "cli" \in Links /\ "app" \in Links \ {"cli"} /\ "p2p" \in Links \ {"cli"}
    BY DEF Links
  <2> HIDE DEF w, end
  <2>3. \A l \in Links \ {"cli"} :
          head'[r][l] = head[r][l] /\ wire'[r][l] = wire[r][l] /\ fin'[r][l] = fin[r][l]
    BY <1>1, <2>1, <2>2, PutGives
  <2>4. Closed(r, "cli") => head'[r] = head[r] /\ fin'[r] = fin[r]
    BY <1>1, <2>1, <2>2, PutGives
  <2>5. ~Closed(r, "cli") => /\ head'[r]["cli"] = w.head
                             /\ wire'[r]["cli"] = wire[r]["cli"] \o w.data
                             /\ fin'[r]["cli"] = end
    <3> SUFFICES ASSUME ~Closed(r, "cli")
                 PROVE  /\ head'[r]["cli"] = w.head
                        /\ wire'[r]["cli"] = wire[r]["cli"] \o w.data
                        /\ fin'[r]["cli"] = end
      OBVIOUS
    <3>1. /\ head' = [head EXCEPT ![r]["cli"] = w.head]
          /\ wire' = [wire EXCEPT ![r]["cli"] = wire[r]["cli"] \o w.data]
          /\ fin' = [fin EXCEPT ![r]["cli"] = end]
      BY <2>1 DEF Put
    <3>2. head'[r]["cli"] = w.head
      BY <1>1, <2>2, <3>1 DEF FlowOK
    <3>3. wire'[r]["cli"] = wire[r]["cli"] \o w.data
      BY <1>1, <2>2, <3>1 DEF FlowOK
    <3>4. fin'[r]["cli"] = end
      BY <1>1, <2>2, <3>1 DEF FlowOK
    <3> QED BY <3>2, <3>3, <3>4
  <2> QED BY <2>2, <2>3, <2>4, <2>5 DEF end
<1>5. /\ w.written \in Nat /\ held[r]["edge"].written \in Nat /\ body[r].pieces \in Nat
      /\ w.data \in Pieces /\ wire[r]["cli"] \in Pieces
      /\ Len(wire[r]["p2p"]) \in Nat
  BY <1>1, StreamTypes, BodyFacts DEF Hops, Links
\* Unless the stream or the application failed, the proxy has written all that
\* the edge's handler wrote, and that is the whole answer.
<1>6. \/ fault[r] \cap {"p2p", "app"} # {}
      \/ /\ w.written = held[r]["edge"].written
         /\ fin[r]["p2p"] \in {"clean", "short"}
  <2>1. BodyOver(r, "proxy") /\ In["proxy"] = "p2p"
    BY DEF CopyEnds, In, Hops
  <2>2. CASE fin[r]["p2p"] = "broken"
    BY <1>1, <2>2 DEF Ends, Causes
  <2>3. CASE fin[r]["p2p"] # "broken"
    <3>1. fin[r]["p2p"] \in {"clean", "short"}
          /\ \A i \in DOMAIN wire[r]["p2p"] : Unterminated(r, wire[r]["p2p"][i])
      BY <2>1, <2>3 DEF BodyOver
    <3>2. ~Closed(r, "p2p")
      BY <1>2, <2>3 DEF Closed
    <3>3. held[r]["edge"].data = <<>>
      BY <1>1, <3>1 DEF Ends, EdgeEnded
    <3> QED BY <3>1, <3>2, <3>3, ProxyDrained
  <2> QED BY <2>2, <2>3
<1>7. Order(r)'
  BY <1>1, <1>2, <1>3, <1>4 DEF Ends, Order
<1>8. Says(r)'
  <2>1. Forward(pc[r], pc'[r])
    BY <1>2 DEF Forward
  <2>2. head'[r]["cli"] = head[r]["cli"] \/ head'[r]["cli"] = w.head
    BY <1>4
  <2>3. \A l \in Links : Tells(pc'[r], head'[r][l])
    <3>1. \A l \in {"app", "p2p"} : Tells(pc'[r], head'[r][l])
      BY <1>1, <1>4, <2>1, TellsForward DEF Ends, Says, Links
    <3>2. Tells(pc'[r], head'[r]["cli"])
      BY <1>1, <2>1, <2>2, TellsForward DEF Ends, Says, Links, Hops
    <3> QED BY <3>1, <3>2 DEF Links
  <2>4. \A g \in Hops : Tells(pc'[r], held'[r][g].head)
    BY <1>1, <1>3, <2>1, TellsForward DEF Ends, Says
  <2> QED BY <1>1, <1>2, <1>3, <1>4, <2>3, <2>4 DEF Ends, Says, Hops
<1>9. Causes(r)'
  <2>1. Short(r, "proxy") => fault[r] # {} \/ LosesLine(r)
    <3> SUFFICES ASSUME Short(r, "proxy"), fault[r] = {}, ~LosesLine(r) PROVE FALSE
      OBVIOUS
    <3>1. body[r].sized /\ w.written < body[r].pieces
      BY DEF Short
    <3>2. fin[r]["p2p"] = "clean"
      BY <1>1, <1>6 DEF Ends, Causes
    <3>3. held[r]["edge"].written = body[r].pieces
      BY <1>1, <3>1, <3>2 DEF Ends, EdgeEnded
    <3> QED BY <1>5, <1>6, <3>1, <3>3
  <2>2. /\ fin'[r]["cli"] = "broken" => fin[r]["cli"] = "broken"
        /\ fin'[r]["cli"] = "short" => fin[r]["cli"] = "short" \/ Short(r, "proxy")
    BY <1>4
  <2>3. LosesLine(r)' = LosesLine(r)
    BY <1>2 DEF LosesLine
  <2> QED BY <1>1, <1>2, <1>4, <2>1, <2>2, <2>3 DEF Ends, Causes
<1>10. Whole(r)' = Whole(r) /\ Emitted(r)' = Emitted(r)
  BY <1>2, <1>3, <1>4 DEF Whole, Emitted
<1>11. Counts(r)' /\ EdgeEnded(r)'
  BY <1>1, <1>2, <1>3, <1>4, <1>10 DEF Ends, Counts, EdgeEnded
<1>12. ProxyEnded(r)'
  <2> SUFFICES ASSUME fin'[r]["cli"] = "clean", head'[r]["cli"].by = "app",
                      body[r].sized \/ fault[r] \cap {"p2p", "app"} = {}
               PROVE  Len(wire'[r]["cli"]) = Whole(r)
    BY <1>2, <1>10 DEF ProxyEnded
  <2>1. fin[r]["cli"] \notin {"clean", "short"}
    BY <1>1, <1>2 DEF Ends, ProxyEnded
  <2>2. /\ ~Closed(r, "cli") /\ ~Short(r, "proxy") /\ w.head.by = "app"
        /\ wire'[r]["cli"] = wire[r]["cli"] \o w.data
    BY <1>4, <2>1
  <2>3. Len(wire'[r]["cli"]) = w.written
    <3>1. Len(wire[r]["cli"]) + Len(w.data) = w.written
      BY <1>1, <2>2 DEF Stream
    <3> QED BY <1>5, <2>2, <3>1, LenFacts
  <2>4. CASE body[r].sized
    <3>1. w.written >= body[r].pieces /\ Whole(r) \in Int /\ Whole(r) <= body[r].pieces
      BY <1>5, <2>2, <2>4 DEF Short, Whole
    <3>2. w.written <= held[r]["edge"].written
      <4>1. w.written + Len(wire[r]["p2p"]) <= held[r]["edge"].written
        BY <1>1 DEF Stream
      <4> QED BY <1>5, <4>1
    <3>3. held[r]["edge"].written <= Whole(r)
      BY <1>1 DEF Ends, Counts
    <3> QED BY <1>5, <2>3, <3>1, <3>2, <3>3
  <2>5. CASE ~body[r].sized /\ fault[r] \cap {"p2p", "app"} = {}
    <3>0. fin[r]["p2p"] = "clean"
      BY <1>1, <1>6, <2>5 DEF Ends, Causes, LosesLine
    <3>1. head[r]["p2p"].by = "app"
      BY <1>1, <2>2 DEF Ends, Says
    <3>2. held[r]["edge"].written = Whole(r)
      BY <1>1, <2>5, <3>0, <3>1 DEF Ends, EdgeEnded
    <3> QED BY <1>6, <2>3, <2>5, <3>2
  <2> QED BY <2>4, <2>5
<1> QED BY <1>7, <1>8, <1>9, <1>11, <1>12 DEF Ends

-----------------------------------------------------------------------------
(* The application and the environment. *)

LEMMA Answered ==
  ASSUME EndInv, NEW r \in Requests, AppAnswers(r)
  PROVE  Ends(r)'
<1>1. FlowOK /\ Ends(r)
  BY EndTypes
<1>2. PICK b \in Bodies, code \in {200, 401} :
        /\ b.tail => b.kind = "sse" /\ b.pieces > 0
        /\ body' = [body EXCEPT ![r] = b]
        /\ Put(r, "app", Answer("app", code), <<>>, "open")
  BY DEF AppAnswers
<1>3. /\ pc[r]["app"] = "run" /\ pc'[r]["app"] = "write" /\ pc[r]["edge"] # "done"
      /\ pc'[r]["proxy"] = pc[r]["proxy"] /\ pc'[r]["edge"] = pc[r]["edge"]
      /\ UNCHANGED <<held, fault>> /\ ~Closed(r, "app")
  BY <1>1, GotoGives DEF AppAnswers, Closed, Threads, Hops
<1>4. /\ \A l \in {"p2p", "cli"} :
           head'[r][l] = head[r][l] /\ wire'[r][l] = wire[r][l] /\ fin'[r][l] = fin[r][l]
      /\ head'[r]["app"] = Answer("app", code) /\ fin'[r]["app"] = "open"
      /\ wire'[r]["app"] = wire[r]["app"] \o <<>>
  <2>1. "app" \in Links /\ "p2p" \in Links \ {"app"} /\ "cli" \in Links \ {"app"}
    BY DEF Links
  <2>2. \A l \in Links \ {"app"} :
          head'[r][l] = head[r][l] /\ wire'[r][l] = wire[r][l] /\ fin'[r][l] = fin[r][l]
    BY <1>1, <1>2, <2>1, PutGives
  <2>3. /\ head'[r]["app"] = Answer("app", code) /\ fin'[r]["app"] = "open"
        /\ wire'[r]["app"] = wire[r]["app"] \o <<>>
    BY <1>1, <1>2, <1>3, <2>1 DEF Put, FlowOK
  <2> QED BY <2>1, <2>2, <2>3
<1>5. /\ wire[r]["app"] = <<>> /\ held[r]["edge"].written = 0
      /\ pc[r]["edge"] \notin {"copy", "flush", "idle", "validate", "call"}
  BY <1>1, <1>3 DEF Ends, Order
<1>6. wire'[r]["app"] = <<>> /\ Len(wire'[r]["app"]) = 0
  BY <1>4, <1>5, LenFacts
<1>7. b.pieces \in Nat /\ body'[r] = b
  BY <1>1, <1>2, BoundAssumption DEF Bodies, FlowOK
<1>8. Order(r)'
  BY <1>1, <1>3, <1>4, <1>5 DEF Ends, Order
<1>9. Says(r)'
  <2>1. Forward(pc[r], pc'[r])
    BY <1>3 DEF Forward
  <2>2. \A l \in {"p2p", "cli"} : Tells(pc'[r], head'[r][l])
    BY <1>1, <1>4, <2>1, TellsForward DEF Ends, Says, Links
  <2>3. Tells(pc'[r], head'[r]["app"]) /\ head'[r]["app"].by \notin Hops
    BY <1>3, <1>4 DEF Tells, Answer, Hops
  <2>4. \A g \in Hops : Tells(pc'[r], held'[r][g].head)
    BY <1>1, <1>3, <2>1, TellsForward DEF Ends, Says
  <2> QED BY <1>1, <1>3, <1>4, <2>2, <2>3, <2>4 DEF Ends, Says, Links
<1>10. Causes(r)'
  BY <1>1, <1>3, <1>4 DEF Ends, Order, Causes, LosesLine, NoBody
<1>11. Emitted(r)' = 0 /\ Whole(r)' \in Nat
  <2>1. Emitted(r)' = 0
    BY <1>3, <1>5, <1>6 DEF Emitted
  <2>2. Whole(r)' \in Nat
    BY <1>2, <1>7 DEF Whole
  <2> QED BY <2>1, <2>2
<1>12. Counts(r)'
  BY <1>2, <1>3, <1>4, <1>5, <1>7, <1>11 DEF Counts
<1>13. EdgeEnded(r)'
  BY <1>1, <1>3, <1>4 DEF Ends, EdgeEnded
<1>14. ProxyEnded(r)'
  <2>1. head[r]["cli"].by # "app"
    BY <1>1, <1>3 DEF Ends, Says, Tells, Links
  <2> QED BY <1>1, <1>3, <1>4, <2>1 DEF Ends, ProxyEnded
<1> QED BY <1>8, <1>9, <1>10, <1>12, <1>13, <1>14 DEF Ends

LEMMA OnePiece ==
  ASSUME NEW s \in Pieces, NEW k \in 1..MaxPieces
  PROVE  Len(s \o <<k>>) = Len(s) + 1
<1>1. <<k>> \in Pieces /\ Len(<<k>>) = 1
  BY DEF Pieces
<1> QED BY <1>1, LenFacts

\* The application goes on, ends or dies: a step that adds at most its next piece.
LEMMA AppKeeps ==
  ASSUME EndInv, NEW r \in Requests, pc[r]["app"] \in {"run", "write"},
         pc'[r]["proxy"] = pc[r]["proxy"], pc'[r]["edge"] = pc[r]["edge"],
         pc'[r]["app"] \in {"write", "done"},
         UNCHANGED <<held, body>>, fault[r] \subseteq fault'[r],
         head'[r] = head[r],
         \A l \in {"p2p", "cli"} : wire'[r][l] = wire[r][l] /\ fin'[r][l] = fin[r][l],
         pc'[r]["app"] = "write" => fin'[r]["app"] # "clean",
         fin'[r]["app"] = "broken" => fin[r]["app"] = "broken" \/ "app" \in fault'[r],
         fin'[r]["app"] = "short" => fin[r]["app"] = "short",
         Emitted(r)' <= body[r].pieces,
         fin'[r]["app"] = "clean" => Emitted(r)' = body[r].pieces
  PROVE  Ends(r)'
<1>1. FlowOK /\ Ends(r)
  BY EndTypes
<1>2. Order(r)'
  BY <1>1 DEF Ends, Order
<1>3. Says(r)'
  <2>1. Forward(pc[r], pc'[r])
    BY DEF Forward
  <2> QED BY <1>1, <2>1, SaysKept DEF Ends
<1>4. Causes(r)'
  BY <1>1 DEF Ends, Causes, LosesLine
<1>5. Whole(r)' = Whole(r)
  BY DEF Whole
<1>6. Counts(r)'
  BY <1>1, <1>5 DEF Ends, Counts
<1>7. EdgeEnded(r)' /\ ProxyEnded(r)'
  BY <1>1, <1>5 DEF Ends, EdgeEnded, ProxyEnded
<1> QED BY <1>2, <1>3, <1>4, <1>6, <1>7 DEF Ends

LEMMA AppGoesOn ==
  ASSUME EndInv, NEW r \in Requests,
         AppWrites(r) \/ AppCloses(r) \/ AppStops(r) \/ AppDies(r)
  PROVE  Ends(r)'
<1>1. FlowOK /\ Ends(r) /\ RestOK
  BY EndTypes
<1>2. "app" \in Links /\ {"p2p", "cli"} \subseteq Links \ {"app"} /\ "app" \in Threads
  BY DEF Links, Threads
<1>3. /\ wire[r]["app"] \in Pieces /\ Len(wire[r]["app"]) \in Nat
      /\ held[r]["edge"].written \in Nat /\ body[r].pieces \in Nat
      /\ wire[r]["app"] \o <<>> = wire[r]["app"]
      /\ Emitted(r) <= body[r].pieces
      /\ body[r] \in Bodies \cup {NoBody}
  BY <1>1, StreamTypes, BodyFacts, LenFacts DEF Links, Hops, Ends, Counts, FlowOK
<1>4. \A status, pieces, end :
        Put(r, "app", status, pieces, end) /\ ~Closed(r, "app") /\ status = head[r]["app"] =>
          /\ head'[r] = head[r]
          /\ \A l \in {"p2p", "cli"} : wire'[r][l] = wire[r][l] /\ fin'[r][l] = fin[r][l]
          /\ wire'[r]["app"] = wire[r]["app"] \o pieces /\ fin'[r]["app"] = end
  BY <1>1, <1>2 DEF Put, FlowOK
<1>5. CASE AppWrites(r)
  <2>1. /\ pc[r]["app"] = "write" /\ UNCHANGED <<pc, held, body, fault>>
        /\ wire'[r]["app"] = wire[r]["app"] \o <<Emitted(r) + 1>>
        /\ fin'[r]["app"] = "open" /\ head'[r] = head[r]
        /\ \A l \in {"p2p", "cli"} : wire'[r][l] = wire[r][l] /\ fin'[r][l] = fin[r][l]
        /\ Emitted(r) < body[r].pieces
    BY <1>4, <1>5 DEF AppWrites, local
  <2>2. Emitted(r) + 1 \in 1..MaxPieces
    <3>1. Emitted(r) \in Nat
      BY <1>3 DEF Emitted
    <3>2. body[r].pieces <= MaxPieces
      BY <1>3, BoundAssumption DEF Bodies, NoBody
    <3> QED BY <1>3, <2>1, <3>1, <3>2, BoundAssumption
  <2>3. Len(wire'[r]["app"]) = Len(wire[r]["app"]) + 1
    BY <1>3, <2>1, <2>2, OnePiece
  <2>4. Emitted(r)' <= body[r].pieces
    <3>1. Emitted(r)' = held[r]["edge"].written + Len(wire'[r]["app"])
      BY <2>1 DEF Emitted
    <3>2. held[r]["edge"].written + Len(wire[r]["app"]) < body[r].pieces
      BY <2>1 DEF Emitted
    <3> QED BY <1>3, <2>3, <3>1, <3>2
  <2> QED BY <2>1, <2>4, AppKeeps
<1>6. CASE AppCloses(r)
  <2>1. /\ pc[r]["app"] = "write" /\ UNCHANGED <<held, body, fault>>
        /\ wire'[r]["app"] = wire[r]["app"] \o <<>>
        /\ fin'[r]["app"] = "clean" /\ head'[r] = head[r]
        /\ \A l \in {"p2p", "cli"} : wire'[r][l] = wire[r][l] /\ fin'[r][l] = fin[r][l]
        /\ Emitted(r) = body[r].pieces
    BY <1>4, <1>6 DEF AppCloses, local
  <2>2. pc'[r]["proxy"] = pc[r]["proxy"] /\ pc'[r]["edge"] = pc[r]["edge"]
        /\ pc'[r]["app"] = "done"
    BY <1>1, <1>2, <1>6, GotoGives DEF AppCloses, Threads, Hops
  <2>3. Emitted(r)' = Emitted(r)
    BY <1>3, <2>1 DEF Emitted
  <2> QED BY <1>3, <2>1, <2>2, <2>3, AppKeeps
<1>7. CASE AppStops(r)
  <2>1. /\ pc[r]["app"] \in {"run", "write"} /\ UNCHANGED <<head, wire, fin, held, body, fault>>
        /\ Emitted(r)' = Emitted(r)
    BY <1>7 DEF AppStops, local, flow, Emitted
  <2>2. pc'[r]["proxy"] = pc[r]["proxy"] /\ pc'[r]["edge"] = pc[r]["edge"]
        /\ pc'[r]["app"] = "done"
    BY <1>1, <1>2, <1>7, GotoGives DEF AppStops, Threads, Hops
  <2>3. fin[r]["app"] # "clean"
    BY <1>1, <2>1 DEF Ends, Order
  <2> QED BY <1>3, <2>1, <2>2, <2>3, AppKeeps
<1>8. CASE AppDies(r)
  <2>1. /\ pc[r]["app"] \in {"run", "write"} /\ UNCHANGED <<head, wire, held, body>>
        /\ Emitted(r)' = Emitted(r)
    BY <1>8 DEF AppDies, Emitted
  <2>2. pc'[r]["proxy"] = pc[r]["proxy"] /\ pc'[r]["edge"] = pc[r]["edge"]
        /\ pc'[r]["app"] = "done"
    BY <1>1, <1>2, <1>8, GotoGives DEF AppDies, Threads, Hops
  <2>3. /\ fin'[r]["app"] = "broken"
        /\ \A l \in {"p2p", "cli"} : fin'[r][l] = fin[r][l]
        /\ fault'[r] = fault[r] \cup {"app"}
    BY <1>1, <1>2, <1>8 DEF AppDies, FlowOK, RestOK
  <2> QED BY <1>3, <2>1, <2>2, <2>3, AppKeeps
<1> QED BY <1>5, <1>6, <1>7, <1>8

\* The client goes away, or the stream between the nodes is reset.
LEMMA Strikes ==
  ASSUME EndInv, NEW r \in Requests, ClientLeaves(r) \/ StreamBreaks(r)
  PROVE  Ends(r)'
<1>1. FlowOK /\ Ends(r) /\ RestOK
  BY EndTypes
<1>2. CASE ClientLeaves(r)
  <2>1. Untouched(r)
    BY <1>2 DEF ClientLeaves, Untouched, flow
  <2> QED BY <1>1, <2>1, UntouchedEnds
<1>3. CASE StreamBreaks(r)
  <2>1. /\ UNCHANGED <<pc, head, wire, held, body>>
        /\ fin'[r]["p2p"] = "broken"
        /\ \A l \in {"app", "cli"} : fin'[r][l] = fin[r][l]
        /\ fault'[r] = fault[r] \cup {"p2p"}
    BY <1>1, <1>3 DEF StreamBreaks, FlowOK, RestOK, Links
  <2>2. Order(r)' /\ Causes(r)'
    BY <1>1, <2>1 DEF Ends, Order, Causes
  <2>3. Says(r)'
    BY <1>1, <2>1 DEF Ends, Says
  <2>4. Whole(r)' = Whole(r) /\ Emitted(r)' = Emitted(r)
    BY <2>1 DEF Whole, Emitted
  <2>5. Counts(r)' /\ EdgeEnded(r)' /\ ProxyEnded(r)'
    BY <1>1, <2>1, <2>4 DEF Ends, Counts, EdgeEnded, ProxyEnded
  <2> QED BY <2>2, <2>3, <2>5 DEF Ends
<1> QED BY <1>2, <1>3

-----------------------------------------------------------------------------
(* Every step, and the theorems. *)

LEMMA PutAside ==
  ASSUME FlowOK, NEW r \in Requests, NEW q \in Requests \ {r}, NEW l \in Links,
         NEW status, NEW pieces, NEW end, Put(r, l, status, pieces, end)
  PROVE  head'[q] = head[q] /\ wire'[q] = wire[q] /\ fin'[q] = fin[q]
BY DEF Put, FlowOK

LEMMA ReplyAside ==
  ASSUME FlowOK, NEW r \in Requests, NEW q \in Requests \ {r}, NEW h \in Hops,
         NEW code, Reply(r, h, code) \/ Panic(r, h)
  PROVE  /\ pc'[q] = pc[q] /\ held'[q] = held[q]
         /\ head'[q] = head[q] /\ wire'[q] = wire[q] /\ fin'[q] = fin[q]
<1>1. Out[h] \in Links
  BY HopLinks
<1>2. pc'[q] = pc[q] /\ held'[q] = held[q]
  BY DEF Reply, Panic, Goto, FlowOK
<1>3. CASE Reply(r, h, code)
  BY <1>1, <1>2, <1>3, PutAside DEF Reply
<1>4. CASE Panic(r, h)
  BY <1>1, <1>2, <1>4, PutAside DEF Panic
<1> QED BY <1>3, <1>4

\* A step of one request leaves the others alone.
LEMMA Aside ==
  ASSUME TypeOK, NEW r \in Requests, NEW q \in Requests \ {r},
         \/ Arrive(r) \/ ProxyStep(r) \/ EdgeStep(r) \/ AppStep(r) \/ Environment(r)
  PROVE  Untouched(q)
<1>1. FlowOK /\ RestOK
  BY TypeSplit
<1>2. ASSUME NEW t, NEW label, Goto(r, t, label) PROVE pc'[q] = pc[q]
  BY <1>1, <1>2 DEF Goto, FlowOK
<1>3. CASE Arrive(r) \/ Handle(r) \/ DialOpens(r)
  <2>1. body' = body /\ fault' = fault
    BY <1>3 DEF Arrive, Handle, DialOpens, local
  <2>2. /\ pc'[q] = pc[q] /\ held'[q] = held[q]
        /\ head'[q] = head[q] /\ wire'[q] = wire[q] /\ fin'[q] = fin[q]
    <3>1. CASE Arrive(r)
      BY <1>2, <3>1 DEF Arrive, flow
    <3>2. CASE Handle(r)
      <4>1. \/ \E code : Reply(r, "proxy", code)
            \/ Goto(r, "proxy", "dial") /\ UNCHANGED flow
        BY <3>2 DEF Handle
      <4> QED BY <1>1, <1>2, <4>1, ReplyAside DEF flow, Hops
    <3>3. CASE DialOpens(r)
      BY <1>1, <3>3 DEF DialOpens, flow, FlowOK
    <3> QED BY <1>3, <3>1, <3>2, <3>3
  <2> QED BY <2>1, <2>2 DEF Untouched
<1>4. CASE Middleware(r) \/ AuthReply(r)
  <2>1. /\ body' = body
        /\ \/ fault' = fault /\ \E code : Reply(r, "proxy", code)
           \/ fault' = fault /\ Goto(r, "proxy", "auth") /\ UNCHANGED flow
           \/ Forwarded(r)
    BY <1>4 DEF Middleware, AuthReply
  <2>2. CASE Forwarded(r)
    <3>1. \/ fault' = fault /\ Goto(r, "proxy", "handle") /\ UNCHANGED flow
          \/ Panic(r, "proxy") /\ fault' = [fault EXCEPT ![r] = @ \cup {"nohost"}]
      BY <2>2 DEF Forwarded
    <3>2. fault'[q] = fault[q]
      BY <1>1, <3>1 DEF RestOK
    <3> QED BY <1>1, <1>2, <2>1, <3>1, <3>2, ReplyAside DEF flow, Hops, Untouched
  <2> QED BY <1>1, <1>2, <2>1, <2>2, ReplyAside DEF flow, Hops, Untouched
<1>5. CASE DialFails(r) \/ AwaitFails(r)
  <2>1. Panic(r, "proxy") /\ body' = body
    BY <1>5 DEF DialFails, AwaitFails, local
  <2>2. fault'[q] = fault[q]
    BY <1>1, <1>5 DEF DialFails, AwaitFails, local, RestOK
  <2> QED BY <1>1, <2>1, <2>2, ReplyAside DEF Hops, Untouched
<1>6. CASE EdgeValidate(r) \/ EdgeCall(r) \/ EdgeCallFails(r)
  <2>1. body' = body /\ fault' = fault
    BY <1>6 DEF EdgeValidate, EdgeCall, EdgeCallFails, local
  <2>2. \/ \E code : Reply(r, "edge", code)
        \/ Goto(r, "edge", "call") /\ UNCHANGED flow
        \/ pc' = [pc EXCEPT ![r]["edge"] = "await", ![r]["app"] = "run"] /\ UNCHANGED flow
    BY <1>6 DEF EdgeValidate, EdgeCall, EdgeCallFails
  <2>3. pc' = [pc EXCEPT ![r]["edge"] = "await", ![r]["app"] = "run"] => pc'[q] = pc[q]
    BY <1>1 DEF FlowOK
  <2> QED BY <1>1, <1>2, <2>1, <2>2, <2>3, ReplyAside DEF flow, Hops, Untouched
<1>7. ASSUME NEW h \in Hops, Copy(r, h) \/ BufferFills(r, h) PROVE Untouched(q)
  <2>1. body' = body /\ fault' = fault
    BY <1>7 DEF Copy, CopyHead, CopyPiece, CopyFlush, CopyWriteFails, CopyEnds,
                BufferFills, local
  <2>2. pc'[q] = pc[q] /\ held'[q] = held[q]
    BY <1>1, <1>7 DEF Copy, CopyHead, CopyPiece, CopyFlush, CopyWriteFails, CopyEnds,
                      BufferFills, Flush, Goto, flow, FlowOK
  <2>3. head'[q] = head[q] /\ wire'[q] = wire[q] /\ fin'[q] = fin[q]
    <3>1. CASE CopyHead(r, h) \/ CopyPiece(r, h) \/ CopyWriteFails(r, h)
      BY <1>1, <3>1 DEF CopyHead, CopyPiece, CopyWriteFails, flow, FlowOK
    <3>2. CASE CopyFlush(r, h) \/ BufferFills(r, h) \/ CopyEnds(r, h)
      <4>1. \E end : Put(r, Out[h], held[r][h].head, held[r][h].data, end)
        BY <3>2 DEF CopyFlush, BufferFills, CopyEnds, Flush
      <4> QED BY <1>1, <4>1, HopLinks, PutAside
    <3> QED BY <1>7, <3>1, <3>2 DEF Copy
  <2> QED BY <2>1, <2>2, <2>3 DEF Untouched
<1>8. CASE AppStep(r) \/ AppDies(r)
  <2>1. pc'[q] = pc[q] /\ held'[q] = held[q] /\ body'[q] = body[q]
    BY <1>1, <1>8 DEF AppStep, AppAnswers, AppWrites, AppCloses, AppStops, AppDies,
                      Goto, local, flow, FlowOK
  <2>2. fault'[q] = fault[q]
    BY <1>1, <1>8 DEF AppStep, AppAnswers, AppWrites, AppCloses, AppStops, AppDies,
                      local, RestOK
  <2>3. head'[q] = head[q] /\ wire'[q] = wire[q] /\ fin'[q] = fin[q]
    <3>1. CASE AppAnswers(r) \/ AppWrites(r) \/ AppCloses(r)
      <4>1. \E status, pieces, end : Put(r, "app", status, pieces, end)
        BY <3>1 DEF AppAnswers, AppWrites, AppCloses
      <4> QED BY <1>1, <4>1, PutAside DEF Links
    <3>2. CASE AppStops(r) \/ AppDies(r)
      BY <1>1, <3>2 DEF AppStops, AppDies, flow, FlowOK
    <3> QED BY <1>8, <3>1, <3>2 DEF AppStep
  <2> QED BY <2>1, <2>2, <2>3 DEF Untouched
<1>9. CASE ClientLeaves(r) \/ StreamBreaks(r)
  BY <1>1, <1>9 DEF ClientLeaves, StreamBreaks, flow, FlowOK, RestOK, Untouched
<1> QED BY <1>3, <1>4, <1>5, <1>6, <1>7, <1>8, <1>9
        DEF ProxyStep, EdgeStep, Environment, Hops

LEMMA ProxyEnds ==
  ASSUME EndInv, NEW r \in Requests,
         \/ Arrive(r) \/ Middleware(r) \/ AuthReply(r) \/ Handle(r)
         \/ DialOpens(r) \/ DialFails(r) \/ AwaitFails(r)
  PROVE  Ends(r)'
<1>1. FlowOK /\ RestOK /\ Ends(r)
  BY EndTypes
<1>2. ASSUME Forwarded(r), body' = body, pc[r]["proxy"] \in BeforeDial
      PROVE  Ends(r)'
  <2>1. CASE Goto(r, "proxy", "handle") /\ UNCHANGED <<flow, fault>>
    BY <1>2, <2>1, ProxyMoves DEF BeforeDial
  <2>2. CASE Panic(r, "proxy") /\ fault' = [fault EXCEPT ![r] = @ \cup {"nohost"}]
    <3>1. fault'[r] = fault[r] \cup {"nohost"}
      BY <1>1, <2>2 DEF RestOK
    <3> QED BY <1>2, <2>2, <3>1, ProxyPanics
  <2> QED BY <1>2, <2>1, <2>2 DEF Forwarded
<1>3. CASE Arrive(r)
  BY <1>3, ProxyMoves DEF Arrive, BeforeDial
<1>4. CASE Middleware(r)
  <2>1. /\ pc[r]["proxy"] \in BeforeDial /\ body' = body
        /\ \/ fault' = fault /\ \E code : Reply(r, "proxy", code)
           \/ fault' = fault /\ Goto(r, "proxy", "auth") /\ UNCHANGED flow
           \/ Forwarded(r)
    BY <1>4 DEF Middleware, BeforeDial
  <2> QED BY <1>2, <2>1, ProxyMoves, ProxyReplies DEF BeforeDial
<1>5. CASE AuthReply(r)
  <2>1. /\ pc[r]["proxy"] \in BeforeDial /\ body' = body
        /\ \/ fault' = fault /\ \E code : Reply(r, "proxy", code)
           \/ Forwarded(r)
    BY <1>5 DEF AuthReply, BeforeDial
  <2> QED BY <1>2, <2>1, ProxyReplies
<1>6. CASE Handle(r)
  <2>1. /\ pc[r]["proxy"] \in BeforeDial /\ body' = body /\ fault' = fault
        /\ \/ \E code : Reply(r, "proxy", code)
           \/ Goto(r, "proxy", "dial") /\ UNCHANGED flow
    BY <1>6 DEF Handle, BeforeDial
  <2> QED BY <2>1, ProxyMoves, ProxyReplies DEF BeforeDial
<1>7. CASE DialOpens(r)
  BY <1>7, EdgeStarts
<1>8. CASE DialFails(r)
  <2>1. fault'[r] = fault[r] \cup {"unreachable"}
    BY <1>1, <1>8 DEF DialFails, RestOK
  <2> QED BY <1>8, <2>1, ProxyPanics DEF DialFails, BeforeDial
<1>9. CASE AwaitFails(r)
  <2>1. fault[r] # {}
    BY <1>1, <1>9 DEF AwaitFails, Ends, Causes
  <2> QED BY <1>9, <2>1, ProxyPanics DEF AwaitFails, local
<1> QED BY <1>3, <1>4, <1>5, <1>6, <1>7, <1>8, <1>9

LEMMA EdgeEnds ==
  ASSUME EndInv, NEW r \in Requests,
         EdgeValidate(r) \/ EdgeCall(r) \/ EdgeCallFails(r)
  PROVE  Ends(r)'
<1>1. FlowOK /\ Ends(r)
  BY EndTypes
<1>2. UNCHANGED <<body, fault>>
  BY DEF EdgeValidate, EdgeCall, EdgeCallFails, local
<1>3. CASE \E code : /\ Reply(r, "edge", code)
                     /\ \/ pc[r]["edge"] \in {"validate", "call"}
                        \/ pc[r]["edge"] = "await" /\ code = 502 /\ fin[r]["app"] = "broken"
  BY <1>2, <1>3, EdgeReplies
<1>4. CASE EdgeValidate(r) /\ Goto(r, "edge", "call") /\ UNCHANGED flow
  <2>1. /\ pc[r]["edge"] = "validate" /\ pc'[r]["edge"] = "call" /\ pc[r]["app"] = "idle"
        /\ pc'[r]["proxy"] = pc[r]["proxy"] /\ pc'[r]["app"] = "idle"
    BY <1>1, <1>4, GotoGives DEF EdgeValidate, Threads, Hops, Ends, Order
  <2> QED BY <1>2, <1>4, <2>1, EdgeMoves
<1>5. CASE /\ EdgeCall(r) /\ UNCHANGED flow
           /\ pc' = [pc EXCEPT ![r]["edge"] = "await", ![r]["app"] = "run"]
  <2>1. /\ pc[r]["edge"] = "call" /\ pc[r]["app"] = "idle"
        /\ pc'[r]["proxy"] = pc[r]["proxy"]
        /\ pc'[r]["edge"] = "await" /\ pc'[r]["app"] = "run"
    BY <1>1, <1>5 DEF EdgeCall, FlowOK, Threads, Hops, Ends, Order
  <2> QED BY <1>2, <1>5, <2>1, EdgeMoves
<1> QED BY <1>3, <1>4, <1>5 DEF EdgeValidate, EdgeCall, EdgeCallFails

LEMMA EndStep == ASSUME EndInv, Next PROVE EndInv'
<1>1. TypeOK /\ StreamInv /\ \A q \in Requests : Ends(q)
  BY DEF EndInv
<1>2. TypeOK' /\ StreamInv'
  BY <1>1, TypeStep, StreamStep
<1>3. CASE Network
  <2>1. \A q \in Requests : Untouched(q)
    BY <1>3 DEF Network, RelayStarts, TableSyncs, NodeMoves, AddressExpires,
                local, flow, Untouched
  <2> QED BY <1>1, <1>2, <2>1, UntouchedEnds DEF EndInv
<1>4. ASSUME NEW r \in Requests, Arrive(r) \/ ProxyStep(r) \/ EdgeStep(r) \/ AppStep(r)
                                 \/ Environment(r)
      PROVE  EndInv'
  <2>1. \A q \in Requests \ {r} : Ends(q)'
    BY <1>1, <1>4, Aside, UntouchedEnds
  <2>2. ASSUME NEW h \in Hops, Copy(r, h) \/ BufferFills(r, h) PROVE Ends(r)'
    <3>1. CASE CopyFlush(r, h) \/ BufferFills(r, h)
      BY <3>1, Flushed DEF CopyFlush, BufferFills, local
    <3> QED BY <2>2, <3>1, HeadCopied, PieceCopied, WriteFailed, EdgeCopyEnds,
               ProxyCopyEnds DEF Copy, Hops
  <2>3. Ends(r)'
    BY <1>4, <2>2, ProxyEnds, EdgeEnds, Answered, AppGoesOn, Strikes
       DEF ProxyStep, EdgeStep, AppStep, Environment, Hops
  <2> QED BY <1>2, <2>1, <2>3 DEF EndInv
<1> QED BY <1>3, <1>4 DEF Next

LEMMA EndStart == Init => EndInv
<1> SUFFICES ASSUME Init PROVE EndInv
  OBVIOUS
<1>1. TypeOK /\ StreamInv
  BY InitType, StreamInit
<1>2. ASSUME NEW r \in Requests PROVE Ends(r)
  <2>1. /\ \A t \in Threads : pc[r][t] = "idle"
        /\ \A l \in Links : head[r][l] = NoHead /\ wire[r][l] = <<>> /\ fin[r][l] = "open"
        /\ \A h \in Hops : held[r][h] = Unwritten
        /\ body[r] = NoBody /\ fault[r] = {}
    BY DEF Init
  <2>2. Order(r)
    BY <2>1 DEF Order, Threads, Hops, Links, Unwritten
  <2>3. Says(r)
    BY <2>1 DEF Says, Tells, Threads, Hops, Links, Unwritten, NoHead
  <2>4. Causes(r)
    BY <2>1 DEF Causes, Links
  <2>5. Emitted(r) = 0 /\ Whole(r) = 0
    BY <2>1, LenFacts DEF Emitted, Whole, Links, Hops, Unwritten, NoBody
  <2>6. Counts(r) /\ EdgeEnded(r) /\ ProxyEnded(r)
    BY <2>1, <2>5 DEF Counts, EdgeEnded, ProxyEnded, Links, Hops, Unwritten, NoBody
  <2> QED BY <2>2, <2>3, <2>4, <2>6 DEF Ends
<1> QED BY <1>1, <1>2 DEF EndInv

LEMMA EndInvariant == Spec => []EndInv
<1>1. EndInv /\ UNCHANGED vars => EndInv'
  <2> SUFFICES ASSUME EndInv, UNCHANGED vars PROVE EndInv'
    OBVIOUS
  <2>1. TypeOK' /\ StreamInv'
    <3>1. TypeOK'
      BY DEF EndInv, TypeOK, vars
    <3>2. \A r \in Requests : Same(r)
      BY DEF vars, Same
    <3> QED BY <3>1, <3>2, QuietKeeps DEF EndInv, StreamInv
  <2>2. \A q \in Requests : Untouched(q)
    BY DEF vars, Untouched
  <2> QED BY <2>1, <2>2, UntouchedEnds DEF EndInv
<1>2. EndInv /\ [Next]_vars => EndInv'
  BY <1>1, EndStep
<1> QED BY <1>2, EndStart, PTL DEF Spec

\* What the invariant says of the ends that a client sees.
LEMMA EndFacts == ASSUME EndInv PROVE RefusedNotRun /\ BrokenHasCause /\ CleanMeansComplete
<1>1. RefusedNotRun
  <2> SUFFICES ASSUME NEW r \in Requests,
                      head[r]["cli"].by \in Hops, head[r]["cli"].code # 502
               PROVE  pc[r]["app"] = "idle"
    BY DEF RefusedNotRun, Ran
  <2>1. Order(r) /\ Tells(pc[r], head[r]["cli"])
    BY DEF EndInv, Ends, Says, Links
  <2> QED BY <2>1 DEF Tells, Order, Hops
<1>2. BrokenHasCause
  BY DEF EndInv, Ends, Causes, BrokenHasCause
<1>3. CleanMeansComplete
  BY DEF EndInv, Ends, ProxyEnded, CleanMeansComplete
<1> QED BY <1>1, <1>2, <1>3

\* A request that the proxy or the edge node refused, with any status but 502,
\* was not handed to the application: both handlers answer by themselves only
\* before the call, and never after the answer of the other.
THEOREM RefusedIsSafe == Spec => []RefusedNotRun
<1>1. EndInv => RefusedNotRun
  BY EndFacts
<1> QED BY <1>1, EndInvariant, PTL

\* A client is cut off, or left short, only if something befell its request or its
\* event stream declared a length and lost its last line: no handler cuts another
\* sound answer short.
THEOREM CutHasCause == Spec => []BrokenHasCause
<1>1. EndInv => BrokenHasCause
  BY EndFacts
<1> QED BY <1>1, EndInvariant, PTL

\* A clean end is the end of the whole answer: always if it declares its
\* length, and otherwise unless the stream or the application failed.
THEOREM CleanIsComplete == Spec => []CleanMeansComplete
<1>1. EndInv => CleanMeansComplete
  BY EndFacts
<1> QED BY <1>1, EndInvariant, PTL

-----------------------------------------------------------------------------
(* EdgeProxy implements ProxyService. *)

\* The client has seen no status line, or the one in the proxy's ResponseWriter;
\* that is one of the application or of the edge node, and in the second case
\* there is no body.
Shown(r) ==
  /\ pc[r]["proxy"] # "done" =>
       \/ head[r]["cli"] = NoHead
       \/ pc[r]["proxy"] \in {"copy", "flush"} /\ head[r]["cli"] = held[r]["proxy"].head
  /\ pc[r]["proxy"] \in {"copy", "flush"} => held[r]["proxy"].head.by \in {"app", "edge"}
  /\ head[r]["p2p"].by = "edge" => held[r]["edge"].written = 0
  /\ held[r]["proxy"].head.by = "edge" => held[r]["edge"].written = 0

\* A step that shows the client nothing and moves the proxy within a phase.
LEMMA ShownKept ==
  ASSUME NEW r, Shown(r),
         head'[r]["cli"] = head[r]["cli"], head'[r]["p2p"] = head[r]["p2p"],
         held'[r]["proxy"].head = held[r]["proxy"].head,
         held'[r]["edge"].written = held[r]["edge"].written,
         \/ pc'[r]["proxy"] = pc[r]["proxy"]
         \/ pc'[r]["proxy"] = "done"
         \/ pc'[r]["proxy"] \in {"copy", "flush"} /\ pc[r]["proxy"] \in {"copy", "flush"}
         \/ pc'[r]["proxy"] \in Early /\ pc[r]["proxy"] \in Early
  PROVE  Shown(r)'
BY DEF Shown, Early

LEMMA ShownProxy ==
  ASSUME EndInv, NEW r \in Requests, Shown(r),
         \/ Arrive(r) \/ Middleware(r) \/ AuthReply(r) \/ Handle(r)
         \/ DialOpens(r) \/ DialFails(r) \/ AwaitFails(r)
  PROVE  Shown(r)'
<1>1. FlowOK
  BY EndTypes
<1>2. ASSUME NEW label \in Early, Goto(r, "proxy", label), UNCHANGED flow,
             pc[r]["proxy"] \in Early
      PROVE  Shown(r)'
  <2>1. pc'[r]["proxy"] = label
    BY <1>1, <1>2, GotoGives DEF Threads, Hops
  <2> QED BY <1>2, <2>1, ShownKept DEF flow
<1>3. ASSUME NEW code, Reply(r, "proxy", code) \/ Panic(r, "proxy")
      PROVE  Shown(r)'
  <2>1. pc'[r]["proxy"] = "done"
    BY <1>1, <1>3, GotoGives DEF Reply, Panic, Threads, Hops
  <2>2. head'[r]["p2p"] = head[r]["p2p"]
    <3>1. \E status, end : Put(r, "cli", status, <<>>, end)
      BY <1>3 DEF Reply, Panic, Out, Hops
    <3> QED BY <1>1, <3>1, PutGives DEF Links
  <2>3. /\ held'[r]["edge"] = held[r]["edge"]
        /\ held'[r]["proxy"] = held[r]["proxy"] \/ held'[r]["proxy"] = Unwritten
    BY <1>1, <1>3 DEF Reply, Panic, FlowOK, Hops
  <2> QED BY <2>1, <2>2, <2>3 DEF Shown, Unwritten, NoHead
<1>4. CASE Forwarded(r) /\ pc[r]["proxy"] \in Early
  BY <1>2, <1>3, <1>4 DEF Forwarded, Early
<1>5. CASE Arrive(r)
  BY <1>2, <1>5 DEF Arrive, Early
<1>6. CASE Middleware(r) \/ AuthReply(r)
  BY <1>2, <1>3, <1>4, <1>6 DEF Middleware, AuthReply, Early
<1>7. CASE Handle(r)
  BY <1>2, <1>3, <1>7 DEF Handle, Early
<1>8. CASE DialOpens(r)
  <2>1. pc[r]["proxy"] \in Early /\ pc'[r]["proxy"] \in Early
    BY <1>1, <1>8 DEF DialOpens, FlowOK, Threads, Hops, Early
  <2> QED BY <1>8, <2>1, ShownKept DEF DialOpens, flow
<1>9. CASE DialFails(r) \/ AwaitFails(r)
  BY <1>3, <1>9 DEF DialFails, AwaitFails
<1> QED BY <1>5, <1>6, <1>7, <1>8, <1>9

LEMMA ShownOthers ==
  ASSUME EndInv, NEW r \in Requests, Shown(r),
         \/ EdgeValidate(r) \/ EdgeCall(r) \/ EdgeCallFails(r) \/ AppStep(r)
         \/ AppDies(r) \/ ClientLeaves(r) \/ StreamBreaks(r)
  PROVE  Shown(r)'
<1>1. FlowOK /\ Ends(r)
  BY EndTypes
<1>2. pc'[r]["proxy"] = pc[r]["proxy"] /\ held' = held
  BY <1>1 DEF EdgeValidate, EdgeCall, EdgeCallFails, AppStep, AppAnswers, AppWrites,
     AppCloses, AppStops, AppDies, ClientLeaves, StreamBreaks, Reply, Goto, flow, local,
     FlowOK, Threads, Hops
<1>3. CASE \E code : Reply(r, "edge", code) /\ pc[r]["edge"] \in {"validate", "call", "await"}
  <2>1. PICK code : Reply(r, "edge", code) /\ pc[r]["edge"] \in {"validate", "call", "await"}
    BY <1>3
  <2>2. Put(r, "p2p", Answer("edge", code), <<>>, "clean")
    BY <2>1 DEF Reply, Out, Hops
  <2>3. held[r]["edge"].written = 0
    BY <1>1, <2>1 DEF Ends, Order, Unwritten
  <2>4. head'[r]["cli"] = head[r]["cli"]
    BY <1>1, <2>2, PutGives DEF Links
  <2> QED BY <1>2, <2>3, <2>4 DEF Shown
<1>4. CASE UNCHANGED head
  BY <1>2, <1>4, ShownKept
<1>5. CASE \E status, pieces, end : Put(r, "app", status, pieces, end)
  <2>1. head'[r]["cli"] = head[r]["cli"] /\ head'[r]["p2p"] = head[r]["p2p"]
    BY <1>1, <1>5, PutGives DEF Links
  <2> QED BY <1>2, <2>1, ShownKept
<1>6. CASE EdgeValidate(r) \/ EdgeCall(r) \/ EdgeCallFails(r)
  BY <1>3, <1>4, <1>6 DEF EdgeValidate, EdgeCall, EdgeCallFails, flow
<1>7. CASE AppStep(r)
  BY <1>4, <1>5, <1>7 DEF AppStep, AppAnswers, AppWrites, AppCloses, AppStops, flow
<1>8. CASE AppDies(r) \/ ClientLeaves(r) \/ StreamBreaks(r)
  BY <1>4, <1>8 DEF AppDies, ClientLeaves, StreamBreaks, flow
<1> QED BY <1>6, <1>7, <1>8

LEMMA ShownCopy ==
  ASSUME EndInv, NEW r \in Requests, NEW h \in Hops, Shown(r),
         Copy(r, h) \/ BufferFills(r, h)
  PROVE  Shown(r)'
<1>1. FlowOK /\ Ends(r)
  BY EndTypes
<1>2. h = "edge" => pc'[r]["proxy"] = pc[r]["proxy"]
  BY <1>1 DEF Copy, CopyHead, CopyPiece, CopyFlush, CopyWriteFails, CopyEnds, BufferFills,
     Goto, FlowOK, Threads, Hops
<1>3. h = "proxy" => held'[r]["edge"] = held[r]["edge"]
  BY <1>1 DEF Copy, CopyHead, CopyPiece, CopyFlush, CopyWriteFails, CopyEnds, BufferFills,
     Flush, flow, FlowOK, Hops
<1>4. CASE CopyHead(r, h)
  <2>1. CASE h = "edge"
    <3>1. held'[r]["proxy"] = held[r]["proxy"] /\ held'[r]["edge"].written = held[r]["edge"].written
      BY <1>1, <1>4, <2>1 DEF CopyHead, FlowOK, Writers, Hops
    <3> QED BY <1>2, <1>4, <2>1, <3>1, ShownKept DEF CopyHead
  <2>2. CASE h = "proxy"
    <3>1. /\ pc[r]["proxy"] = "await" /\ pc'[r]["proxy"] = "copy" /\ head' = head
          /\ held'[r]["proxy"].head = head[r]["p2p"] /\ head[r]["p2p"] # NoHead
      BY <1>1, <1>4, <2>2 DEF CopyHead, Goto, FlowOK, Writers, Hops, Threads, In
    <3>2. head[r]["p2p"].by \in {"app", "edge"}
      <4>1. head[r]["p2p"] \in Statuses
        BY <1>1, <3>1 DEF FlowOK, Lines, Links
      <4> QED BY <1>1, <4>1 DEF Statuses, Hops, Ends, Says
    <3> QED BY <1>3, <2>2, <3>1, <3>2 DEF Shown
  <2> QED BY <2>1, <2>2 DEF Hops
<1>5. CASE CopyPiece(r, h)
  <2>1. CASE h = "edge"
    <3>1. held'[r]["proxy"] = held[r]["proxy"] /\ head' = head /\ pc[r]["edge"] = "copy"
      BY <1>1, <1>5, <2>1 DEF CopyPiece, FlowOK, Hops
    <3>2. head[r]["p2p"].by # "edge" /\ held[r]["proxy"].head.by # "edge"
      BY <1>1, <3>1 DEF Ends, Says, Tells, Links, Hops
    <3> QED BY <1>2, <2>1, <3>1, <3>2 DEF Shown
  <2>2. CASE h = "proxy"
    <3>1. /\ pc[r]["proxy"] = "copy" /\ pc'[r]["proxy"] \in {"copy", "flush"} /\ head' = head
          /\ held'[r]["proxy"].head = held[r]["proxy"].head
      BY <1>1, <1>5, <2>2
         DEF CopyPiece, AfterWrite, Written, Goto, FlowOK, Hops, Threads
    <3> QED BY <1>3, <2>2, <3>1, ShownKept
  <2> QED BY <2>1, <2>2 DEF Hops
<1>6. CASE CopyWriteFails(r, h)
  <2>1. /\ pc'[r]["proxy"] = pc[r]["proxy"] \/ pc'[r]["proxy"] = "done"
        /\ UNCHANGED <<head, held>>
    BY <1>1, <1>2, <1>6 DEF CopyWriteFails, Goto, flow, FlowOK, Hops, Threads
  <2> QED BY <2>1, ShownKept
<1>7. CASE CopyFlush(r, h) \/ BufferFills(r, h) \/ CopyEnds(r, h)
  <2>1. PICK end : Put(r, Out[h], held[r][h].head, held[r][h].data, end)
    BY <1>7 DEF CopyFlush, BufferFills, CopyEnds, Flush
  <2>2. /\ pc[r][h] \in {"copy", "flush"} /\ pc'[r][h] \in {"copy", "flush", "done"}
    BY <1>1, <1>7 DEF CopyFlush, BufferFills, CopyEnds, Goto, FlowOK, Hops, Threads
  <2>3. \A g \in Hops : held'[r][g].head = held[r][g].head
                        /\ held'[r][g].written = held[r][g].written
    <3>1. held' = [held EXCEPT ![r][h].data = <<>>]
      BY <1>7 DEF CopyFlush, BufferFills, CopyEnds, Flush
    <3> QED BY <1>1, <3>1 DEF FlowOK, Writers
  <2>4. head'[r][Out[h]] = head[r][Out[h]] \/ head'[r][Out[h]] = held[r][h].head
    BY <1>1, <2>1, PutGives, HopLinks
  <2>5. \A l \in Links \ {Out[h]} : head'[r][l] = head[r][l]
    BY <1>1, <2>1, PutGives, HopLinks
  <2>6. CASE h = "edge"
    <3>1. held[r]["edge"].head.by = "app"
      BY <1>1, <2>2, <2>6 DEF Ends, Says
    <3> QED BY <1>2, <2>3, <2>4, <2>5, <2>6, <3>1 DEF Shown, Out, Hops, Links
  <2>7. CASE h = "proxy"
    BY <2>2, <2>3, <2>4, <2>5, <2>7 DEF Shown, Out, Hops, Links
  <2> QED BY <2>6, <2>7 DEF Hops
<1> QED BY <1>4, <1>5, <1>6, <1>7 DEF Copy

LEMMA ShownStart == Init => \A r \in Requests : Shown(r)
<1> SUFFICES ASSUME Init, NEW r \in Requests PROVE Shown(r)
  OBVIOUS
<1>1. /\ pc[r]["proxy"] = "idle"
      /\ \A l \in Links : head[r][l] = NoHead
      /\ \A h \in Hops : held[r][h] = Unwritten
  BY DEF Init, Threads, Hops
<1> QED BY <1>1 DEF Shown, Links, Hops, Unwritten, NoHead

LEMMA UntouchedShown ==
  ASSUME NEW q, Shown(q), Untouched(q)
  PROVE  Shown(q)'
BY DEF Shown, Untouched

LEMMA ShownStep ==
  ASSUME EndInv, \A q \in Requests : Shown(q), [Next]_vars
  PROVE  \A q \in Requests : Shown(q)'
<1>1. CASE UNCHANGED vars
  BY <1>1, UntouchedShown DEF vars, Untouched
<1>2. CASE Network
  BY <1>2, UntouchedShown DEF Network, RelayStarts, TableSyncs, NodeMoves, AddressExpires,
     local, flow, Untouched
<1>3. ASSUME NEW r \in Requests, Arrive(r) \/ ProxyStep(r) \/ EdgeStep(r) \/ AppStep(r)
                                 \/ Environment(r)
      PROVE  \A q \in Requests : Shown(q)'
  <2>1. \A q \in Requests \ {r} : Shown(q)'
    BY <1>3, Aside, UntouchedShown DEF EndInv
  <2>2. Shown(r)'
    BY <1>3, ShownProxy, ShownOthers, ShownCopy
       DEF ProxyStep, EdgeStep, Environment, Hops
  <2> QED BY <2>1, <2>2
<1> QED BY <1>1, <1>2, <1>3 DEF Next

-----------------------------------------------------------------------------
(* What a step shows the client. *)

View(q) == <<head[q]["cli"], wire[q]["cli"], fin[q]["cli"], Ran(q)>>

LEMMA Hidden ==
  ASSUME \A q \in Requests : View(q)' = View(q)
  PROVE  UNCHANGED Service!vars
BY DEF Service!vars, View

\* A run of pieces is the one that Advance adds.
LEMMA Numbered ==
  ASSUME NEW s \in Pieces, NEW n \in Nat, After(s, n)
  PROVE  Len(s) \in Nat /\ s = [i \in 1..Len(s) |-> n + i]
BY DEF After, Pieces

\* What is put on the client's link, when it is sound, is an Advance.
LEMMA Advances ==
  ASSUME FlowOK, NEW r \in Requests, NEW status, NEW pieces \in Pieces,
         NEW end \in {"open", "clean", "short", "broken"},
         Put(r, "cli", status, pieces, end),
         \A q \in Requests : Ran(q)' = Ran(q),
         fin[r]["cli"] \notin {"clean", "short"},
         head[r]["cli"] = NoHead \/ head[r]["cli"] = status,
         status.by = "app" => Ran(r),
         Service!Refuses(status) => ~Ran(r),
         end = "clean" => status.by # "none",
         ~Closed(r, "cli") => After(pieces, Len(wire[r]["cli"])),
         pieces # <<>> => status.by = "app"
  PROVE  Service!Next \/ UNCHANGED Service!vars
<1>1. \A q \in Requests \ {r} : View(q)' = View(q)
  BY PutGives DEF View, Links
<1>2. CASE Closed(r, "cli")
  <2>1. View(r)' = View(r)
    BY <1>2, PutGives DEF View, Links
  <2> QED BY <1>1, <2>1, Hidden
<1>3. CASE ~Closed(r, "cli")
  <2>1. /\ head'[r]["cli"] = status /\ wire'[r]["cli"] = wire[r]["cli"] \o pieces
        /\ fin'[r]["cli"] = end
    BY <1>3, PutGives DEF Links
  <2>2. fin[r]["cli"] = "open"
    BY <1>3 DEF Closed, FlowOK, Links
  <2>3. wire[r]["cli"] \in Pieces /\ Len(wire[r]["cli"]) \in Nat
    BY DEF FlowOK, Links, Pieces
  <2>4. Len(pieces) \in Nat /\ pieces = [i \in 1..Len(pieces) |-> Len(wire[r]["cli"]) + i]
    BY <1>3, <2>3, Numbered
  <2>5. Len(pieces) \in 0..Len(wire'[r]["cli"])
    BY <2>1, <2>3, <2>4 DEF Pieces
  <2>6. Len(pieces) > 0 => status.by = "app"
    BY <2>4 DEF Pieces
  <2>7. Service!Advance(r)
    <3>1. head[r]["cli"].by # "none" => status = head[r]["cli"]
      BY DEF NoHead
    <3> QED BY <1>1, <2>1, <2>2, <2>4, <2>5, <2>6, <3>1
       DEF Service!Advance, Service!Answered, View
  <2> QED BY <2>7 DEF Service!Next
<1> QED BY <1>2, <1>3


\* The application is asked once, and before the client has seen an answer.
LEMMA Performs ==
  ASSUME EndInv, NEW r \in Requests, pc[r]["edge"] = "call", UNCHANGED flow,
         \A q \in Requests \ {r} : pc'[q] = pc[q],
         pc'[r]["app"] = "run"
  PROVE  Service!Next
<1>1. FlowOK /\ Order(r) /\ Tells(pc[r], head[r]["cli"])
  BY EndTypes DEF Ends, Says, Links
<1>2. pc[r]["app"] = "idle"
  BY <1>1 DEF Order
<1>3. ~Ran(r) /\ head[r]["cli"].by = "none"
  <2>1. head[r]["cli"] \in Lines
    BY <1>1 DEF FlowOK, Links
  <2>2. head[r]["cli"].by \notin {"app", "edge", "proxy"}
    BY <1>1, <1>2 DEF Tells
  <2> QED BY <1>2, <2>1, <2>2 DEF Lines, Statuses, NoHead, Hops, Ran
<1>4. Ran(r)' /\ \A q \in Requests \ {r} : Ran(q)' = Ran(q)
  BY DEF Ran
<1>5. Service!Perform(r)
  <2>1. [q \in Requests |-> Ran(q)]' = [[q \in Requests |-> Ran(q)] EXCEPT ![r] = TRUE]
    BY <1>4
  <2> QED BY <1>3, <2>1 DEF Service!Perform, Service!Answered, flow
<1> QED BY <1>5 DEF Service!Next

\* The step of the edge node that hands the application the request.
Asks(r) ==
  /\ EdgeCall(r) /\ UNCHANGED flow
  /\ pc' = [pc EXCEPT ![r]["edge"] = "await", ![r]["app"] = "run"]

\* No other step does.
LEMMA RanKept ==
  ASSUME EndInv, NEW r \in Requests,
         \/ Arrive(r) \/ ProxyStep(r) \/ EdgeStep(r) \/ AppStep(r) \/ Environment(r),
         ~Asks(r)
  PROVE  \A q \in Requests : Ran(q)' = Ran(q)
<1> DEFINE Kept == pc'[r]["app"] = "idle" <=> pc[r]["app"] = "idle"
<1>1. FlowOK
  BY EndTypes
<1>2. \A q \in Requests \ {r} : Ran(q)' = Ran(q)
  BY Aside DEF Untouched, Ran, EndInv
<1> SUFFICES Kept
  BY <1>2 DEF Ran
<1>3. ASSUME NEW t \in Threads \ {"app"}, NEW label, Goto(r, t, label) PROVE Kept
  BY <1>1, <1>3, GotoGives DEF Threads, Hops
<1>4. ASSUME pc' = pc PROVE Kept
  BY <1>4
<1>5. ASSUME NEW h \in Hops, NEW code, Reply(r, h, code) \/ Panic(r, h)
      PROVE  Kept
  BY <1>3, <1>5 DEF Reply, Panic, Threads, Hops
<1>6. CASE Arrive(r)
  BY <1>3, <1>6 DEF Arrive, Threads, Hops
<1>7. CASE Middleware(r) \/ AuthReply(r)
  <2>1. Forwarded(r) => Kept
    BY <1>3, <1>5 DEF Forwarded, Threads, Hops
  <2> QED BY <1>3, <1>5, <1>7, <2>1 DEF Middleware, AuthReply, Threads, Hops
<1>8. CASE Handle(r) \/ DialFails(r) \/ AwaitFails(r)
  BY <1>3, <1>5, <1>8 DEF Handle, DialFails, AwaitFails, Threads, Hops
<1>9. CASE DialOpens(r)
  BY <1>1, <1>9 DEF DialOpens, FlowOK, Threads, Hops
<1>10. CASE EdgeValidate(r) \/ EdgeCallFails(r)
  BY <1>3, <1>5, <1>10 DEF EdgeValidate, EdgeCallFails, Threads, Hops
<1>11. CASE EdgeCall(r)
  BY <1>5, <1>11 DEF EdgeCall, Asks, Hops
<1>12. ASSUME NEW h \in Hops, Copy(r, h) \/ BufferFills(r, h) PROVE Kept
  BY <1>3, <1>4, <1>12 DEF Copy, CopyHead, CopyPiece, CopyFlush, CopyWriteFails, CopyEnds,
     BufferFills, Threads, Hops
<1>13. CASE AppStep(r) \/ AppDies(r)
  <2>1. pc' = pc \/ (pc[r]["app"] # "idle" /\ \E l \in {"write", "done"} : Goto(r, "app", l))
    BY <1>13 DEF AppStep, AppAnswers, AppWrites, AppCloses, AppStops, AppDies
  <2> QED BY <1>1, <1>4, <2>1, GotoGives DEF Threads, Hops
<1>14. CASE ClientLeaves(r) \/ StreamBreaks(r)
  BY <1>4, <1>14 DEF ClientLeaves, StreamBreaks
<1> QED BY <1>6, <1>7, <1>8, <1>9, <1>10, <1>11, <1>12, <1>13, <1>14
        DEF ProxyStep, EdgeStep, Environment, Hops


\* A proxy that has not copied a status line yet has shown the client nothing.
LEMMA NothingYet ==
  ASSUME EndInv, NEW r \in Requests, Shown(r), pc[r]["proxy"] \in Early
  PROVE  head[r]["cli"] = NoHead /\ fin[r]["cli"] \notin {"clean", "short"}
BY EndTypes DEF Shown, Early, Ends, ProxyEnded

\* The proxy ends the request by itself.
LEMMA RepliesShown ==
  ASSUME EndInv, NEW r \in Requests, Shown(r), NEW code,
         \/ Reply(r, "proxy", code) /\ pc[r]["proxy"] \in BeforeDial
         \/ Panic(r, "proxy") /\ pc[r]["proxy"] \in Early,
         \A q \in Requests : Ran(q)' = Ran(q)
  PROVE  Service!Next \/ UNCHANGED Service!vars
<1>1. FlowOK /\ Order(r)
  BY EndTypes DEF Ends
<1>2. head[r]["cli"] = NoHead /\ fin[r]["cli"] \notin {"clean", "short"}
  BY NothingYet DEF BeforeDial, Early
<1>3. <<>> \in Pieces /\ \A n : After(<<>>, n)
  BY AfterFacts DEF Pieces
<1>4. CASE Reply(r, "proxy", code) /\ pc[r]["proxy"] \in BeforeDial
  <2>1. Put(r, "cli", Answer("proxy", code), <<>>, "clean")
    BY <1>4 DEF Reply, Out, Hops
  <2>2. ~Ran(r)
    BY <1>1, <1>4 DEF Order, BeforeDial, Ran
  <2>3. Answer("proxy", code).by = "proxy"
    BY DEF Answer
  <2> QED BY <1>1, <1>2, <1>3, <2>1, <2>2, <2>3, Advances
<1>5. CASE Panic(r, "proxy")
  <2>1. Put(r, "cli", NoHead, <<>>, "broken")
    BY <1>2, <1>5 DEF Panic, Out, Hops
  <2>2. NoHead.by = "none" /\ ~Service!Refuses(NoHead)
    BY DEF NoHead, Service!Refuses
  <2> QED BY <1>1, <1>2, <1>3, <2>1, <2>2, Advances
<1> QED BY <1>4, <1>5

\* The proxy flushes what its ResponseWriter holds.
LEMMA FlushShown ==
  ASSUME EndInv, NEW r \in Requests, Shown(r), pc[r]["proxy"] \in {"copy", "flush"},
         NEW end \in {"open", "clean", "short", "broken"},
         Put(r, "cli", held[r]["proxy"].head, held[r]["proxy"].data, end),
         \A q \in Requests : Ran(q)' = Ran(q)
  PROVE  Service!Next \/ UNCHANGED Service!vars
<1> DEFINE status == held[r]["proxy"].head
           data == held[r]["proxy"].data
           w == held[r]["proxy"].written
<1>1. FlowOK /\ Stream(r) /\ Order(r) /\ Tells(pc[r], status)
  BY EndTypes DEF Ends, Says, Hops
<1>2. data \in Pieces /\ w \in Nat /\ Len(data) \in Nat
  BY <1>1 DEF FlowOK, Writers, Hops, Pieces
<1>3. fin[r]["cli"] \notin {"clean", "short"} /\ (head[r]["cli"] = NoHead \/ head[r]["cli"] = status)
  BY EndTypes DEF Shown, Ends, ProxyEnded
<1>4. status.by \in {"app", "edge"}
  BY DEF Shown
<1>5. status.by = "app" => Ran(r)
  BY <1>1 DEF Tells, Ran
<1>6. Service!Refuses(status) => ~Ran(r)
  BY <1>1, <1>4 DEF Tells, Order, Service!Refuses, Ran
<1>7. ~Closed(r, "cli") => After(data, Len(wire[r]["cli"]))
  <2>1. After(data, w - Len(data))
    BY <1>1 DEF Stream, Hops
  <2>2. ~Closed(r, "cli") => Len(wire[r]["cli"]) + Len(data) = w
    BY <1>1 DEF Stream
  <2>3. Len(wire[r]["cli"]) \in Nat
    BY <1>1 DEF FlowOK, Links, Pieces
  <2>4. \A a, b, c \in Nat : a + b = c => c - b = a
    OBVIOUS
  <2>5. ~Closed(r, "cli") => w - Len(data) = Len(wire[r]["cli"])
    BY <1>2, <2>2, <2>3, <2>4
  <2> QED BY <2>1, <2>5
<1>8. data # <<>> => status.by = "app"
  <2>1. data # <<>> => Len(data) > 0
    BY <1>2 DEF Pieces
  <2>2. Len(data) <= w /\ w + Len(wire[r]["p2p"]) <= held[r]["edge"].written
    BY <1>1 DEF Stream, Hops
  <2>3. Len(wire[r]["p2p"]) \in Nat /\ held[r]["edge"].written \in Nat
    BY <1>1 DEF FlowOK, Writers, Hops, Links, Pieces
  <2>4. \A a, b, c, d \in Nat : a > 0 /\ a <= b /\ b + c <= d => d # 0
    OBVIOUS
  <2>5. data # <<>> => held[r]["edge"].written # 0
    <3> HIDE DEF data, w
    <3> QED BY <1>2, <2>1, <2>2, <2>3, <2>4
  <2> QED BY <1>4, <2>5 DEF Shown
<1> QED BY <1>1, <1>2, <1>3, <1>4, <1>5, <1>6, <1>7, <1>8, Advances


\* The steps of the other threads and of the environment show the client nothing.
LEMMA OthersHidden ==
  ASSUME EndInv, NEW r \in Requests,
         \/ EdgeStep(r) \/ AppStep(r) \/ AppDies(r) \/ ClientLeaves(r) \/ StreamBreaks(r)
         \/ BufferFills(r, "edge")
  PROVE  /\ head'[r]["cli"] = head[r]["cli"] /\ wire'[r]["cli"] = wire[r]["cli"]
         /\ fin'[r]["cli"] = fin[r]["cli"]
<1>1. FlowOK
  BY EndTypes
<1> DEFINE Seen == /\ head'[r]["cli"] = head[r]["cli"] /\ wire'[r]["cli"] = wire[r]["cli"]
                   /\ fin'[r]["cli"] = fin[r]["cli"]
<1>2. ASSUME NEW l \in {"app", "p2p"}, \E status, pieces, end : Put(r, l, status, pieces, end)
      PROVE  Seen
  BY <1>1, <1>2, PutGives DEF Links
<1>3. ASSUME UNCHANGED <<head, wire, fin>> PROVE Seen
  BY <1>3
<1> SUFFICES Seen
  OBVIOUS
<1> HIDE DEF Seen
<1>4. ASSUME NEW code, Reply(r, "edge", code) PROVE Seen
  BY <1>2, <1>4 DEF Reply, Out, Hops
<1>5. CASE EdgeValidate(r) \/ EdgeCall(r) \/ EdgeCallFails(r)
  BY <1>3, <1>4, <1>5 DEF EdgeValidate, EdgeCall, EdgeCallFails, flow
<1>6. CASE Copy(r, "edge") \/ BufferFills(r, "edge")
  <2>1. CASE CopyPiece(r, "edge")
    BY <1>1, <2>1 DEF CopyPiece, FlowOK, In, Hops, Seen
  <2>2. CASE CopyHead(r, "edge") \/ CopyWriteFails(r, "edge")
    BY <1>3, <2>2 DEF CopyHead, CopyWriteFails, flow
  <2>3. CASE CopyFlush(r, "edge") \/ BufferFills(r, "edge") \/ CopyEnds(r, "edge")
    BY <1>2, <2>3 DEF CopyFlush, BufferFills, CopyEnds, Flush, Out, Hops
  <2> QED BY <1>6, <2>1, <2>2, <2>3 DEF Copy
<1>7. CASE AppStep(r)
  BY <1>2, <1>3, <1>7 DEF AppStep, AppAnswers, AppWrites, AppCloses, AppStops, flow
<1>8. CASE AppDies(r) \/ StreamBreaks(r)
  BY <1>1, <1>8 DEF AppDies, StreamBreaks, FlowOK, Links, flow, Seen
<1>9. CASE ClientLeaves(r)
  BY <1>3, <1>9 DEF ClientLeaves, flow
<1> QED BY <1>5, <1>6, <1>7, <1>8, <1>9 DEF EdgeStep

\* A step that hides what it does implements a stutter.
LEMMA StepHidden ==
  ASSUME EndInv, NEW r \in Requests,
         \/ Arrive(r) \/ ProxyStep(r) \/ EdgeStep(r) \/ AppStep(r) \/ Environment(r),
         head'[r]["cli"] = head[r]["cli"], wire'[r]["cli"] = wire[r]["cli"],
         fin'[r]["cli"] = fin[r]["cli"],
         \A q \in Requests : Ran(q)' = Ran(q)
  PROVE  UNCHANGED Service!vars
<1>1. \A q \in Requests \ {r} : View(q)' = View(q)
  BY Aside DEF EndInv, Untouched, View, Ran
<1>2. View(r)' = View(r)
  BY DEF View
<1> QED BY <1>1, <1>2, Hidden

\* The steps of the proxy.
LEMMA ProxyShown ==
  ASSUME EndInv, NEW r \in Requests, Shown(r),
         Arrive(r) \/ ProxyStep(r) \/ BufferFills(r, "proxy"),
         \A q \in Requests : Ran(q)' = Ran(q)
  PROVE  Service!Next \/ UNCHANGED Service!vars
<1> DEFINE Goal == Service!Next \/ UNCHANGED Service!vars
<1>1. FlowOK
  BY EndTypes
<1>2. ASSUME UNCHANGED <<head, wire, fin>> PROVE Goal
  BY <1>2, StepHidden DEF Environment, Hops
<1> SUFFICES Goal
  OBVIOUS
<1> HIDE DEF Goal
<1>3. ASSUME NEW code, Reply(r, "proxy", code), pc[r]["proxy"] \in BeforeDial PROVE Goal
  BY <1>3, RepliesShown DEF Goal
<1>4. ASSUME Panic(r, "proxy"), pc[r]["proxy"] \in Early PROVE Goal
  BY <1>4, RepliesShown DEF Goal
<1>5. CASE Arrive(r) \/ DialOpens(r)
  BY <1>2, <1>5 DEF Arrive, DialOpens, flow
<1>6. CASE Middleware(r) \/ AuthReply(r)
  <2>1. pc[r]["proxy"] \in BeforeDial \cap Early
    BY <1>6 DEF Middleware, AuthReply, BeforeDial, Early
  <2>2. Forwarded(r) => Goal
    BY <1>2, <1>4, <2>1 DEF Forwarded, flow
  <2> QED BY <1>2, <1>3, <1>6, <2>1, <2>2 DEF Middleware, AuthReply, flow
<1>7. CASE Handle(r)
  BY <1>2, <1>3, <1>7 DEF Handle, BeforeDial, flow
<1>8. CASE DialFails(r) \/ AwaitFails(r)
  BY <1>4, <1>8 DEF DialFails, AwaitFails, Early
<1>9. CASE CopyHead(r, "proxy") \/ CopyWriteFails(r, "proxy")
  BY <1>2, <1>9 DEF CopyHead, CopyWriteFails, flow
<1>10. CASE CopyPiece(r, "proxy")
  <2>1. /\ UNCHANGED <<head, fin>>
        /\ wire'[r]["cli"] = wire[r]["cli"]
    BY <1>1, <1>10 DEF CopyPiece, FlowOK, In, Hops
  <2> QED BY <2>1, StepHidden DEF Goal, Environment, Hops
<1>11. CASE CopyFlush(r, "proxy") \/ BufferFills(r, "proxy") \/ CopyEnds(r, "proxy")
  <2>1. PICK end \in {"open", "clean", "short", "broken"} :
          Put(r, "cli", held[r]["proxy"].head, held[r]["proxy"].data, end)
    BY <1>11 DEF CopyFlush, BufferFills, CopyEnds, Flush, Out, Hops
  <2>2. pc[r]["proxy"] \in {"copy", "flush"}
    BY <1>11 DEF CopyFlush, BufferFills, CopyEnds
  <2> QED BY <2>1, <2>2, FlushShown DEF Goal
<1> QED BY <1>5, <1>6, <1>7, <1>8, <1>9, <1>10, <1>11 DEF ProxyStep, Copy


LEMMA ServiceStep ==
  ASSUME EndInv, \A q \in Requests : Shown(q), [Next]_vars
  PROVE  [Service!Next]_(Service!vars)
<1>1. CASE Network \/ UNCHANGED vars
  <2>1. \A q \in Requests : View(q)' = View(q)
    BY <1>1 DEF Network, RelayStarts, TableSyncs, NodeMoves, AddressExpires, local, flow,
       vars, View, Ran
  <2> QED BY <2>1, Hidden
<1>2. ASSUME NEW r \in Requests, Arrive(r) \/ ProxyStep(r) \/ EdgeStep(r) \/ AppStep(r)
                                 \/ Environment(r)
      PROVE  Service!Next \/ UNCHANGED Service!vars
  <2>1. CASE Asks(r)
    <3>1. /\ \A q \in Requests \ {r} : pc'[q] = pc[q]
          /\ pc'[r]["app"] = "run" /\ pc[r]["edge"] = "call" /\ UNCHANGED flow
      BY <2>1, EndTypes DEF Asks, EdgeCall, FlowOK, Threads, Hops
    <3> QED BY <3>1, Performs
  <2>2. CASE ~Asks(r)
    <3>1. \A q \in Requests : Ran(q)' = Ran(q)
      BY <1>2, <2>2, RanKept
    <3>2. CASE Arrive(r) \/ ProxyStep(r) \/ BufferFills(r, "proxy")
      BY <3>1, <3>2, ProxyShown
    <3>3. CASE \/ EdgeStep(r) \/ AppStep(r) \/ AppDies(r) \/ ClientLeaves(r)
               \/ StreamBreaks(r) \/ BufferFills(r, "edge")
      BY <1>2, <3>1, <3>3, OthersHidden, StepHidden
    <3> QED BY <1>2, <3>2, <3>3 DEF Environment, Hops
  <2> QED BY <2>1, <2>2
<1> QED BY <1>1, <1>2 DEF Next

\* Before any request the client of ProxyService has seen nothing, either.
LEMMA ServiceStart == Init => Service!Init
<1> SUFFICES ASSUME Init PROVE Service!Init
  OBVIOUS
<1>1. \A r \in Requests :
        /\ head[r]["cli"] = NoHead /\ wire[r]["cli"] = <<>> /\ fin[r]["cli"] = "open"
        /\ Ran(r) = FALSE
  BY DEF Init, Links, Threads, Ran
<1> QED BY <1>1 DEF Service!Init, NoHead

\* What a client may rely on, ProxyService, is what the network does: every step
\* of the handlers, of the application, of the environment and of the peer table
\* is a step of ProxyService or leaves the client's view as it is.
THEOREM ImplementsService == Spec => ServicePromise
<1> DEFINE ShownInv == \A r \in Requests : Shown(r)
<1>1. Init => Service!Init
  BY ServiceStart
<1>2. Init => ShownInv
  BY ShownStart
<1>3. EndInv /\ ShownInv /\ [Next]_vars => ShownInv'
  BY ShownStep
<1>4. EndInv /\ ShownInv /\ [Next]_vars => [Service!Next]_(Service!vars)
  BY ServiceStep
<1> HIDE DEF ShownInv
<1>5. Spec => [](EndInv /\ ShownInv)
  BY <1>2, <1>3, EndInvariant, PTL DEF Spec
<1>6. Spec => Service!Init /\ [][Service!Next]_(Service!vars)
  BY <1>1, <1>4, <1>5, PTL DEF Spec
<1> QED BY <1>6 DEF ServicePromise, Service!Spec


\* An answer that a client has been given stands: its status line does not
\* change, no piece is taken back or altered, nothing follows the end, and once
\* the client has a status line it is settled whether the application gets the
\* request.
THEOREM AnswerStands ==
  Spec => [][\A r \in Requests :
    /\ head[r]["cli"] # NoHead => head'[r]["cli"] = head[r]["cli"] /\ Ran(r)' = Ran(r)
    /\ \A i \in DOMAIN wire[r]["cli"] :
         i \in DOMAIN wire'[r]["cli"] /\ wire'[r]["cli"][i] = wire[r]["cli"][i]
    /\ fin[r]["cli"] # "open" =>
         /\ head'[r]["cli"] = head[r]["cli"] /\ wire'[r]["cli"] = wire[r]["cli"]
         /\ fin'[r]["cli"] = fin[r]["cli"]]_vars
<1> DEFINE Stands(r) ==
      /\ head[r]["cli"] # NoHead => head'[r]["cli"] = head[r]["cli"] /\ Ran(r)' = Ran(r)
      /\ \A i \in DOMAIN wire[r]["cli"] :
           i \in DOMAIN wire'[r]["cli"] /\ wire'[r]["cli"][i] = wire[r]["cli"][i]
      /\ fin[r]["cli"] # "open" =>
           /\ head'[r]["cli"] = head[r]["cli"] /\ wire'[r]["cli"] = wire[r]["cli"]
           /\ fin'[r]["cli"] = fin[r]["cli"]
<1>1. ASSUME EndInv, [Service!Next]_(Service!vars), NEW r \in Requests PROVE Stands(r)
  <2>1. /\ head[r]["cli"] # NoHead <=> Service!Answered(head[r]["cli"])
        /\ wire[r]["cli"] \in Pieces
    <3>1. FlowOK
      BY <1>1, EndTypes
    <3>2. head[r]["cli"] \in Lines /\ wire[r]["cli"] \in Pieces
      BY <3>1 DEF FlowOK, Links
    <3> QED BY <3>2 DEF Lines, Statuses, NoHead, Hops, Service!Answered
  <2>2. CASE UNCHANGED Service!vars
    <3>1. View(r)' = View(r)
      BY <2>2 DEF Service!vars, View
    <3> QED BY <3>1 DEF View
  <2>3. ASSUME NEW q \in Requests, Service!Perform(q) PROVE Stands(r)
    <3>1. /\ head'[r]["cli"] = head[r]["cli"] /\ wire'[r]["cli"] = wire[r]["cli"]
          /\ fin'[r]["cli"] = fin[r]["cli"]
      BY <2>3 DEF Service!Perform
    <3>2. Service!Answered(head[r]["cli"]) => Ran(r)' = Ran(r)
      BY <2>3 DEF Service!Perform
    <3> QED BY <2>1, <3>1, <3>2
  <2>4. ASSUME NEW q \in Requests, Service!Advance(q) PROVE Stands(r)
    <3>1. Ran(r)' = Ran(r)
      <4>1. UNCHANGED [p \in Requests |-> Ran(p)]
        BY <2>4 DEF Service!Advance
      <4> QED BY <4>1
    <3>2. CASE q # r
      <4>1. /\ head'[r]["cli"] = head[r]["cli"] /\ wire'[r]["cli"] = wire[r]["cli"]
            /\ fin'[r]["cli"] = fin[r]["cli"]
        BY <2>4, <3>2 DEF Service!Advance
      <4> QED BY <3>1, <4>1
    <3>3. CASE q = r
      <4>0. Service!Advance(r)
        BY <2>4, <3>3
      <4>1. /\ fin[r]["cli"] = "open"
            /\ Service!Answered(head[r]["cli"]) => head'[r]["cli"] = head[r]["cli"]
            /\ \E n \in 0..Len(wire'[r]["cli"]) :
                 wire'[r]["cli"] =
                   wire[r]["cli"] \o [i \in 1..n |-> Len(wire[r]["cli"]) + i]
        <5> DEFINE got == [p \in Requests |-> wire[p]["cli"]]
        <5>1. /\ fin[r]["cli"] = "open"
              /\ Service!Answered(head[r]["cli"]) => head'[r]["cli"] = head[r]["cli"]
          BY <4>0 DEF Service!Advance
        <5>2. \E n \in 0..Len(got'[r]) :
                got'[r] = got[r] \o [i \in 1..n |-> Len(got[r]) + i]
          BY <4>0, Zenon DEF Service!Advance
        <5>3. got[r] = wire[r]["cli"] /\ got'[r] = wire'[r]["cli"]
          OBVIOUS
        <5> HIDE DEF got
        <5> QED BY <5>1, <5>2, <5>3
      <4>2. PICK n \in 0..Len(wire'[r]["cli"]) :
              wire'[r]["cli"] =
                wire[r]["cli"] \o [i \in 1..n |-> Len(wire[r]["cli"]) + i]
        BY <4>1
      <4>3. \A i \in DOMAIN wire[r]["cli"] :
              i \in DOMAIN wire'[r]["cli"] /\ wire'[r]["cli"][i] = wire[r]["cli"][i]
        BY <2>1, <4>2 DEF Pieces
      <4> QED BY <2>1, <3>1, <4>1, <4>3
    <3> QED BY <3>2, <3>3
  <2> QED BY <1>1, <2>2, <2>3, <2>4 DEF Service!Next
<1>2. EndInv /\ [Service!Next]_(Service!vars) => \A r \in Requests : Stands(r)
  BY <1>1
<1>3. Spec => [][Service!Next]_(Service!vars)
  BY ImplementsService, PTL DEF ServicePromise, Service!Spec
<1> QED BY <1>2, <1>3, EndInvariant, PTL

-----------------------------------------------------------------------------
(* An edge node with authorization on. *)

Shut ==
  ~EdgeNoAuth =>
    \A r \in Requests :
      pc[r]["app"] = "idle" /\ pc[r]["edge"] \in {"idle", "validate", "done"}

LEMMA ShutStep ==
  ASSUME EndInv, Shut, Next PROVE Shut'
<1> SUFFICES ASSUME ~EdgeNoAuth, NEW q \in Requests
             PROVE  pc'[q]["app"] = "idle" /\ pc'[q]["edge"] \in {"idle", "validate", "done"}
  BY DEF Shut
<1>1. /\ pc[q]["app"] = "idle" /\ pc[q]["edge"] \in {"idle", "validate", "done"}
      /\ FlowOK
  BY EndTypes DEF Shut
<1> DEFINE Goal == pc'[q]["app"] = "idle" /\ pc'[q]["edge"] \in {"idle", "validate", "done"}
<1>2. CASE pc'[q] = pc[q]
  BY <1>1, <1>2
<1>3. CASE Network
  BY <1>2, <1>3 DEF Network, RelayStarts, TableSyncs, NodeMoves, AddressExpires
<1>4. ASSUME NEW r \in Requests \ {q},
             Arrive(r) \/ ProxyStep(r) \/ EdgeStep(r) \/ AppStep(r) \/ Environment(r)
      PROVE  Goal
  BY <1>2, <1>4, Aside DEF Untouched, EndInv
<1>5. CASE \E label : Goto(q, "proxy", label)
  BY <1>1, <1>5, GotoGives DEF Threads, Hops
<1>6. CASE Goto(q, "edge", "done")
  BY <1>1, <1>6, GotoGives DEF Threads, Hops
<1>7. CASE Arrive(q) \/ ProxyStep(q)
  <2>1. CASE DialOpens(q)
    BY <1>1, <2>1 DEF DialOpens, FlowOK, Threads, Hops
  <2> QED BY <1>5, <1>7, <2>1
          DEF Arrive, ProxyStep, Middleware, AuthReply, Handle, DialFails, AwaitFails,
              Forwarded, Reply, Panic, Copy, CopyHead, CopyPiece, CopyFlush,
              CopyWriteFails, CopyEnds
<1>8. CASE EdgeStep(q)
  BY <1>1, <1>6, <1>8 DEF EdgeStep, EdgeValidate, ValidateBearer, EdgeCall, EdgeCallFails,
     Reply, Copy, CopyHead, CopyPiece, CopyFlush, CopyWriteFails, CopyEnds
<1>9. CASE AppStep(q)
  BY <1>1, <1>9 DEF AppStep, AppAnswers, AppWrites, AppCloses, AppStops
<1>10. CASE Environment(q)
  BY <1>1, <1>2, <1>10 DEF Environment, AppDies, ClientLeaves, StreamBreaks, BufferFills
<1> QED BY <1>3, <1>4, <1>7, <1>8, <1>9, <1>10 DEF Next

\* On an edge node with authorization on, no request reaches the application
\* and no client gets an answer of it, whatever bearer it sends and whatever the
\* application says of that: the verdict is decoded into a field that is not
\* exported.
THEOREM AuthShutsOut ==
  Spec => [](~EdgeNoAuth =>
               \A r \in Requests : ~Ran(r) /\ head[r]["cli"].by # "app")
<1>1. Init => Shut
  <2> SUFFICES ASSUME Init PROVE \A r \in Requests : pc[r]["app"] = "idle" /\ pc[r]["edge"] = "idle"
    BY DEF Shut
  <2> QED BY DEF Init, Threads, Hops
<1>2. EndInv /\ Shut /\ [Next]_vars => Shut'
  <2>1. EndInv /\ Shut /\ UNCHANGED vars => Shut'
    BY DEF Shut, vars
  <2> QED BY <2>1, ShutStep
<1>3. EndInv /\ Shut => (~EdgeNoAuth =>
        \A r \in Requests : ~Ran(r) /\ head[r]["cli"].by # "app")
  <2> SUFFICES ASSUME EndInv, Shut, ~EdgeNoAuth, NEW r \in Requests
               PROVE  ~Ran(r) /\ head[r]["cli"].by # "app"
    OBVIOUS
  <2>1. pc[r]["app"] = "idle" /\ Tells(pc[r], head[r]["cli"])
    BY EndTypes DEF Shut, Ends, Says, Links
  <2> QED BY <2>1 DEF Tells, Ran
<1> QED BY <1>1, <1>2, <1>3, EndInvariant, PTL DEF Spec
=============================================================================
