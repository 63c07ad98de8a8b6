--------------------------- MODULE EdgeProxyProofs ---------------------------
(***************************************************************************)
(* Proofs about EdgeProxy for any set of requests and any bodies.          *)
(***************************************************************************)
EXTENDS EdgeProxy, SequenceTheorems, TLAPS

Lines == Statuses \cup {NoHead}
Writers == [head: Lines, data: Pieces, written: Nat]

\* The part of the type that the streams are made of.
FlowOK ==
  /\ pc \in [Requests -> [Threads -> Labels]]
  /\ head \in [Requests -> [Links -> Lines]]
  /\ wire \in [Requests -> [Links -> Pieces]]
  /\ fin \in [Requests -> [Links -> {"open", "clean", "short", "broken"}]]
  /\ held \in [Requests -> [Hops -> Writers]]
  /\ body \in [Requests -> Bodies \cup {NoBody}]

RestOK ==
  /\ input \in [Requests -> Inputs \cup {NoInput}]
  /\ token \in [Requests -> {"none", "client", "hub", "empty"}]
  /\ route \in [Requests -> {"none"} \cup Routes]
  /\ verdict \in [Requests -> {"unasked", "error", "no", "yes"}]
  /\ left \in [Requests -> BOOLEAN]
  /\ fault \in [Requests -> SUBSET {"nohost", "unreachable", "p2p", "app"}]
  /\ table \in Entries
  /\ store \subseteq Routes
  /\ at \in Places
  /\ relayHost \in BOOLEAN

LEMMA TypeSplit == TypeOK <=> FlowOK /\ RestOK
BY DEF TypeOK, FlowOK, RestOK, Lines, Writers, LinkEnds

LEMMA TypeJoin ==
  ASSUME FlowOK', RestOK'
  PROVE  TypeOK'
BY DEF TypeOK, FlowOK, RestOK, Lines, Writers, LinkEnds

\* What a link carries after Put has its type.
LEMMA PutType ==
  ASSUME FlowOK, NEW r \in Requests, NEW l \in Links, NEW status \in Lines,
         NEW pieces \in Pieces, NEW end \in {"open", "clean", "short", "broken"},
         Put(r, l, status, pieces, end)
  PROVE  /\ head' \in [Requests -> [Links -> Lines]]
         /\ wire' \in [Requests -> [Links -> Pieces]]
         /\ fin' \in [Requests -> [Links -> {"open", "clean", "short", "broken"}]]
<1>1. wire[r][l] \o pieces \in Pieces
  BY DEF FlowOK, Pieces
<1>2. CASE Closed(r, l)
  BY <1>2 DEF FlowOK, Put
<1>3. CASE ~Closed(r, l)
  <2>1. head' = [head EXCEPT ![r][l] = status]
    BY <1>3 DEF Put
  <2>2. wire' = [wire EXCEPT ![r][l] = wire[r][l] \o pieces]
    BY <1>3 DEF Put
  <2>3. fin' = [fin EXCEPT ![r][l] = end]
    BY <1>3 DEF Put
  <2>4. head' \in [Requests -> [Links -> Lines]]
    BY <2>1 DEF FlowOK
  <2>5. wire' \in [Requests -> [Links -> Pieces]]
    BY <2>2, <1>1 DEF FlowOK
  <2>6. fin' \in [Requests -> [Links -> {"open", "clean", "short", "broken"}]]
    BY <2>3 DEF FlowOK
  <2>7. QED
    BY <2>4, <2>5, <2>6
<1>4. QED
  BY <1>2, <1>3

LEMMA GotoType ==
  ASSUME FlowOK, NEW r \in Requests, NEW t \in Threads, NEW label \in Labels,
         Goto(r, t, label)
  PROVE  pc' \in [Requests -> [Threads -> Labels]]
BY DEF FlowOK, Goto

LEMMA ReplyType ==
  ASSUME FlowOK, NEW r \in Requests, NEW h \in Hops,
         NEW code \in {200, 400, 401, 500, 501, 502, 503},
         Reply(r, h, code), UNCHANGED body
  PROVE  FlowOK'
<1>1. Answer(h, code) \in Lines /\ <<>> \in Pieces /\ Out[h] \in Links
  BY DEF Answer, Lines, Statuses, Hops, Pieces, Out, Links
<1>2. Put(r, Out[h], Answer(h, code), <<>>, "clean") /\ UNCHANGED held
  BY DEF Reply
<1>3. pc' \in [Requests -> [Threads -> Labels]]
  BY GotoType DEF Reply, Threads, Labels
<1>4. QED
  BY <1>1, <1>2, <1>3, PutType DEF FlowOK

LEMMA PanicType ==
  ASSUME FlowOK, NEW r \in Requests, NEW h \in Hops, Panic(r, h), UNCHANGED body
  PROVE  FlowOK'
<1>1. head[r][Out[h]] \in Lines /\ <<>> \in Pieces /\ Out[h] \in Links
  BY DEF FlowOK, Hops, Pieces, Out, Links
<1>2. Put(r, Out[h], head[r][Out[h]], <<>>, "broken")
  BY DEF Panic
<1>3. pc' \in [Requests -> [Threads -> Labels]]
  BY GotoType DEF Panic, Threads, Labels
<1>4. Unwritten \in Writers
  BY DEF Unwritten, Writers, Lines, Pieces
<1>5. held' \in [Requests -> [Hops -> Writers]]
  BY <1>4 DEF FlowOK, Panic
<1>6. QED
  BY <1>1, <1>2, <1>3, <1>5, PutType DEF FlowOK

-----------------------------------------------------------------------------
(* Type correctness of the handlers' steps. *)

LEMMA ForwardedType ==
  ASSUME TypeOK, NEW r \in Requests, Forwarded(r), UNCHANGED body
  PROVE  /\ FlowOK'
         /\ fault' \in [Requests -> SUBSET {"nohost", "unreachable", "p2p", "app"}]
<1>1. FlowOK /\ fault \in [Requests -> SUBSET {"nohost", "unreachable", "p2p", "app"}]
  BY TypeSplit DEF RestOK
<1>2. CASE relayHost
  <2>1. Goto(r, "proxy", "handle") /\ UNCHANGED <<flow, fault>>
    BY <1>2 DEF Forwarded
  <2>2. pc' \in [Requests -> [Threads -> Labels]]
    BY <1>1, <2>1, GotoType DEF Threads, Hops, Labels
  <2>3. QED
    BY <1>1, <2>1, <2>2 DEF FlowOK, flow
<1>3. CASE ~relayHost
  <2>1. Panic(r, "proxy") /\ fault' = [fault EXCEPT ![r] = @ \cup {"nohost"}]
    BY <1>3 DEF Forwarded
  <2>2. FlowOK'
    BY <1>1, <2>1, PanicType DEF Hops
  <2>3. QED
    BY <1>1, <2>1, <2>2
<1>4. QED
  BY <1>2, <1>3

LEMMA MiddlewareType ==
  ASSUME TypeOK, NEW r \in Requests, Arrive(r) \/ Middleware(r) \/ AuthReply(r)
  PROVE  TypeOK'
<1>1. FlowOK /\ RestOK
  BY TypeSplit
<1>2. CASE Arrive(r)
  <2>1. pc' \in [Requests -> [Threads -> Labels]]
    BY <1>1, <1>2, GotoType DEF Arrive, Threads, Hops, Labels
  <2>2. FlowOK'
    BY <1>1, <1>2, <2>1 DEF Arrive, FlowOK, flow
  <2>3. PICK i \in Inputs :
          /\ input' = [input EXCEPT ![r] = i]
          /\ token' = [token EXCEPT ![r] = IF i.bearer THEN "client" ELSE "none"]
    BY <1>2 DEF Arrive
  <2>4. /\ input' \in [Requests -> Inputs \cup {NoInput}]
        /\ token' \in [Requests -> {"none", "client", "hub", "empty"}]
    BY <1>1, <2>3 DEF RestOK
  <2>5. RestOK'
    BY <1>1, <1>2, <2>4 DEF RestOK, Arrive, net
  <2>6. QED
    BY <2>2, <2>5, TypeJoin
<1>3. CASE Middleware(r)
  <2>1. UNCHANGED <<input, token, body, route, verdict, left, net>>
    BY <1>3 DEF Middleware
  <2>2. CASE Reply(r, "proxy", 400) /\ UNCHANGED fault
    <3>1. FlowOK'
      BY <1>1, <2>1, <2>2, ReplyType DEF Hops
    <3>2. QED
      BY <1>1, <2>1, <2>2, <3>1, TypeJoin DEF RestOK, net
  <2>3. CASE Forwarded(r)
    <3>1. FlowOK' /\ fault' \in [Requests -> SUBSET {"nohost", "unreachable", "p2p", "app"}]
      BY <2>1, <2>3, ForwardedType
    <3>2. QED
      BY <1>1, <2>1, <3>1, TypeJoin DEF RestOK, net
  <2>4. CASE Goto(r, "proxy", "auth") /\ UNCHANGED flow /\ UNCHANGED fault
    <3>1. pc' \in [Requests -> [Threads -> Labels]]
      BY <1>1, <2>4, GotoType DEF Threads, Hops, Labels
    <3>2. QED
      BY <1>1, <2>1, <2>4, <3>1, TypeJoin DEF FlowOK, RestOK, flow, net
  <2>5. CASE Reply(r, "proxy", 401) /\ UNCHANGED fault
    <3>1. FlowOK'
      BY <1>1, <2>1, <2>5, ReplyType DEF Hops
    <3>2. QED
      BY <1>1, <2>1, <2>5, <3>1, TypeJoin DEF RestOK, net
  <2>6. QED
    BY <1>3, <2>2, <2>3, <2>4, <2>5 DEF Middleware
<1>4. CASE AuthReply(r)
  <2>1. UNCHANGED <<input, body, route, verdict, left, net>>
    BY <1>4 DEF AuthReply
  <2>2. CASE Reply(r, "proxy", 401) /\ UNCHANGED <<token, fault>>
    <3>1. FlowOK'
      BY <1>1, <2>1, <2>2, ReplyType DEF Hops
    <3>2. QED
      BY <1>1, <2>1, <2>2, <3>1, TypeJoin DEF RestOK, net
  <2>3. ASSUME NEW reply \in {"error", "no", "yes"},
               token' = [token EXCEPT ![r] = Replacement(reply)], Forwarded(r)
        PROVE  TypeOK'
    <3>1. FlowOK' /\ fault' \in [Requests -> SUBSET {"nohost", "unreachable", "p2p", "app"}]
      BY <2>1, <2>3, ForwardedType
    <3>2. token' \in [Requests -> {"none", "client", "hub", "empty"}]
      BY <1>1, <2>3 DEF RestOK, Replacement
    <3>3. QED
      BY <1>1, <2>1, <3>1, <3>2, TypeJoin DEF RestOK, net
  <2>4. QED
    BY <1>4, <2>2, <2>3 DEF AuthReply
<1>5. QED
  BY <1>2, <1>3, <1>4

LEMMA DialType ==
  ASSUME TypeOK, NEW r \in Requests,
         Handle(r) \/ DialOpens(r) \/ DialFails(r) \/ AwaitFails(r)
  PROVE  TypeOK'
<1>1. FlowOK /\ RestOK
  BY TypeSplit
<1>2. CASE Handle(r)
  <2>1. UNCHANGED <<input, token, body, verdict, left, fault, table, at, relayHost>>
    BY <1>2 DEF Handle
  <2>2. ASSUME NEW code \in {200, 500, 501, 503}, Reply(r, "proxy", code),
               UNCHANGED <<store, route>>
        PROVE  TypeOK'
    <3>1. FlowOK'
      BY <1>1, <2>1, <2>2, ReplyType DEF Hops
    <3>2. RestOK'
      BY <1>1, <2>1, <2>2 DEF RestOK
    <3>3. QED
      BY <3>1, <3>2, TypeJoin
  <2>3. ASSUME NEW entry \in Routes, store' = AddAddr(store, entry),
               route' = [route EXCEPT ![r] = entry],
               Goto(r, "proxy", "dial"), UNCHANGED flow
        PROVE  TypeOK'
    <3>1. pc' \in [Requests -> [Threads -> Labels]]
      BY <1>1, <2>3, GotoType DEF Threads, Hops, Labels
    <3>2. FlowOK'
      BY <1>1, <2>1, <2>3, <3>1 DEF FlowOK, flow
    <3>3. route' \in [Requests -> {"none"} \cup Routes] /\ store' \subseteq Routes
      BY <1>1, <2>3 DEF RestOK, AddAddr
    <3>4. RestOK'
      BY <1>1, <2>1, <3>3 DEF RestOK
    <3>5. QED
      BY <3>2, <3>4, TypeJoin
  <2>4. QED
    BY <1>2, <2>2, <2>3 DEF Handle
<1>3. CASE DialOpens(r)
  <2>1. pc' \in [Requests -> [Threads -> Labels]]
    BY <1>1, <1>3 DEF DialOpens, FlowOK, Threads, Hops, Labels
  <2>2. FlowOK' /\ RestOK'
    BY <1>1, <1>3, <2>1 DEF DialOpens, FlowOK, RestOK, flow, local, net
  <2>3. QED
    BY <2>2, TypeJoin
<1>4. CASE DialFails(r)
  <2>1. FlowOK'
    BY <1>1, <1>4, PanicType DEF DialFails, Hops
  <2>2. RestOK'
    BY <1>1, <1>4 DEF DialFails, RestOK, net
  <2>3. QED
    BY <2>1, <2>2, TypeJoin
<1>5. CASE AwaitFails(r)
  <2>1. FlowOK'
    BY <1>1, <1>5, PanicType DEF AwaitFails, Hops, local
  <2>2. RestOK'
    BY <1>1, <1>5 DEF AwaitFails, RestOK, local, net
  <2>3. QED
    BY <2>1, <2>2, TypeJoin
<1>6. QED
  BY <1>2, <1>3, <1>4, <1>5

LEMMA EdgeType ==
  ASSUME TypeOK, NEW r \in Requests,
         EdgeValidate(r) \/ EdgeCall(r) \/ EdgeCallFails(r)
  PROVE  TypeOK'
<1>1. FlowOK /\ RestOK
  BY TypeSplit
<1>2. CASE EdgeValidate(r)
  <2>1. UNCHANGED <<input, token, body, route, left, fault, net>>
    BY <1>2 DEF EdgeValidate
  <2>2. verdict' \in [Requests -> {"unasked", "error", "no", "yes"}]
    BY <1>1, <1>2 DEF EdgeValidate, RestOK
  <2>3. FlowOK'
    <3>1. CASE Goto(r, "edge", "call") /\ UNCHANGED flow
      <4>1. pc' \in [Requests -> [Threads -> Labels]]
        BY <1>1, <3>1, GotoType DEF Threads, Hops, Labels
      <4>2. QED
        BY <1>1, <2>1, <3>1, <4>1 DEF FlowOK, flow
    <3>2. CASE Reply(r, "edge", 401)
      BY <1>1, <2>1, <3>2, ReplyType DEF Hops
    <3>3. QED
      BY <1>2, <3>1, <3>2 DEF EdgeValidate
  <2>4. RestOK'
    BY <1>1, <2>1, <2>2 DEF RestOK, net
  <2>5. QED
    BY <2>3, <2>4, TypeJoin
<1>3. CASE EdgeCall(r)
  <2>1. UNCHANGED <<local, net>>
    BY <1>3 DEF EdgeCall
  <2>2. FlowOK'
    <3>1. CASE \E code \in {500, 502} : Reply(r, "edge", code)
      BY <1>1, <2>1, <3>1, ReplyType DEF Hops, local
    <3>2. CASE /\ pc' = [pc EXCEPT ![r]["edge"] = "await", ![r]["app"] = "run"]
               /\ UNCHANGED flow
      <4>1. pc' \in [Requests -> [Threads -> Labels]]
        BY <1>1, <3>2 DEF FlowOK, Threads, Hops, Labels
      <4>2. QED
        BY <1>1, <2>1, <3>2, <4>1 DEF FlowOK, flow, local
    <3>3. QED
      BY <1>3, <3>1, <3>2 DEF EdgeCall
  <2>3. RestOK'
    BY <1>1, <2>1 DEF RestOK, local, net
  <2>4. QED
    BY <2>2, <2>3, TypeJoin
<1>4. CASE EdgeCallFails(r)
  <2>1. FlowOK'
    BY <1>1, <1>4, ReplyType DEF EdgeCallFails, Hops, local
  <2>2. RestOK'
    BY <1>1, <1>4 DEF EdgeCallFails, RestOK, local, net
  <2>3. QED
    BY <2>1, <2>2, TypeJoin
<1>5. QED
  BY <1>2, <1>3, <1>4

-----------------------------------------------------------------------------
(* Type correctness of the copy loops, the application and the environment. *)

LEMMA HopLinks == \A h \in Hops : In[h] \in Links /\ Out[h] \in Links /\ h \in Threads
BY DEF Hops, In, Out, Links, Threads

\* Dropping the data of a ResponseWriter keeps its type.
LEMMA FlushedType ==
  ASSUME FlowOK, NEW r \in Requests, NEW h \in Hops,
         held' = [held EXCEPT ![r][h].data = <<>>]
  PROVE  held' \in [Requests -> [Hops -> Writers]]
<1>1. held[r][h] \in Writers /\ <<>> \in Pieces
  BY DEF FlowOK, Pieces
<1>2. [held[r][h] EXCEPT !.data = <<>>] \in Writers
  BY <1>1 DEF Writers
<1>3. held' = [held EXCEPT ![r] = [held[r] EXCEPT ![h] = [held[r][h] EXCEPT !.data = <<>>]]]
  OBVIOUS
<1>4. QED
  BY <1>2, <1>3 DEF FlowOK

\* Putting what a ResponseWriter holds on its link keeps the types.
LEMMA FlushType ==
  ASSUME FlowOK, NEW r \in Requests, NEW h \in Hops,
         NEW end \in {"open", "clean", "short", "broken"},
         Put(r, Out[h], held[r][h].head, held[r][h].data, end),
         held' = [held EXCEPT ![r][h].data = <<>>],
         pc' \in [Requests -> [Threads -> Labels]], UNCHANGED body
  PROVE  FlowOK'
<1>1. held[r][h].head \in Lines /\ held[r][h].data \in Pieces /\ Out[h] \in Links
  BY HopLinks DEF FlowOK, Writers
<1>2. held' \in [Requests -> [Hops -> Writers]]
  BY FlushedType
<1>3. /\ head' \in [Requests -> [Links -> Lines]]
      /\ wire' \in [Requests -> [Links -> Pieces]]
      /\ fin' \in [Requests -> [Links -> {"open", "clean", "short", "broken"}]]
  BY <1>1, PutType
<1>4. body' \in [Requests -> Bodies \cup {NoBody}]
  BY DEF FlowOK
<1>5. QED
  BY <1>2, <1>3, <1>4 DEF FlowOK

\* The pieces of a sequence, and what a sequence becomes when one is appended.
LEMMA PiecesFacts ==
  \A s \in Pieces :
    /\ s # <<>> => Head(s) \in 1..MaxPieces /\ Tail(s) \in Pieces
    /\ \A k \in 1..MaxPieces : Append(s, k) \in Pieces
BY HeadTailProperties, AppendProperties DEF Pieces

LEMMA WrittenType ==
  ASSUME NEW w \in Writers, NEW piece \in 1..MaxPieces
  PROVE  Written(w, piece) \in Writers
<1>1. Append(w.data, piece) \in Pieces /\ w.written + 1 \in Nat /\ w.head \in Lines
  BY PiecesFacts DEF Writers
<1>2. QED
  BY <1>1 DEF Written, Writers

LEMMA CopyType ==
  ASSUME TypeOK, NEW r \in Requests, NEW h \in Hops, Copy(r, h) \/ BufferFills(r, h)
  PROVE  TypeOK'
<1>1. FlowOK /\ RestOK
  BY TypeSplit
<1>2. UNCHANGED <<local, net>>
  BY DEF Copy, BufferFills, CopyHead, CopyPiece, CopyFlush, CopyWriteFails, CopyEnds
<1>3. RestOK' /\ UNCHANGED body
  BY <1>1, <1>2 DEF RestOK, local, net
<1>4. pc' \in [Requests -> [Threads -> Labels]]
  <2>1. \/ \E label \in Labels : Goto(r, h, label)
        \/ UNCHANGED pc
    BY DEF Copy, BufferFills, CopyHead, CopyPiece, CopyFlush, CopyWriteFails,
           CopyEnds, AfterWrite, Labels
  <2>2. QED
    BY <1>1, <2>1, GotoType, HopLinks DEF FlowOK
<1>5. CASE CopyHead(r, h)
  <2>1. head[r][In[h]] \in Lines /\ held[r][h] \in Writers
    BY <1>1, HopLinks DEF FlowOK
  <2>2. [held[r][h] EXCEPT !.head = head[r][In[h]]] \in Writers
    BY <2>1 DEF Writers
  <2>3. held' \in [Requests -> [Hops -> Writers]]
    BY <1>1, <1>5, <2>2 DEF CopyHead, FlowOK
  <2>4. FlowOK'
    BY <1>1, <1>3, <1>4, <1>5, <2>3 DEF CopyHead, FlowOK
  <2>5. QED
    BY <1>3, <2>4, TypeJoin
<1>6. CASE CopyPiece(r, h)
  <2>1. /\ wire[r][In[h]] \in Pieces /\ wire[r][In[h]] # <<>>
        /\ held[r][h] \in Writers
    BY <1>1, <1>6, HopLinks DEF CopyPiece, FlowOK
  <2>2. Head(wire[r][In[h]]) \in 1..MaxPieces /\ Tail(wire[r][In[h]]) \in Pieces
    BY <2>1, PiecesFacts
  <2>4. Written(held[r][h], Head(wire[r][In[h]])) \in Writers
    BY <2>1, <2>2, WrittenType
  <2>5. held' \in [Requests -> [Hops -> Writers]]
    BY <1>1, <1>6, <2>4 DEF CopyPiece, FlowOK
  <2>6. wire' \in [Requests -> [Links -> Pieces]]
    BY <1>1, <1>6, <2>2, HopLinks DEF CopyPiece, FlowOK
  <2>7. FlowOK'
    BY <1>1, <1>3, <1>4, <1>6, <2>5, <2>6 DEF CopyPiece, FlowOK
  <2>8. QED
    BY <1>3, <2>7, TypeJoin
<1>7. CASE CopyFlush(r, h) \/ BufferFills(r, h)
  <2>1. FlowOK'
    BY <1>1, <1>3, <1>4, <1>7, FlushType DEF CopyFlush, BufferFills, Flush
  <2>2. QED
    BY <1>3, <2>1, TypeJoin
<1>8. CASE CopyWriteFails(r, h)
  <2>1. FlowOK'
    BY <1>1, <1>3, <1>4, <1>8 DEF CopyWriteFails, FlowOK, flow
  <2>2. QED
    BY <1>3, <2>1, TypeJoin
<1>9. CASE CopyEnds(r, h)
  <2>1. FlowOK'
    BY <1>1, <1>3, <1>4, <1>9, FlushType DEF CopyEnds
  <2>2. QED
    BY <1>3, <2>1, TypeJoin
<1>10. QED
  BY <1>5, <1>6, <1>7, <1>8, <1>9 DEF Copy

LEMMA EmittedType ==
  ASSUME FlowOK, NEW r \in Requests
  PROVE  Emitted(r) \in Nat
<1>1. held[r]["edge"].written \in Nat /\ wire[r]["app"] \in Pieces
  BY DEF FlowOK, Writers, Hops, Links
<1>2. QED
  BY <1>1 DEF Emitted, Pieces

LEMMA AppType ==
  ASSUME TypeOK, NEW r \in Requests, AppStep(r) \/ AppDies(r)
  PROVE  TypeOK'
<1>1. FlowOK /\ RestOK
  BY TypeSplit
<1>2. "app" \in Links /\ "app" \in Threads /\ <<>> \in Pieces
  BY DEF Links, Threads, Pieces
<1>3. pc' \in [Requests -> [Threads -> Labels]]
  <2>1. \/ \E label \in Labels : Goto(r, "app", label)
        \/ UNCHANGED pc
    BY DEF AppStep, AppAnswers, AppWrites, AppCloses, AppStops, AppDies, Labels
  <2>2. QED
    BY <1>1, <1>2, <2>1, GotoType DEF FlowOK
<1>4. RestOK'
  BY <1>1 DEF AppStep, AppAnswers, AppWrites, AppCloses, AppStops, AppDies, RestOK,
              local, net
<1>5. CASE AppAnswers(r)
  <2>1. PICK b \in Bodies, code \in {200, 401} :
          /\ body' = [body EXCEPT ![r] = b]
          /\ Put(r, "app", Answer("app", code), <<>>, "open")
    BY <1>5 DEF AppAnswers
  <2>2. Answer("app", code) \in Lines
    BY DEF Answer, Lines, Statuses
  <2>3. QED
    BY <1>1, <1>2, <1>3, <1>4, <1>5, <2>1, <2>2, PutType, TypeJoin
    DEF FlowOK, AppAnswers
<1>6. CASE AppWrites(r)
  <2>1. Emitted(r) + 1 \in 1..MaxPieces
    <3>1. body[r].pieces \in 0..MaxPieces
      BY <1>1, BoundAssumption DEF FlowOK, Bodies, NoBody
    <3>2. QED
      BY <1>1, <1>6, <3>1, EmittedType, BoundAssumption DEF AppWrites
  <2>2. <<Emitted(r) + 1>> \in Pieces /\ head[r]["app"] \in Lines
    BY <1>1, <1>2, <2>1 DEF Pieces, FlowOK
  <2>3. Put(r, "app", head[r]["app"], <<Emitted(r) + 1>>, "open") /\ UNCHANGED <<held, body>>
    BY <1>6 DEF AppWrites, local
  <2>4. QED
    BY <1>1, <1>2, <1>3, <1>4, <2>2, <2>3, PutType, TypeJoin DEF FlowOK
<1>7. CASE AppCloses(r)
  <2>1. head[r]["app"] \in Lines
    BY <1>1, <1>2 DEF FlowOK
  <2>2. Put(r, "app", head[r]["app"], <<>>, "clean") /\ UNCHANGED <<held, body>>
    BY <1>7 DEF AppCloses, local
  <2>3. QED
    BY <1>1, <1>2, <1>3, <1>4, <2>1, <2>2, PutType, TypeJoin DEF FlowOK
<1>8. CASE AppStops(r)
  BY <1>1, <1>3, <1>4, <1>8, TypeJoin DEF FlowOK, AppStops, flow, local
<1>9. CASE AppDies(r)
  BY <1>1, <1>2, <1>3, <1>4, <1>9, TypeJoin DEF FlowOK, AppDies
<1>10. QED
  BY <1>5, <1>6, <1>7, <1>8, <1>9 DEF AppStep

LEMMA EnvironmentType ==
  ASSUME TypeOK,
         (\E r \in Requests : ClientLeaves(r) \/ StreamBreaks(r)) \/ Network
  PROVE  TypeOK'
<1>1. FlowOK /\ RestOK
  BY TypeSplit
<1>2. ASSUME NEW r \in Requests, ClientLeaves(r) PROVE TypeOK'
  <2>1. FlowOK' /\ RestOK'
    BY <1>1, <1>2 DEF ClientLeaves, FlowOK, RestOK, flow, net
  <2>2. QED
    BY <2>1, TypeJoin
<1>3. ASSUME NEW r \in Requests, StreamBreaks(r) PROVE TypeOK'
  <2>1. FlowOK'
    BY <1>1, <1>3 DEF StreamBreaks, FlowOK, Links
  <2>2. RestOK'
    BY <1>1, <1>3 DEF StreamBreaks, RestOK, net
  <2>3. QED
    BY <2>1, <2>2, TypeJoin
<1>4. ASSUME Network PROVE TypeOK'
  <2>1. UNCHANGED <<local, flow, pc>>
    BY <1>4 DEF Network, RelayStarts, TableSyncs, NodeMoves, AddressExpires
  <2>2. table' \in Entries /\ store' \subseteq Routes /\ at' \in Places /\ relayHost' \in BOOLEAN
    BY <1>1, <1>4 DEF Network, RelayStarts, TableSyncs, NodeMoves, AddressExpires, RestOK
  <2>3. FlowOK'
    BY <1>1, <2>1 DEF FlowOK, flow, local
  <2>4. RestOK'
    BY <1>1, <2>1, <2>2 DEF RestOK, local
  <2>5. QED
    BY <2>3, <2>4, TypeJoin
<1>5. QED
  BY <1>2, <1>3, <1>4

LEMMA InitType == Init => TypeOK
<1>1. SUFFICES ASSUME Init PROVE TypeOK
  OBVIOUS
<1>2. Unwritten \in Writers /\ <<>> \in Pieces /\ NoHead \in Lines /\ "idle" \in Labels
  BY DEF Unwritten, Writers, Lines, Pieces, Labels
<1>3. FlowOK
  <2>1. [t \in Threads |-> "idle"] \in [Threads -> Labels]
    BY <1>2
  <2>2. [l \in Links |-> NoHead] \in [Links -> Lines]
    BY <1>2
  <2>3. [l \in Links |-> <<>>] \in [Links -> Pieces]
    BY <1>2
  <2>4. [l \in Links |-> "open"] \in [Links -> {"open", "clean", "short", "broken"}]
    OBVIOUS
  <2>5. [h \in Hops |-> Unwritten] \in [Hops -> Writers]
    BY <1>2
  <2>6. QED
    BY <2>1, <2>2, <2>3, <2>4, <2>5, <1>1 DEF Init, FlowOK
<1>4. RestOK
  <2>1. input \in [Requests -> Inputs \cup {NoInput}]
    BY <1>1 DEF Init
  <2>2. /\ token \in [Requests -> {"none", "client", "hub", "empty"}]
        /\ route \in [Requests -> {"none"} \cup Routes]
        /\ verdict \in [Requests -> {"unasked", "error", "no", "yes"}]
        /\ left \in [Requests -> BOOLEAN]
    BY <1>1 DEF Init
  <2>3. fault \in [Requests -> SUBSET {"nohost", "unreachable", "p2p", "app"}]
    BY <1>1 DEF Init
  <2>4. QED
    BY <2>1, <2>2, <2>3, <1>1 DEF Init, RestOK
<1>5. QED
  BY <1>3, <1>4, TypeSplit

\* A step of a request or of the network keeps the types.
LEMMA TypeStep == ASSUME TypeOK, Next PROVE TypeOK'
<1>1. CASE Network
  BY <1>1, EnvironmentType
<1>2. ASSUME NEW r \in Requests,
             Arrive(r) \/ ProxyStep(r) \/ EdgeStep(r) \/ AppStep(r) \/ Environment(r)
      PROVE  TypeOK'
  <2>1. CASE Arrive(r) \/ Middleware(r) \/ AuthReply(r)
    BY <2>1, MiddlewareType
  <2>2. CASE Handle(r) \/ DialOpens(r) \/ DialFails(r) \/ AwaitFails(r)
    BY <2>2, DialType
  <2>3. CASE EdgeValidate(r) \/ EdgeCall(r) \/ EdgeCallFails(r)
    BY <2>3, EdgeType
  <2>4. CASE \E h \in Hops : Copy(r, h) \/ BufferFills(r, h)
    BY <2>4, CopyType
  <2>5. CASE AppStep(r) \/ AppDies(r)
    BY <2>5, AppType
  <2>6. CASE ClientLeaves(r) \/ StreamBreaks(r)
    BY <2>6, EnvironmentType
  <2>7. QED
    BY <1>2, <2>1, <2>2, <2>3, <2>4, <2>5, <2>6
    DEF ProxyStep, EdgeStep, Environment, Hops
<1>3. QED
  BY <1>1, <1>2 DEF Next

\* Every variable keeps its type, for any number of requests and pieces.
THEOREM TypeCorrect == Spec => []TypeOK
<1>1. TypeOK /\ [Next]_vars => TypeOK'
  <2>1. TypeOK /\ UNCHANGED vars => TypeOK'
    BY DEF TypeOK, vars
  <2>2. QED
    BY <2>1, TypeStep
<1>2. QED
  BY InitType, <1>1, PTL DEF Spec

-----------------------------------------------------------------------------
(* A dialed request has its route. *)

\* Every step of a request but the one that adds an address: it neither dials
\* nor touches a route or the peerstore.
LEMMA NoDial ==
  ASSUME TypeOK, NEW r \in Requests,
         \/ Arrive(r) \/ Middleware(r) \/ AuthReply(r)
         \/ DialOpens(r) \/ DialFails(r) \/ AwaitFails(r) \/ EdgeStep(r)
         \/ Copy(r, "proxy") \/ AppStep(r) \/ Environment(r)
  PROVE  /\ UNCHANGED <<route, store>>
         /\ \A q \in Requests : pc'[q]["proxy"] = "dial" => pc[q]["proxy"] = "dial"
<1> DEFINE Quiet1 == /\ UNCHANGED <<route, store>>
                     /\ \A q \in Requests : pc'[q]["proxy"] = "dial" => pc[q]["proxy"] = "dial"
<1>1. pc \in [Requests -> [Threads -> Labels]]
  BY DEF TypeOK
<1>2. ASSUME NEW t \in Threads, NEW label \in Labels \ {"dial"}, Goto(r, t, label),
             UNCHANGED <<route, store>>
      PROVE  Quiet1
  BY <1>1, <1>2 DEF Goto, Threads, Hops
<1>3. CASE Arrive(r) \/ Middleware(r) \/ AuthReply(r)
  <2>1. \E label \in Labels \ {"dial"} : Goto(r, "proxy", label)
    BY <1>3 DEF Arrive, Middleware, AuthReply, Forwarded, Reply, Panic, Labels
  <2>2. UNCHANGED <<route, store>>
    BY <1>3 DEF Arrive, Middleware, AuthReply, net
  <2> QED BY <1>2, <2>1, <2>2 DEF Threads, Hops
<1>4. CASE DialOpens(r) \/ DialFails(r) \/ AwaitFails(r)
  <2>1. CASE DialOpens(r)
    BY <1>1, <2>1 DEF DialOpens, local, net, Threads, Hops
  <2>2. CASE DialFails(r) \/ AwaitFails(r)
    <3>1. Goto(r, "proxy", "done") /\ UNCHANGED <<route, store>>
      BY <2>2 DEF DialFails, AwaitFails, Panic, local, net
    <3> QED BY <1>2, <3>1 DEF Threads, Hops, Labels
  <2> QED BY <1>4, <2>1, <2>2
<1>5. CASE EdgeValidate(r) \/ EdgeCall(r) \/ EdgeCallFails(r)
  <2>1. CASE pc' = [pc EXCEPT ![r]["edge"] = "await", ![r]["app"] = "run"]
    <3>1. UNCHANGED <<route, store>>
      BY <1>5 DEF EdgeValidate, EdgeCall, EdgeCallFails, local, net
    <3> QED BY <1>1, <2>1, <3>1 DEF Threads, Hops
  <2>2. CASE \E label \in Labels \ {"dial"} : Goto(r, "edge", label)
    <3>1. UNCHANGED <<route, store>>
      BY <1>5 DEF EdgeValidate, EdgeCall, EdgeCallFails, local, net
    <3> QED BY <1>2, <2>2, <3>1 DEF Threads, Hops
  <2> QED BY <1>5, <2>1, <2>2 DEF EdgeValidate, EdgeCall, EdgeCallFails, Reply, Labels
<1>6. ASSUME NEW h \in Hops, Copy(r, h) \/ BufferFills(r, h) PROVE Quiet1
  <2>1. UNCHANGED <<route, store>>
    BY <1>6 DEF Copy, BufferFills, CopyHead, CopyPiece, CopyFlush, CopyWriteFails, CopyEnds,
                local, net
  <2>2. CASE BufferFills(r, h)
    BY <2>1, <2>2 DEF BufferFills
  <2>3. CASE Copy(r, h)
    <3>1. \E label \in Labels \ {"dial"} : Goto(r, h, label)
      BY <2>3 DEF Copy, CopyHead, CopyPiece, CopyFlush, CopyWriteFails, CopyEnds, AfterWrite,
                  Labels
    <3> QED BY <1>2, <2>1, <3>1 DEF Threads
  <2> QED BY <1>6, <2>2, <2>3
<1>7. CASE AppStep(r) \/ AppDies(r)
  <2>1. UNCHANGED <<route, store>>
    BY <1>7 DEF AppStep, AppDies, AppAnswers, AppWrites, AppCloses, AppStops, local, net
  <2>2. CASE UNCHANGED pc
    BY <2>1, <2>2
  <2>3. CASE \E label \in Labels \ {"dial"} : Goto(r, "app", label)
    BY <1>2, <2>1, <2>3 DEF Threads
  <2> QED BY <1>7, <2>2, <2>3
          DEF AppStep, AppDies, AppAnswers, AppWrites, AppCloses, AppStops, Labels
<1>8. CASE ClientLeaves(r) \/ StreamBreaks(r)
  BY <1>8 DEF ClientLeaves, StreamBreaks, net
<1> QED BY <1>3, <1>4, <1>5, <1>6, <1>7, <1>8 DEF EdgeStep, Environment, Hops

\* Routes are only added while a request is about to be dialed.
LEMMA RouteStep == ASSUME TypeOK, DialHasRoute, Next PROVE DialHasRoute'
<1>1. ASSUME NEW r \in Requests, Handle(r) PROVE DialHasRoute'
  <2>1. pc \in [Requests -> [Threads -> Labels]] /\ route \in [Requests -> {"none"} \cup Routes]
    BY DEF TypeOK
  <2>2. CASE Goto(r, "proxy", "done") /\ UNCHANGED <<store, route>>
    BY <2>1, <2>2 DEF DialHasRoute, Goto, Threads, Hops
  <2>3. CASE /\ table \in Routes /\ store' = store \cup {table}
             /\ route' = [route EXCEPT ![r] = table]
             /\ Goto(r, "proxy", "dial")
    BY <2>1, <2>3 DEF DialHasRoute, Goto, Threads, Hops
  <2> QED BY <1>1, <2>2, <2>3 DEF Handle, Reply, AddAddr, Routes
<1>2. ASSUME NEW r \in Requests,
             Arrive(r) \/ ProxyStep(r) \/ EdgeStep(r) \/ AppStep(r) \/ Environment(r)
      PROVE  DialHasRoute'
  <2>1. CASE Handle(r)
    BY <1>1, <2>1
  <2>2. CASE ~Handle(r)
    BY <1>2, <2>2, NoDial DEF ProxyStep, DialHasRoute
  <2> QED BY <2>1, <2>2
<1>3. CASE Network
  <2>1. CASE AddressExpires
    BY <2>1 DEF AddressExpires, DialHasRoute
  <2>2. CASE RelayStarts \/ TableSyncs \/ NodeMoves
    BY <2>2 DEF RelayStarts, TableSyncs, NodeMoves, local, DialHasRoute
  <2> QED BY <1>3, <2>1, <2>2 DEF Network
<1> QED BY <1>2, <1>3 DEF Next

\* When a request is dialed the peerstore holds the address that its handler
\* added, whatever other requests and the syncer do.
THEOREM RouteHolds == Spec => []DialHasRoute
<1>1. Init => DialHasRoute
  BY DEF Init, DialHasRoute, Threads, Hops
<1>2. TypeOK /\ DialHasRoute /\ [Next]_vars => DialHasRoute'
  <2>1. DialHasRoute /\ UNCHANGED vars => DialHasRoute'
    BY DEF DialHasRoute, vars
  <2> QED BY <2>1, RouteStep
<1> QED BY <1>1, <1>2, TypeCorrect, PTL DEF Spec

-----------------------------------------------------------------------------
(* What a client has got is in order.  The invariant follows the pieces     *)
(* through the four places where they can be: the pieces of each place are  *)
(* consecutive and, while a link is used, go on where the next place ends.  *)

Early == {"idle", "middleware", "auth", "handle", "dial", "await"}

\* The pieces of the sequence s are those after the first n.
After(s, n) == \A i \in DOMAIN s : s[i] = n + i

Stream(r) ==
  /\ After(wire[r]["cli"], 0)
  /\ \A h \in Hops :
       /\ Len(held[r][h].data) <= held[r][h].written
       /\ After(held[r][h].data, held[r][h].written - Len(held[r][h].data))
       /\ After(wire[r][In[h]], held[r][h].written)
  /\ Len(wire[r]["cli"]) <= held[r]["proxy"].written
  /\ ~Closed(r, "cli") =>
       Len(wire[r]["cli"]) + Len(held[r]["proxy"].data) = held[r]["proxy"].written
  /\ held[r]["proxy"].written + Len(wire[r]["p2p"]) <= held[r]["edge"].written
  /\ ~Closed(r, "p2p") =>
       held[r]["proxy"].written + Len(wire[r]["p2p"]) + Len(held[r]["edge"].data)
         = held[r]["edge"].written
  /\ pc[r]["proxy"] \in Early => held[r]["proxy"] = Unwritten

StreamInv == \A r \in Requests : Stream(r)

\* Sequences of pieces, as the steps build them.
LEMMA AfterFacts ==
  /\ \A n : After(<<>>, n)
  /\ \A s \in Pieces, n \in Nat, k \in 1..MaxPieces :
       After(s, n) /\ k = n + Len(s) + 1 => After(Append(s, k), n)
  /\ \A s \in Pieces, n \in Nat :
       After(s, n) /\ s # <<>> => Head(s) = n + 1 /\ After(Tail(s), n + 1)
  /\ \A s \in Pieces, t \in Pieces, n \in Nat :
       After(s, n) /\ After(t, n + Len(s)) => After(s \o t, n)
<1>1. \A n : After(<<>>, n)
  BY DEF After
<1>2. ASSUME NEW s \in Pieces, NEW n \in Nat, NEW k \in 1..MaxPieces,
             After(s, n), k = n + Len(s) + 1
      PROVE  After(Append(s, k), n)
  <2>1. s \in Seq(1..MaxPieces)
    BY DEF Pieces
  <2>2. Len(s) \in Nat /\ DOMAIN s = 1..Len(s)
    BY <2>1, LenProperties
  <2>3. /\ DOMAIN Append(s, k) = 1..(Len(s) + 1)
        /\ \A i \in 1..Len(s) : Append(s, k)[i] = s[i]
        /\ Append(s, k)[Len(s) + 1] = k
    BY <2>1, AppendProperties, LenProperties
  <2>4. QED
    BY <1>2, <2>2, <2>3 DEF After
<1>3. ASSUME NEW s \in Pieces, NEW n \in Nat, After(s, n), s # <<>>
      PROVE  Head(s) = n + 1 /\ After(Tail(s), n + 1)
  <2>1. s \in Seq(1..MaxPieces)
    BY DEF Pieces
  <2>2. /\ Len(s) \in Nat \ {0} /\ DOMAIN s = 1..Len(s)
        /\ Head(s) = s[1]
    BY <1>3, <2>1, LenProperties, EmptySeq
  <2>3. /\ DOMAIN Tail(s) = 1..(Len(s) - 1)
        /\ \A i \in 1..(Len(s) - 1) : Tail(s)[i] = s[i + 1]
    BY <1>3, <2>1, HeadTailProperties, LenProperties
  <2>4. QED
    BY <1>3, <2>2, <2>3 DEF After
<1>4. ASSUME NEW s \in Pieces, NEW t \in Pieces, NEW n \in Nat,
             After(s, n), After(t, n + Len(s))
      PROVE  After(s \o t, n)
  <2>1. s \in Seq(1..MaxPieces) /\ t \in Seq(1..MaxPieces)
    BY DEF Pieces
  <2>2. /\ Len(s) \in Nat /\ DOMAIN s = 1..Len(s)
        /\ Len(t) \in Nat /\ DOMAIN t = 1..Len(t)
    BY <2>1, LenProperties
  <2>3. /\ DOMAIN (s \o t) = 1..(Len(s) + Len(t))
        /\ \A i \in 1..(Len(s) + Len(t)) :
             (s \o t)[i] = IF i <= Len(s) THEN s[i] ELSE t[i - Len(s)]
    BY <2>1, ConcatProperties, LenProperties
  <2>4. ASSUME NEW i \in 1..(Len(s) + Len(t)) PROVE (s \o t)[i] = n + i
    <3>1. CASE i <= Len(s)
      BY <1>4, <2>2, <2>3, <3>1 DEF After
    <3>2. CASE i > Len(s)
      <4>1. i - Len(s) \in DOMAIN t
        BY <2>2, <3>2
      <4>2. t[i - Len(s)] = n + Len(s) + (i - Len(s))
        BY <1>4, <4>1 DEF After
      <4>3. QED
        BY <2>2, <2>3, <3>2, <4>2
    <3>3. QED
      BY <2>2, <3>1, <3>2
  <2>5. QED
    BY <2>3, <2>4 DEF After
<1>5. QED
  BY <1>1, <1>2, <1>3, <1>4

LEMMA LenFacts ==
  /\ \A s \in Pieces : Len(s) \in Nat
  /\ Len(<<>>) = 0
  /\ \A s \in Pieces, k \in 1..MaxPieces : Len(Append(s, k)) = Len(s) + 1
  /\ \A s \in Pieces : s # <<>> => Len(Tail(s)) = Len(s) - 1 /\ Len(s) > 0
  /\ \A s \in Pieces, t \in Pieces : s \o t \in Pieces /\ Len(s \o t) = Len(s) + Len(t)
  /\ \A s \in Pieces : s \o <<>> = s
<1>1. /\ \A s \in Seq(1..MaxPieces) : Len(s) \in Nat
      /\ \A s \in Seq(1..MaxPieces), k \in 1..MaxPieces : Len(Append(s, k)) = Len(s) + 1
  BY LenProperties, AppendProperties
<1>2. \A s \in Seq(1..MaxPieces) : s # <<>> => Len(Tail(s)) = Len(s) - 1 /\ Len(s) > 0
  BY HeadTailProperties, EmptySeq
<1>3. \A s \in Seq(1..MaxPieces), t \in Seq(1..MaxPieces) :
        s \o t \in Seq(1..MaxPieces) /\ Len(s \o t) = Len(s) + Len(t)
  BY ConcatProperties
<1>4. \A s \in Seq(1..MaxPieces) : s \o <<>> = s
  BY ConcatEmptySeq
<1>5. Len(<<>>) = 0
  OBVIOUS
<1>6. QED
  BY <1>1, <1>2, <1>3, <1>4, <1>5 DEF Pieces

\* Nothing of request q is touched; or only what its stream does not depend on.
Same(q) ==
  /\ wire'[q] = wire[q] /\ held'[q] = held[q] /\ pc'[q] = pc[q]
  /\ fin'[q] = fin[q] /\ left'[q] = left[q]
Quiet(q) ==
  /\ wire'[q] = wire[q]
  /\ \A h \in Hops : held'[q][h].data = held[q][h].data /\ held'[q][h].written = held[q][h].written
  /\ \A l \in {"cli", "p2p"} : Closed(q, l) => Closed(q, l)'
  /\ pc'[q]["proxy"] \in Early =>
       pc[q]["proxy"] \in Early /\ held'[q]["proxy"] = held[q]["proxy"]

LEMMA QuietKeeps ==
  ASSUME NEW q \in Requests, Stream(q), Same(q) \/ Quiet(q)
  PROVE  Stream(q)'
<1>1. Quiet(q)
  BY DEF Same, Quiet, Closed
<1>2. QED
  BY <1>1 DEF Quiet, Stream, After, Hops

\* What Put does to the links.
LEMMA PutFacts ==
  ASSUME FlowOK, NEW r \in Requests, NEW l \in Links, NEW status,
         NEW pieces \in Pieces, NEW end, Put(r, l, status, pieces, end)
  PROVE  /\ \A q \in Requests \ {r} : wire'[q] = wire[q] /\ fin'[q] = fin[q]
         /\ \A m \in Links \ {l} : wire'[r][m] = wire[r][m]
         /\ Closed(r, l) => wire'[r] = wire[r]
         /\ ~Closed(r, l) => wire'[r][l] = wire[r][l] \o pieces
         /\ pieces = <<>> => wire'[r] = wire[r]
         /\ \A m \in Links : fin[r][m] = "broken" => fin'[r][m] = "broken"
<1>1. CASE Closed(r, l)
  BY <1>1 DEF Put
<1>2. CASE ~Closed(r, l)
  <2>1. /\ wire' = [wire EXCEPT ![r][l] = wire[r][l] \o pieces]
        /\ fin' = [fin EXCEPT ![r][l] = end]
    BY <1>2 DEF Put
  <2>2. fin[r][l] # "broken"
    BY <1>2 DEF Closed
  <2>3. wire[r] \in [Links -> Pieces] /\ wire[r][l] \o <<>> = wire[r][l]
    BY LenFacts DEF FlowOK
  <2>4. pieces = <<>> => wire'[r] = wire[r]
    BY <2>1, <2>3 DEF FlowOK
  <2>5. QED
    BY <1>2, <2>1, <2>2, <2>4 DEF FlowOK
<1>3. QED
  BY <1>1, <1>2

\* A link that is closed stays so.
LEMMA ClosedStays ==
  ASSUME NEW r \in Requests,
         \A m \in Links : fin[r][m] = "broken" => fin'[r][m] = "broken",
         left[r] => left'[r],
         pc[r]["proxy"] = "done" => pc'[r]["proxy"] = "done"
  PROVE  \A l \in {"cli", "p2p"} : Closed(r, l) => Closed(r, l)'
BY DEF Closed, Links

\* A step that puts no pieces on a link and moves one thread.
LEMMA QuietPut ==
  ASSUME FlowOK, NEW r \in Requests, NEW t \in Threads, NEW label,
         NEW l \in Links, NEW status, NEW end,
         Goto(r, t, label), Put(r, l, status, <<>>, end), UNCHANGED <<held, left>>,
         t = "proxy" => /\ pc[r]["proxy"] = "done" => label = "done"
                        /\ label \in Early => pc[r]["proxy"] \in Early
  PROVE  \A q \in Requests : Same(q) \/ Quiet(q)
<1>1. /\ \A q \in Requests \ {r} : wire'[q] = wire[q] /\ fin'[q] = fin[q]
      /\ wire'[r] = wire[r]
      /\ \A m \in Links : fin[r][m] = "broken" => fin'[r][m] = "broken"
  <2>1. <<>> \in Pieces
    BY DEF Pieces
  <2>2. QED
    BY <2>1, PutFacts
<1>2. /\ \A q \in Requests \ {r} : pc'[q] = pc[q]
      /\ t # "proxy" => pc'[r]["proxy"] = pc[r]["proxy"]
      /\ t = "proxy" => pc'[r]["proxy"] = label
  BY DEF Goto, FlowOK, Threads, Hops
<1>3. \A q \in Requests \ {r} : Same(q)
  BY <1>1, <1>2 DEF Same
<1>4. Quiet(r)
  <2>1. pc[r]["proxy"] = "done" => pc'[r]["proxy"] = "done"
    BY <1>2
  <2>2. \A m \in {"cli", "p2p"} : Closed(r, m) => Closed(r, m)'
    BY <1>1, <2>1, ClosedStays
  <2>3. pc'[r]["proxy"] \in Early => pc[r]["proxy"] \in Early
    BY <1>2
  <2>4. QED
    BY <1>1, <2>2, <2>3 DEF Quiet
<1>5. QED
  BY <1>3, <1>4

\* A step that only moves threads.
LEMMA QuietGoto ==
  ASSUME NEW r \in Requests, UNCHANGED <<flow, left>>,
         \A q \in Requests \ {r} : pc'[q] = pc[q],
         pc[r]["proxy"] = "done" => pc'[r]["proxy"] = "done",
         pc'[r]["proxy"] \in Early => pc[r]["proxy"] \in Early
  PROVE  \A q \in Requests : Same(q) \/ Quiet(q)
<1>1. \A q \in Requests \ {r} : Same(q)
  BY DEF Same, flow
<1>2. Quiet(r)
  <2>1. \A m \in {"cli", "p2p"} : Closed(r, m) => Closed(r, m)'
    BY ClosedStays DEF flow
  <2>2. QED
    BY <2>1 DEF Quiet, flow
<1>3. QED
  BY <1>1, <1>2

LEMMA QuietReply ==
  ASSUME FlowOK, NEW r \in Requests, NEW h \in Hops, NEW code, Reply(r, h, code),
         UNCHANGED left
  PROVE  \A q \in Requests : Same(q) \/ Quiet(q)
<1>1. "done" \notin Early
  BY DEF Early
<1>2. QED
  BY <1>1, QuietPut, HopLinks DEF Reply

\* A panic before the copy starts loses nothing that was read.
LEMMA QuietPanic ==
  ASSUME FlowOK, NEW r \in Requests, Panic(r, "proxy"), UNCHANGED left,
         Stream(r), pc[r]["proxy"] \in Early
  PROVE  \A q \in Requests : Same(q) \/ Quiet(q)
<1>1. "proxy" \in Hops /\ "done" \notin Early
  BY DEF Hops, Early
<1>2. held[r]["proxy"] = Unwritten
  BY DEF Stream
<1>3. held' = held
  BY <1>1, <1>2 DEF Panic, FlowOK
<1>4. Goto(r, "proxy", "done") /\ Put(r, Out["proxy"], head[r][Out["proxy"]], <<>>, "broken")
  BY DEF Panic
<1>5. QED
  BY <1>1, <1>3, <1>4, QuietPut, HopLinks

\* The steps that move no pieces.
LEMMA QuietProxy ==
  ASSUME FlowOK, NEW r \in Requests, Stream(r),
         \/ Arrive(r) \/ Middleware(r) \/ AuthReply(r) \/ Handle(r)
         \/ DialOpens(r) \/ DialFails(r) \/ AwaitFails(r)
  PROVE  \A q \in Requests : Same(q) \/ Quiet(q)
<1>1. ASSUME NEW label \in Labels \ {"done"}, Goto(r, "proxy", label),
             UNCHANGED <<flow, left>>, pc[r]["proxy"] \in Early
      PROVE  \A q \in Requests : Same(q) \/ Quiet(q)
  <2>1. \A q \in Requests \ {r} : pc'[q] = pc[q]
    BY <1>1 DEF Goto, FlowOK
  <2>2. "done" \notin Early
    BY DEF Early
  <2>3. QED
    BY <1>1, <2>1, <2>2, QuietGoto
<1>2. ASSUME Forwarded(r), UNCHANGED left, pc[r]["proxy"] \in Early
      PROVE  \A q \in Requests : Same(q) \/ Quiet(q)
  <2>1. CASE Goto(r, "proxy", "handle") /\ UNCHANGED flow
    BY <1>1, <1>2, <2>1 DEF Labels, flow
  <2>2. CASE Panic(r, "proxy")
    BY <1>2, <2>2, QuietPanic
  <2>3. QED
    BY <1>2, <2>1, <2>2 DEF Forwarded
<1>3. "proxy" \in Hops
  BY DEF Hops
<1>4. CASE Arrive(r)
  <2>1. /\ pc[r]["proxy"] \in Early /\ Goto(r, "proxy", "middleware")
        /\ UNCHANGED flow /\ UNCHANGED left
    BY <1>4 DEF Arrive, Early
  <2>2. QED
    BY <1>1, <2>1 DEF Labels
<1>5. CASE Middleware(r)
  <2>1. pc[r]["proxy"] \in Early /\ UNCHANGED left
    BY <1>5 DEF Middleware, Early
  <2>2. \/ \E code : Reply(r, "proxy", code)
        \/ Forwarded(r)
        \/ Goto(r, "proxy", "auth") /\ UNCHANGED flow
    BY <1>5 DEF Middleware
  <2>3. QED
    BY <1>1, <1>2, <1>3, <2>1, <2>2, QuietReply DEF Labels
<1>6. CASE AuthReply(r)
  <2>1. pc[r]["proxy"] \in Early /\ UNCHANGED left
    BY <1>6 DEF AuthReply, Early
  <2>2. Reply(r, "proxy", 401) \/ Forwarded(r)
    BY <1>6 DEF AuthReply
  <2>3. QED
    BY <1>2, <1>3, <2>1, <2>2, QuietReply
<1>7. CASE Handle(r)
  <2>1. pc[r]["proxy"] \in Early /\ UNCHANGED left
    BY <1>7 DEF Handle, Early
  <2>2. \/ \E code : Reply(r, "proxy", code)
        \/ Goto(r, "proxy", "dial") /\ UNCHANGED flow
    BY <1>7 DEF Handle
  <2>3. QED
    BY <1>1, <1>3, <2>1, <2>2, QuietReply DEF Labels
<1>8. CASE DialOpens(r)
  <2>1. UNCHANGED flow /\ UNCHANGED left
    BY <1>8 DEF DialOpens, local
  <2>2. /\ \A q \in Requests \ {r} : pc'[q] = pc[q]
        /\ pc[r]["proxy"] = "dial" /\ pc'[r]["proxy"] = "await"
    BY <1>8 DEF DialOpens, FlowOK, Threads, Hops
  <2>3. QED
    BY <2>1, <2>2, QuietGoto DEF Early
<1>9. CASE DialFails(r) \/ AwaitFails(r)
  <2>1. pc[r]["proxy"] \in Early /\ UNCHANGED left /\ Panic(r, "proxy")
    BY <1>9 DEF DialFails, AwaitFails, local, Early
  <2>2. QED
    BY <2>1, QuietPanic
<1>10. QED
  BY <1>4, <1>5, <1>6, <1>7, <1>8, <1>9

LEMMA QuietEdge ==
  ASSUME FlowOK, NEW r \in Requests,
         EdgeValidate(r) \/ EdgeCall(r) \/ EdgeCallFails(r)
  PROVE  \A q \in Requests : Same(q) \/ Quiet(q)
<1>1. UNCHANGED left
  BY DEF EdgeValidate, EdgeCall, EdgeCallFails, local
<1>2. "edge" \in Hops
  BY DEF Hops
<1>3. CASE \E code : Reply(r, "edge", code)
  BY <1>1, <1>2, <1>3, QuietReply
<1>4. CASE UNCHANGED flow /\ (\/ Goto(r, "edge", "call")
                            \/ pc' = [pc EXCEPT ![r]["edge"] = "await", ![r]["app"] = "run"])
  <2>1. /\ \A q \in Requests \ {r} : pc'[q] = pc[q]
        /\ pc'[r]["proxy"] = pc[r]["proxy"]
    BY <1>4 DEF FlowOK, Threads, Hops, Goto
  <2>2. QED
    BY <1>1, <1>4, <2>1, QuietGoto
<1>5. QED
  BY <1>3, <1>4 DEF EdgeValidate, EdgeCall, EdgeCallFails

LEMMA QuietOthers ==
  ASSUME FlowOK, NEW r \in Requests,
         \/ AppAnswers(r) \/ AppCloses(r) \/ AppDies(r) \/ AppStops(r)
         \/ ClientLeaves(r) \/ StreamBreaks(r)
  PROVE  \A q \in Requests : Same(q) \/ Quiet(q)
<1>1. "app" \in Links /\ "app" \in Threads /\ "app" # "proxy"
  BY DEF Links, Threads
<1>2. CASE AppAnswers(r) \/ AppCloses(r)
  <2>1. UNCHANGED <<held, left>>
    BY <1>2 DEF AppAnswers, AppCloses, local
  <2>2. \E status, end, label : /\ Put(r, "app", status, <<>>, end)
                               /\ Goto(r, "app", label)
    <3>1. CASE AppAnswers(r)
      <4>1. PICK b \in Bodies, code \in {200, 401} :
              Put(r, "app", Answer("app", code), <<>>, "open")
        BY <3>1 DEF AppAnswers
      <4>2. Goto(r, "app", "write")
        BY <3>1 DEF AppAnswers
      <4>3. QED
        BY <4>1, <4>2
    <3>2. CASE AppCloses(r)
      <4>1. Put(r, "app", head[r]["app"], <<>>, "clean") /\ Goto(r, "app", "done")
        BY <3>2 DEF AppCloses
      <4>2. QED
        BY <4>1
    <3>3. QED
      BY <1>2, <3>1, <3>2
  <2>3. QED
    BY <1>1, <2>1, <2>2, QuietPut
<1>3. CASE AppStops(r)
  <2>1. /\ \A q \in Requests \ {r} : pc'[q] = pc[q]
        /\ pc'[r]["proxy"] = pc[r]["proxy"]
    BY <1>1, <1>3 DEF AppStops, FlowOK, Goto
  <2>2. UNCHANGED flow /\ UNCHANGED left
    BY <1>3 DEF AppStops, local
  <2>3. QED
    BY <2>1, <2>2, QuietGoto
<1>4. CASE AppDies(r) \/ StreamBreaks(r)
  <2>1. UNCHANGED <<wire, held, left>>
    BY <1>4 DEF AppDies, StreamBreaks
  <2>2. /\ \A q \in Requests \ {r} : fin'[q] = fin[q] /\ pc'[q] = pc[q]
        /\ pc'[r]["proxy"] = pc[r]["proxy"]
        /\ \A m \in Links : fin[r][m] = "broken" => fin'[r][m] = "broken"
    <3>1. CASE AppDies(r)
      <4>1. fin' = [fin EXCEPT ![r]["app"] = "broken"] /\ pc' = [pc EXCEPT ![r]["app"] = "done"]
        BY <3>1 DEF AppDies, Goto
      <4>2. QED
        BY <1>1, <4>1 DEF FlowOK, Links, Threads, Hops
    <3>2. CASE StreamBreaks(r)
      <4>1. fin' = [fin EXCEPT ![r]["p2p"] = "broken"] /\ UNCHANGED pc
        BY <3>2 DEF StreamBreaks
      <4>2. QED
        BY <4>1 DEF FlowOK, Links
    <3>3. QED
      BY <1>4, <3>1, <3>2
  <2>3. \A m \in {"cli", "p2p"} : Closed(r, m) => Closed(r, m)'
    BY <2>1, <2>2, ClosedStays
  <2>4. QED
    BY <2>1, <2>2, <2>3 DEF Same, Quiet
<1>5. CASE ClientLeaves(r)
  <2>1. UNCHANGED <<wire, held, fin, pc>> /\ left' = [left EXCEPT ![r] = TRUE]
    BY <1>5 DEF ClientLeaves, flow
  <2>2. \A m \in {"cli", "p2p"} : Closed(r, m) => Closed(r, m)'
    BY <2>1 DEF Closed
  <2>3. \A q \in Requests \ {r} : left'[q] = left[q]
    BY <2>1
  <2>4. QED
    BY <2>1, <2>2, <2>3 DEF Same, Quiet
<1>6. QED
  BY <1>2, <1>3, <1>4, <1>5

\* The steps of the copy loop that move no pieces.
LEMMA QuietCopy ==
  ASSUME FlowOK, NEW r \in Requests, NEW h \in Hops,
         CopyHead(r, h) \/ CopyWriteFails(r, h)
  PROVE  \A q \in Requests : Same(q) \/ Quiet(q)
<1>1. CASE CopyHead(r, h)
  <2>1. UNCHANGED <<wire, fin, left>> /\ pc[r][h] = "await"
    BY <1>1 DEF CopyHead, local
  <2>2. held' = [held EXCEPT ![r][h].head = head[r][In[h]]] /\ pc' = [pc EXCEPT ![r][h] = "copy"]
    BY <1>1 DEF CopyHead, Goto
  <2>3. \A q \in Requests \ {r} : Same(q)
    BY <2>1, <2>2 DEF Same, FlowOK
  <2>4. /\ \A g \in Hops : /\ held'[r][g].data = held[r][g].data
                          /\ held'[r][g].written = held[r][g].written
        /\ h = "edge" => held'[r]["proxy"] = held[r]["proxy"]
    BY <2>2 DEF FlowOK, Writers, Hops
  <2>5. /\ h = "edge" => pc'[r]["proxy"] = pc[r]["proxy"]
        /\ h = "proxy" => pc'[r]["proxy"] = "copy"
    BY <2>2, HopLinks DEF FlowOK, Threads, Hops
  <2>6. pc[r]["proxy"] = "done" => pc'[r]["proxy"] = "done"
    BY <2>1, <2>5 DEF Hops
  <2>7. \A m \in {"cli", "p2p"} : Closed(r, m) => Closed(r, m)'
    BY <2>1, <2>6, ClosedStays
  <2>8. Quiet(r)
    BY <2>1, <2>4, <2>5, <2>7 DEF Quiet, Hops, Early
  <2>9. QED
    BY <2>3, <2>8
<1>2. CASE CopyWriteFails(r, h)
  <2>1. UNCHANGED flow /\ UNCHANGED left /\ pc' = [pc EXCEPT ![r][h] = "done"]
    BY <1>2 DEF CopyWriteFails, local, Goto
  <2>2. /\ \A q \in Requests \ {r} : pc'[q] = pc[q]
        /\ pc'[r]["proxy"] \in {"done", pc[r]["proxy"]}
    BY <2>1 DEF FlowOK, Threads, Hops
  <2>3. QED
    BY <2>1, <2>2, QuietGoto DEF Early
<1>3. QED
  BY <1>1, <1>2

\* The types and numbers that the arithmetic of the streams is about.
LEMMA StreamTypes ==
  ASSUME FlowOK, NEW r \in Requests
  PROVE  /\ \A l \in Links : wire[r][l] \in Pieces /\ Len(wire[r][l]) \in Nat
         /\ \A h \in Hops : /\ held[r][h].data \in Pieces /\ Len(held[r][h].data) \in Nat
                           /\ held[r][h].written \in Nat
BY LenFacts DEF FlowOK, Writers

\* A piece goes from the link into the ResponseWriter.
LEMMA StreamPiece ==
  ASSUME FlowOK, NEW r \in Requests, NEW h \in Hops, Stream(r), CopyPiece(r, h)
  PROVE  (\A q \in Requests \ {r} : Same(q)) /\ Stream(r)'
<1> DEFINE in == wire[r][In[h]]
           w == held[r][h]
<1>1. /\ in \in Pieces /\ in # <<>> /\ w.data \in Pieces /\ w.written \in Nat
      /\ In[h] \in Links /\ h \in Threads
  BY StreamTypes, HopLinks DEF CopyPiece
<1>2. /\ held' = [held EXCEPT ![r][h] = Written(w, Head(in))]
      /\ wire' = [wire EXCEPT ![r][In[h]] = Tail(in)]
      /\ pc' = [pc EXCEPT ![r][h] = AfterWrite(r)]
      /\ UNCHANGED <<fin, left>>
  BY DEF CopyPiece, Goto, local
<1>3. \A q \in Requests \ {r} : Same(q)
  BY <1>2 DEF Same, FlowOK
<1>4. /\ held'[r][h] = Written(w, Head(in))
      /\ \A g \in Hops \ {h} : held'[r][g] = held[r][g]
      /\ wire'[r][In[h]] = Tail(in)
      /\ \A l \in Links \ {In[h]} : wire'[r][l] = wire[r][l]
  BY <1>1, <1>2 DEF FlowOK
<1>5. /\ held'[r][h].data = Append(w.data, Head(in))
      /\ held'[r][h].written = w.written + 1
  BY <1>4 DEF Written
<1>6. /\ After(w.data, w.written - Len(w.data)) /\ Len(w.data) <= w.written
      /\ After(in, w.written)
  BY DEF Stream
<1>7. Head(in) = w.written + 1 /\ After(Tail(in), w.written + 1)
  BY <1>1, <1>6, AfterFacts
<1>8. Head(in) \in 1..MaxPieces /\ Len(w.data) \in Nat
  BY <1>1, PiecesFacts, LenFacts
<1>9. w.written - Len(w.data) \in Nat
  BY <1>1, <1>6, <1>8
<1>10. After(Append(w.data, Head(in)), w.written - Len(w.data))
  BY <1>1, <1>6, <1>7, <1>8, <1>9, AfterFacts
<1>11. /\ Len(held'[r][h].data) = Len(w.data) + 1
       /\ Len(wire'[r][In[h]]) = Len(in) - 1 /\ Len(in) \in Nat
  BY <1>1, <1>4, <1>5, <1>8, LenFacts
<1>12. held'[r][h].written - Len(held'[r][h].data) = w.written - Len(w.data)
  <2>1. (w.written + 1) - (Len(w.data) + 1) = w.written - Len(w.data)
    <3> DEFINE n == w.written
               d == Len(w.data)
    <3>1. n \in Nat /\ d \in Nat
      BY <1>1, <1>8
    <3>2. (n + 1) - (d + 1) = n - d
      <4> HIDE DEF n, d
      <4> QED
        BY <3>1
    <3>3. QED
      BY <3>2
  <2>2. QED
    BY <1>5, <1>11, <2>1
<1>13. /\ Len(held'[r][h].data) <= held'[r][h].written
       /\ After(held'[r][h].data, held'[r][h].written - Len(held'[r][h].data))
       /\ After(wire'[r][In[h]], held'[r][h].written)
  <2>1. Len(w.data) + 1 <= w.written + 1
    BY <1>1, <1>6, <1>8
  <2>2. After(held'[r][h].data, held'[r][h].written - Len(held'[r][h].data))
    BY <1>5, <1>10, <1>12
  <2>3. After(wire'[r][In[h]], held'[r][h].written)
    BY <1>4, <1>5, <1>7
  <2>4. QED
    BY <1>5, <1>11, <2>1, <2>2, <2>3
<1>14. AfterWrite(r) \in {"copy", "flush"} /\ pc[r][h] = "copy"
  BY DEF AfterWrite, CopyPiece
<1>15. /\ h = "proxy" => pc'[r]["proxy"] \in {"copy", "flush"}
       /\ h = "edge" => pc'[r]["proxy"] = pc[r]["proxy"]
  <2>1. pc[r] \in [Threads -> Labels] /\ pc'[r] = [pc[r] EXCEPT ![h] = AfterWrite(r)]
    BY <1>2 DEF FlowOK
  <2>2. h # "proxy" => pc'[r]["proxy"] = pc[r]["proxy"]
    BY <2>1 DEF Threads, Hops
  <2>3. pc'[r][h] = AfterWrite(r)
    BY <1>1, <2>1
  <2>4. QED
    BY <1>14, <2>2, <2>3
<1>16. \A l \in {"cli", "p2p"} : Closed(r, l) <=> Closed(r, l)'
  <2>1. (pc[r]["proxy"] = "done") <=> (pc'[r]["proxy"] = "done")
    BY <1>14, <1>15 DEF Hops
  <2>2. QED
    BY <1>2, <2>1 DEF Closed
<1>17. CASE h = "proxy"
  <2>1. In[h] = "p2p" /\ In["edge"] = "app"
    BY <1>17 DEF In, Hops
  <2>2. /\ wire'[r]["cli"] = wire[r]["cli"] /\ wire'[r]["app"] = wire[r]["app"]
        /\ held'[r]["edge"] = held[r]["edge"]
    BY <1>4, <1>17, <2>1 DEF Links, Hops
  <2>3. /\ Len(wire[r]["cli"]) \in Nat /\ Len(held[r]["edge"].data) \in Nat
        /\ held[r]["edge"].written \in Nat
    BY StreamTypes DEF Links, Hops
  <2>4. /\ After(wire[r]["cli"], 0)'
        /\ Len(wire[r]["cli"]) <= w.written
        /\ ~Closed(r, "cli") => Len(wire[r]["cli"]) + Len(w.data) = w.written
        /\ w.written + Len(in) <= held[r]["edge"].written
        /\ ~Closed(r, "p2p") =>
             w.written + Len(in) + Len(held[r]["edge"].data) = held[r]["edge"].written
    BY <1>17, <2>1, <2>2 DEF Stream, After
  <2>5. /\ Len(wire'[r]["cli"]) <= held'[r]["proxy"].written
        /\ ~Closed(r, "cli")' =>
             Len(wire'[r]["cli"]) + Len(held'[r]["proxy"].data) = held'[r]["proxy"].written
        /\ held'[r]["proxy"].written + Len(wire'[r]["p2p"]) <= held'[r]["edge"].written
        /\ ~Closed(r, "p2p")' =>
             held'[r]["proxy"].written + Len(wire'[r]["p2p"]) + Len(held'[r]["edge"].data)
               = held'[r]["edge"].written
    <3> DEFINE c == Len(wire[r]["cli"])
               d == Len(w.data)
               n == w.written
               p == Len(in)
               e == Len(held[r]["edge"].data)
               m == held[r]["edge"].written
               cliClosed == Closed(r, "cli")
               p2pClosed == Closed(r, "p2p")
    <3>a. c \in Nat /\ d \in Nat /\ n \in Nat /\ p \in Nat /\ e \in Nat /\ m \in Nat
      BY <1>1, <1>8, <1>11, <2>3
    <3>b. /\ c <= n /\ (~cliClosed => c + d = n)
          /\ n + p <= m /\ (~p2pClosed => n + p + e = m)
      BY <2>4
    <3>c. /\ c <= n + 1 /\ (~cliClosed => c + (d + 1) = n + 1)
          /\ (n + 1) + (p - 1) <= m /\ (~p2pClosed => (n + 1) + (p - 1) + e = m)
      <4> HIDE DEF c, d, n, p, e, m, cliClosed, p2pClosed
      <4> QED
        BY <3>a, <3>b
    <3>d. (Closed(r, "cli")' <=> cliClosed) /\ (Closed(r, "p2p")' <=> p2pClosed)
      BY <1>16
    <3>3. /\ Len(held'[r]["proxy"].data) = Len(w.data) + 1
          /\ held'[r]["proxy"].written = w.written + 1
          /\ Len(wire'[r]["p2p"]) = Len(in) - 1
      BY <1>5, <1>11, <1>17, <2>1
    <3>4. QED
      BY <2>2, <3>c, <3>d, <3>3
  <2>6. /\ Len(held[r]["edge"].data)' <= held'[r]["edge"].written
        /\ After(held'[r]["edge"].data, held'[r]["edge"].written - Len(held'[r]["edge"].data))
        /\ After(wire'[r][In["edge"]], held'[r]["edge"].written)
    BY <2>1, <2>2 DEF Stream, Hops, After
  <2>7. pc'[r]["proxy"] \notin Early
    BY <1>15, <1>17 DEF Early
  <2>8. \A g \in Hops :
          /\ Len(held'[r][g].data) <= held'[r][g].written
          /\ After(held'[r][g].data, held'[r][g].written - Len(held'[r][g].data))
          /\ After(wire'[r][In[g]], held'[r][g].written)
    BY <1>13, <1>17, <2>6 DEF Hops
  <2>9. QED
    BY <1>3, <2>4, <2>5, <2>7, <2>8 DEF Stream
<1>18. CASE h = "edge"
  <2>1. In[h] = "app" /\ In["proxy"] = "p2p"
    BY <1>18 DEF In, Hops
  <2>2. /\ wire'[r]["cli"] = wire[r]["cli"] /\ wire'[r]["p2p"] = wire[r]["p2p"]
        /\ held'[r]["proxy"] = held[r]["proxy"]
    BY <1>4, <1>18, <2>1 DEF Links, Hops
  <2>3. /\ Len(wire[r]["cli"]) \in Nat /\ Len(wire[r]["p2p"]) \in Nat
        /\ Len(held[r]["proxy"].data) \in Nat /\ held[r]["proxy"].written \in Nat
    BY StreamTypes DEF Links, Hops
  <2>4. /\ After(wire[r]["cli"], 0)'
        /\ Len(wire[r]["cli"]) <= held[r]["proxy"].written
        /\ ~Closed(r, "cli") =>
             Len(wire[r]["cli"]) + Len(held[r]["proxy"].data) = held[r]["proxy"].written
        /\ held[r]["proxy"].written + Len(wire[r]["p2p"]) <= w.written
        /\ ~Closed(r, "p2p") =>
             held[r]["proxy"].written + Len(wire[r]["p2p"]) + Len(w.data) = w.written
        /\ pc[r]["proxy"] \in Early => held[r]["proxy"] = Unwritten
    BY <1>18, <2>1, <2>2 DEF Stream, After
  <2>5. /\ Len(wire'[r]["cli"]) <= held'[r]["proxy"].written
        /\ ~Closed(r, "cli")' =>
             Len(wire'[r]["cli"]) + Len(held'[r]["proxy"].data) = held'[r]["proxy"].written
        /\ held'[r]["proxy"].written + Len(wire'[r]["p2p"]) <= held'[r]["edge"].written
        /\ ~Closed(r, "p2p")' =>
             held'[r]["proxy"].written + Len(wire'[r]["p2p"]) + Len(held'[r]["edge"].data)
               = held'[r]["edge"].written
    <3> DEFINE d == Len(w.data)
               n == w.written
               p == Len(wire[r]["p2p"])
               m == held[r]["proxy"].written
               p2pClosed == Closed(r, "p2p")
    <3>a. d \in Nat /\ n \in Nat /\ p \in Nat /\ m \in Nat
      BY <1>1, <1>8, <2>3
    <3>b. m + p <= n /\ (~p2pClosed => m + p + d = n)
      BY <2>4
    <3>c. m + p <= n + 1 /\ (~p2pClosed => m + p + (d + 1) = n + 1)
      <4> HIDE DEF d, n, p, m, p2pClosed
      <4> QED
        BY <3>a, <3>b
    <3>d. Closed(r, "p2p")' <=> p2pClosed
      BY <1>16
    <3>2. Len(held'[r]["edge"].data) = Len(w.data) + 1 /\ held'[r]["edge"].written = w.written + 1
      BY <1>5, <1>11, <1>18
    <3>3. QED
      BY <1>16, <2>2, <2>4, <3>c, <3>d, <3>2
  <2>6. /\ Len(held[r]["proxy"].data)' <= held'[r]["proxy"].written
        /\ After(held'[r]["proxy"].data, held'[r]["proxy"].written - Len(held'[r]["proxy"].data))
        /\ After(wire'[r][In["proxy"]], held'[r]["proxy"].written)
    BY <2>1, <2>2 DEF Stream, Hops, After
  <2>7. pc'[r]["proxy"] \in Early => held'[r]["proxy"] = Unwritten
    BY <1>15, <1>18, <2>2, <2>4
  <2>8. \A g \in Hops :
          /\ Len(held'[r][g].data) <= held'[r][g].written
          /\ After(held'[r][g].data, held'[r][g].written - Len(held'[r][g].data))
          /\ After(wire'[r][In[g]], held'[r][g].written)
    BY <1>13, <1>18, <2>6 DEF Hops
  <2>9. QED
    BY <1>3, <2>4, <2>5, <2>7, <2>8 DEF Stream
<1>19. QED
  BY <1>17, <1>18 DEF Hops

\* What a ResponseWriter holds goes on the wire, or is dropped with the link.
LEMMA StreamFlush ==
  ASSUME FlowOK, NEW r \in Requests, NEW h \in Hops, Stream(r),
         NEW end, Put(r, Out[h], held[r][h].head, held[r][h].data, end),
         held' = [held EXCEPT ![r][h].data = <<>>], UNCHANGED left,
         pc[r][h] \notin Early \cup {"done"},
         (\E label \in Labels \ Early : Goto(r, h, label)) \/ UNCHANGED pc
  PROVE  (\A q \in Requests \ {r} : Same(q)) /\ Stream(r)'
<1> DEFINE data == held[r][h].data
<1>1. /\ data \in Pieces /\ Out[h] \in Links /\ In[h] \in Links /\ h \in Threads
      /\ Len(data) \in Nat /\ <<>> \in Pieces /\ Len(<<>>) = 0
  BY StreamTypes, HopLinks, LenFacts DEF Pieces
<1>2. /\ \A q \in Requests \ {r} : wire'[q] = wire[q] /\ fin'[q] = fin[q]
      /\ \A m \in Links \ {Out[h]} : wire'[r][m] = wire[r][m]
      /\ Closed(r, Out[h]) => wire'[r] = wire[r]
      /\ ~Closed(r, Out[h]) => wire'[r][Out[h]] = wire[r][Out[h]] \o data
      /\ \A m \in Links : fin[r][m] = "broken" => fin'[r][m] = "broken"
  <2> DEFINE l == Out[h]
  <2>1. PICK status : Put(r, l, status, data, end)
    OBVIOUS
  <2>2. data \in Pieces /\ l \in Links
    BY <1>1
  <2>3. QED
    <3> HIDE DEF data, l
    <3>1. /\ \A q \in Requests \ {r} : wire'[q] = wire[q] /\ fin'[q] = fin[q]
          /\ \A m \in Links \ {l} : wire'[r][m] = wire[r][m]
          /\ Closed(r, l) => wire'[r] = wire[r]
          /\ ~Closed(r, l) => wire'[r][l] = wire[r][l] \o data
          /\ \A m \in Links : fin[r][m] = "broken" => fin'[r][m] = "broken"
      BY <2>1, <2>2, PutFacts
    <3>2. QED
      BY <3>1 DEF l, data
<1>3. /\ \A q \in Requests \ {r} : held'[q] = held[q]
      /\ \A g \in Hops \ {h} : held'[r][g] = held[r][g]
      /\ held'[r][h].data = <<>> /\ held'[r][h].written = held[r][h].written
  BY DEF FlowOK, Writers
<1>4. /\ \A q \in Requests \ {r} : pc'[q] = pc[q]
      /\ h = "edge" => pc'[r]["proxy"] = pc[r]["proxy"]
      /\ h = "proxy" => pc'[r]["proxy"] \notin Early
  <2>1. CASE UNCHANGED pc
    BY <2>1
  <2>2. ASSUME NEW label \in Labels \ Early, Goto(r, h, label)
        PROVE  <1>4
    BY <1>1, <2>2 DEF Goto, FlowOK, Hops, Threads
  <2>3. QED
    BY <2>1, <2>2
<1>5. \A q \in Requests \ {r} : Same(q)
  BY <1>2, <1>3, <1>4 DEF Same
<1>6. \A l \in {"cli", "p2p"} : Closed(r, l) => Closed(r, l)'
  <2>1. h = "proxy" => pc[r]["proxy"] # "done"
    OBVIOUS
  <2>2. pc[r]["proxy"] = "done" => pc'[r]["proxy"] = "done"
    BY <1>4, <2>1 DEF Hops
  <2>3. QED
    BY <1>2, <2>2, ClosedStays
<1>7. \A g \in Hops :
        /\ Len(held'[r][g].data) <= held'[r][g].written
        /\ After(held'[r][g].data, held'[r][g].written - Len(held'[r][g].data))
  <2>1. /\ Len(held'[r][h].data) <= held'[r][h].written
        /\ After(held'[r][h].data, held'[r][h].written - Len(held'[r][h].data))
    BY <1>1, <1>3, StreamTypes, AfterFacts
  <2>2. \A g \in Hops \ {h} :
          /\ Len(held'[r][g].data) <= held'[r][g].written
          /\ After(held'[r][g].data, held'[r][g].written - Len(held'[r][g].data))
    BY <1>3 DEF Stream
  <2>3. QED
    BY <2>1, <2>2
<1>8. CASE h = "proxy"
  <2>1. Out[h] = "cli" /\ In["proxy"] = "p2p" /\ In["edge"] = "app"
    BY <1>8 DEF Out, In, Hops
  <2>2. /\ wire'[r]["p2p"] = wire[r]["p2p"] /\ wire'[r]["app"] = wire[r]["app"]
        /\ held'[r]["edge"] = held[r]["edge"]
        /\ held'[r]["proxy"].written = held[r]["proxy"].written
        /\ held'[r]["proxy"].data = <<>>
    BY <1>2, <1>3, <1>8, <2>1 DEF Links, Hops
  <2>3. /\ After(wire'[r]["cli"], 0)
        /\ Len(wire'[r]["cli"]) <= held[r]["proxy"].written
        /\ ~Closed(r, "cli")' => Len(wire'[r]["cli"]) = held[r]["proxy"].written
    <3>1. CASE Closed(r, "cli")
      BY <1>2, <1>6, <2>1, <3>1 DEF Stream
    <3>2. CASE ~Closed(r, "cli")
      <4>1. wire'[r]["cli"] = wire[r]["cli"] \o data /\ wire[r]["cli"] \in Pieces
        BY <1>2, <2>1, <3>2, StreamTypes DEF Links
      <4>2. Len(wire'[r]["cli"]) = Len(wire[r]["cli"]) + Len(data)
        BY <1>1, <4>1, LenFacts
      <4>3. Len(wire[r]["cli"]) + Len(data) = held[r]["proxy"].written
        BY <1>8, <3>2 DEF Stream
      <4>4. After(wire[r]["cli"], 0) /\ After(data, held[r]["proxy"].written - Len(data))
        BY <1>8 DEF Stream
      <4>5. Len(wire[r]["cli"]) \in Nat /\ held[r]["proxy"].written \in Nat
        BY StreamTypes DEF Links, Hops
      <4>6. held[r]["proxy"].written - Len(data) = 0 + Len(wire[r]["cli"])
        <5> DEFINE n == held[r]["proxy"].written
                   c == Len(wire[r]["cli"])
                   d == Len(data)
        <5>1. n \in Nat /\ c \in Nat /\ d \in Nat /\ c + d = n
          BY <1>1, <4>3, <4>5
        <5>2. n - d = 0 + c
          <6> HIDE DEF n, c, d
          <6> QED
            BY <5>1
        <5>3. QED
          BY <5>2
      <4>7. After(wire'[r]["cli"], 0)
        BY <1>1, <4>1, <4>4, <4>6, AfterFacts
      <4>8. Len(wire'[r]["cli"]) = held[r]["proxy"].written
        BY <4>2, <4>3
      <4>9. QED
        BY <4>5, <4>7, <4>8
    <3>3. QED
      BY <3>1, <3>2
  <2>4. /\ Len(wire'[r]["cli"]) <= held'[r]["proxy"].written
        /\ ~Closed(r, "cli")' =>
             Len(wire'[r]["cli"]) + Len(held'[r]["proxy"].data) = held'[r]["proxy"].written
    <3> DEFINE c == Len(wire'[r]["cli"])
               n == held[r]["proxy"].written
    <3>1. n \in Nat /\ Len(held'[r]["proxy"].data) = 0
      BY <1>1, <2>2, StreamTypes DEF Hops
    <3>2. c <= n /\ (~Closed(r, "cli")' => c = n)
      BY <2>3
    <3>3. ~Closed(r, "cli")' => c + Len(held'[r]["proxy"].data) = n
      <4> HIDE DEF c, n
      <4> QED
        BY <3>1, <3>2
    <3>4. QED
      BY <2>2, <3>2, <3>3
  <2>5. /\ held'[r]["proxy"].written + Len(wire'[r]["p2p"]) <= held'[r]["edge"].written
        /\ ~Closed(r, "p2p")' =>
             held'[r]["proxy"].written + Len(wire'[r]["p2p"]) + Len(held'[r]["edge"].data)
               = held'[r]["edge"].written
    BY <1>6, <2>2 DEF Stream
  <2>6. \A g \in Hops : After(wire'[r][In[g]], held'[r][g].written)
    BY <2>1, <2>2 DEF Stream, Hops
  <2>7. pc'[r]["proxy"] \notin Early
    BY <1>4, <1>8
  <2>8. QED
    BY <1>5, <1>7, <2>3, <2>4, <2>5, <2>6, <2>7 DEF Stream, After
<1>9. CASE h = "edge"
  <2>1. Out[h] = "p2p" /\ In["proxy"] = "p2p" /\ In["edge"] = "app"
    BY <1>9 DEF Out, In, Hops
  <2>2. /\ wire'[r]["cli"] = wire[r]["cli"] /\ wire'[r]["app"] = wire[r]["app"]
        /\ held'[r]["proxy"] = held[r]["proxy"]
        /\ held'[r]["edge"].written = held[r]["edge"].written
        /\ held'[r]["edge"].data = <<>>
    BY <1>2, <1>3, <1>9, <2>1 DEF Links, Hops
  <2>3. /\ After(wire'[r]["p2p"], held[r]["proxy"].written)
        /\ held[r]["proxy"].written + Len(wire'[r]["p2p"]) <= held[r]["edge"].written
        /\ ~Closed(r, "p2p")' =>
             held[r]["proxy"].written + Len(wire'[r]["p2p"]) = held[r]["edge"].written
    <3>1. CASE Closed(r, "p2p")
      BY <1>2, <1>6, <2>1, <3>1 DEF Stream, Hops
    <3>2. CASE ~Closed(r, "p2p")
      <4> DEFINE m == held[r]["proxy"].written
                 n == held[r]["edge"].written
                 p == Len(wire[r]["p2p"])
                 d == Len(data)
      <4>1. wire'[r]["p2p"] = wire[r]["p2p"] \o data /\ wire[r]["p2p"] \in Pieces
        BY <1>2, <2>1, <3>2, StreamTypes DEF Links
      <4>2. Len(wire'[r]["p2p"]) = p + d
        BY <1>1, <4>1, LenFacts
      <4>3. m + p + d = n
        BY <1>9, <3>2 DEF Stream
      <4>4. After(wire[r]["p2p"], m) /\ After(data, n - d)
        BY <1>9, <2>1 DEF Stream, Hops
      <4>5. m \in Nat /\ n \in Nat /\ p \in Nat /\ d \in Nat
        BY <1>1, StreamTypes DEF Links, Hops
      <4>6. n - d = m + p /\ m + (p + d) = n /\ m + (p + d) <= n
        <5> HIDE DEF m, n, p, d
        <5> QED
          BY <4>3, <4>5
      <4>7. After(wire'[r]["p2p"], m)
        BY <1>1, <4>1, <4>4, <4>5, <4>6, AfterFacts
      <4>8. QED
        BY <4>2, <4>6, <4>7
    <3>3. QED
      BY <3>1, <3>2
  <2>4. /\ held'[r]["proxy"].written + Len(wire'[r]["p2p"]) <= held'[r]["edge"].written
        /\ ~Closed(r, "p2p")' =>
             held'[r]["proxy"].written + Len(wire'[r]["p2p"]) + Len(held'[r]["edge"].data)
               = held'[r]["edge"].written
    <3> DEFINE s == held'[r]["proxy"].written + Len(wire'[r]["p2p"])
    <3>1. held[r]["edge"].written \in Nat /\ Len(held'[r]["edge"].data) = 0
      BY <1>1, <2>2, StreamTypes DEF Hops
    <3>2. s <= held[r]["edge"].written /\ (~Closed(r, "p2p")' => s = held[r]["edge"].written)
      BY <2>2, <2>3
    <3>3. ~Closed(r, "p2p")' => s + Len(held'[r]["edge"].data) = held[r]["edge"].written
      <4> HIDE DEF s
      <4> QED
        BY <3>1, <3>2
    <3>4. QED
      BY <2>2, <3>2, <3>3
  <2>5. /\ Len(wire'[r]["cli"]) <= held'[r]["proxy"].written
        /\ ~Closed(r, "cli")' =>
             Len(wire'[r]["cli"]) + Len(held'[r]["proxy"].data) = held'[r]["proxy"].written
    BY <1>6, <2>2 DEF Stream
  <2>6. \A g \in Hops : After(wire'[r][In[g]], held'[r][g].written)
    BY <2>1, <2>2, <2>3 DEF Stream, Hops
  <2>7. pc'[r]["proxy"] \in Early => held'[r]["proxy"] = Unwritten
    BY <1>4, <1>9, <2>2 DEF Stream
  <2>8. After(wire'[r]["cli"], 0)
    BY <2>2 DEF Stream
  <2>9. QED
    BY <1>5, <1>7, <2>4, <2>5, <2>6, <2>7, <2>8 DEF Stream, After
<1>10. QED
  BY <1>8, <1>9 DEF Hops

\* The application writes the next piece on its link.
LEMMA StreamAppWrites ==
  ASSUME FlowOK, NEW r \in Requests, Stream(r), AppWrites(r)
  PROVE  (\A q \in Requests \ {r} : Same(q)) /\ Stream(r)'
<1> DEFINE k == Emitted(r) + 1
<1>1. /\ UNCHANGED <<pc, held, left>> /\ ~Closed(r, "app")
      /\ Put(r, "app", head[r]["app"], <<k>>, "open")
  BY DEF AppWrites, local
<1>2. k \in 1..MaxPieces
  <2>1. body[r].pieces \in 0..MaxPieces
    BY BoundAssumption DEF FlowOK, Bodies, NoBody
  <2>2. QED
    BY <2>1, EmittedType, BoundAssumption DEF AppWrites
<1>3. <<k>> \in Pieces /\ "app" \in Links /\ wire[r]["app"] \in Pieces
  BY <1>2, StreamTypes DEF Pieces, Links
<1>4. /\ \A q \in Requests \ {r} : wire'[q] = wire[q] /\ fin'[q] = fin[q]
      /\ \A m \in Links \ {"app"} : wire'[r][m] = wire[r][m]
      /\ wire'[r]["app"] = wire[r]["app"] \o <<k>>
      /\ \A m \in Links : fin[r][m] = "broken" => fin'[r][m] = "broken"
  BY <1>1, <1>3, PutFacts
<1>5. \A l \in {"cli", "p2p"} : Closed(r, l) => Closed(r, l)'
  BY <1>1, <1>4, ClosedStays
<1>6. After(wire'[r]["app"], held[r]["edge"].written)
  <2>1. After(wire[r]["app"], held[r]["edge"].written)
    BY DEF Stream, Hops, In
  <2>2. held[r]["edge"].written \in Nat
    BY StreamTypes DEF Hops
  <2>3. k = held[r]["edge"].written + Len(wire[r]["app"]) + 1
    BY DEF Emitted
  <2>4. After(<<k>>, held[r]["edge"].written + Len(wire[r]["app"]))
    BY <2>3 DEF After
  <2>5. QED
    BY <1>3, <1>4, <2>1, <2>2, <2>4, AfterFacts
<1>7. wire'[r]["cli"] = wire[r]["cli"] /\ wire'[r]["p2p"] = wire[r]["p2p"]
  BY <1>4 DEF Links
<1>8. \A h \in Hops : After(wire'[r][In[h]], held'[r][h].written)
  BY <1>1, <1>6, <1>7 DEF Stream, Hops, In
<1>9. Stream(r)'
  BY <1>1, <1>5, <1>7, <1>8 DEF Stream, Hops, After
<1>10. QED
  BY <1>1, <1>4, <1>9 DEF Same

LEMMA StreamInit == Init => StreamInv
<1>1. SUFFICES ASSUME Init, NEW r \in Requests PROVE Stream(r)
  BY DEF StreamInv
<1>2. /\ \A l \in Links : wire[r][l] = <<>>
      /\ \A h \in Hops : held[r][h] = Unwritten
  BY <1>1 DEF Init
<1>3. Len(<<>>) = 0 /\ \A n : After(<<>>, n)
  BY LenFacts, AfterFacts
<1>4. Unwritten.data = <<>> /\ Unwritten.written = 0
  BY DEF Unwritten
<1>5. \A h \in Hops :
        /\ Len(held[r][h].data) = 0 /\ held[r][h].written = 0
        /\ held[r][h].data = <<>> /\ wire[r][In[h]] = <<>>
  BY <1>2, <1>3, <1>4, HopLinks
<1>6. "edge" \in Hops /\ "proxy" \in Hops /\ "cli" \in Links /\ "p2p" \in Links
  BY DEF Hops, Links
<1>7. /\ Len(wire[r]["cli"]) = 0 /\ Len(wire[r]["p2p"]) = 0
      /\ wire[r]["cli"] = <<>> /\ held[r]["proxy"] = Unwritten
  BY <1>2, <1>3, <1>6
<1>8. \A h \in Hops :
        /\ Len(held[r][h].data) <= held[r][h].written
        /\ After(held[r][h].data, held[r][h].written - Len(held[r][h].data))
        /\ After(wire[r][In[h]], held[r][h].written)
  <2>1. \A h \in Hops : Len(held[r][h].data) <= held[r][h].written
    BY <1>5
  <2>2. \A h \in Hops : /\ After(held[r][h].data, held[r][h].written - Len(held[r][h].data))
                        /\ After(wire[r][In[h]], held[r][h].written)
    BY <1>3, <1>5, Zenon
  <2>3. QED
    BY <2>1, <2>2
<1>9. /\ After(wire[r]["cli"], 0)
      /\ pc[r]["proxy"] \in Early => held[r]["proxy"] = Unwritten
  BY <1>3, <1>7
<1>10. /\ Len(wire[r]["cli"]) <= held[r]["proxy"].written
       /\ Len(wire[r]["cli"]) + Len(held[r]["proxy"].data) = held[r]["proxy"].written
       /\ held[r]["proxy"].written + Len(wire[r]["p2p"]) <= held[r]["edge"].written
       /\ held[r]["proxy"].written + Len(wire[r]["p2p"]) + Len(held[r]["edge"].data)
            = held[r]["edge"].written
  <2>1. /\ held[r]["proxy"].written = 0 /\ Len(held[r]["proxy"].data) = 0
        /\ held[r]["edge"].written = 0 /\ Len(held[r]["edge"].data) = 0
    BY <1>5, <1>6
  <2>2. 0 + 0 = 0 /\ 0 + 0 + 0 = 0 /\ 0 <= 0
    OBVIOUS
  <2>3. QED
    BY <1>7, <2>1, <2>2, Zenon
<1>11. QED
  BY <1>8, <1>9, <1>10 DEF Stream

LEMMA StreamStep ==
  ASSUME TypeOK, StreamInv, Next
  PROVE  StreamInv'
<1>1. FlowOK /\ \A q \in Requests : Stream(q)
  BY TypeSplit DEF StreamInv
<1>2. ASSUME \A q \in Requests : Same(q) \/ Quiet(q)
      PROVE  StreamInv'
  BY <1>1, <1>2, QuietKeeps DEF StreamInv
<1>3. ASSUME NEW r \in Requests, \A q \in Requests \ {r} : Same(q), Stream(r)'
      PROVE  StreamInv'
  BY <1>1, <1>3, QuietKeeps DEF StreamInv
<1>4. CASE Network
  <2>1. UNCHANGED <<local, flow, pc>>
    BY <1>4 DEF Network, RelayStarts, TableSyncs, NodeMoves, AddressExpires
  <2>2. QED
    BY <1>2, <2>1 DEF Same, flow, local
<1>5. ASSUME NEW r \in Requests, Arrive(r) \/ ProxyStep(r) \/ EdgeStep(r) \/ AppStep(r)
                                 \/ Environment(r)
      PROVE  StreamInv'
  <2>1. CASE \/ Arrive(r) \/ Middleware(r) \/ AuthReply(r) \/ Handle(r)
             \/ DialOpens(r) \/ DialFails(r) \/ AwaitFails(r)
    BY <1>1, <1>2, <2>1, QuietProxy
  <2>2. CASE EdgeValidate(r) \/ EdgeCall(r) \/ EdgeCallFails(r)
    BY <1>1, <1>2, <2>2, QuietEdge
  <2>3. CASE \/ AppAnswers(r) \/ AppCloses(r) \/ AppDies(r) \/ AppStops(r)
             \/ ClientLeaves(r) \/ StreamBreaks(r)
    BY <1>1, <1>2, <2>3, QuietOthers
  <2>4. CASE AppWrites(r)
    BY <1>1, <1>3, <2>4, StreamAppWrites
  <2>5. ASSUME NEW h \in Hops, Copy(r, h) \/ BufferFills(r, h)
        PROVE  StreamInv'
    <3>1. CASE CopyHead(r, h) \/ CopyWriteFails(r, h)
      BY <1>1, <1>2, <3>1, QuietCopy
    <3>2. CASE CopyPiece(r, h)
      BY <1>1, <1>3, <3>2, StreamPiece
    <3>3. CASE CopyFlush(r, h) \/ BufferFills(r, h) \/ CopyEnds(r, h)
      <4>1. /\ UNCHANGED left /\ pc[r][h] \notin Early \cup {"done"}
            /\ held' = [held EXCEPT ![r][h].data = <<>>]
            /\ (\E label \in Labels \ Early : Goto(r, h, label)) \/ UNCHANGED pc
        BY <3>3 DEF CopyFlush, BufferFills, CopyEnds, Flush, local, Early, Labels
      <4>2. \E end : Put(r, Out[h], held[r][h].head, held[r][h].data, end)
        BY <3>3 DEF CopyFlush, BufferFills, CopyEnds, Flush
      <4>3. (\A q \in Requests \ {r} : Same(q)) /\ Stream(r)'
        BY <1>1, <4>1, <4>2, StreamFlush
      <4>4. QED
        BY <1>3, <4>3
    <3>4. QED
      BY <2>5, <3>1, <3>2, <3>3 DEF Copy
  <2>6. QED
    BY <1>5, <2>1, <2>2, <2>3, <2>4, <2>5
    DEF ProxyStep, EdgeStep, AppStep, Environment, Hops
<1>6. QED
  BY <1>4, <1>5 DEF Next

\* What is on its way in order is received in order.
LEMMA OrderFollows == ASSUME StreamInv, TypeOK PROVE InOrder
<1>1. SUFFICES ASSUME NEW r \in Requests
               PROVE  /\ \A i \in DOMAIN wire[r]["cli"] : wire[r]["cli"][i] = i
                      /\ Len(wire[r]["cli"]) <= Emitted(r)
  BY DEF InOrder
<1>2. FlowOK /\ Stream(r)
  BY <1>1, TypeSplit DEF StreamInv
<1>3. \A i \in DOMAIN wire[r]["cli"] : wire[r]["cli"][i] = i
  <2>1. wire[r]["cli"] \in Seq(1..MaxPieces)
    BY <1>2, StreamTypes DEF Links, Pieces
  <2>2. DOMAIN wire[r]["cli"] = 1..Len(wire[r]["cli"]) /\ Len(wire[r]["cli"]) \in Nat
    BY <2>1, LenProperties
  <2>3. \A i \in DOMAIN wire[r]["cli"] : wire[r]["cli"][i] = 0 + i
    BY <1>2 DEF Stream, After
  <2>4. QED
    BY <2>2, <2>3
<1>4. Len(wire[r]["cli"]) <= Emitted(r)
  <2> DEFINE c == Len(wire[r]["cli"])
             m == held[r]["proxy"].written
             p == Len(wire[r]["p2p"])
             n == held[r]["edge"].written
             a == Len(wire[r]["app"])
  <2>1. c \in Nat /\ m \in Nat /\ p \in Nat /\ n \in Nat /\ a \in Nat
    BY <1>2, StreamTypes DEF Links, Hops
  <2>2. c <= m /\ m + p <= n
    BY <1>2 DEF Stream
  <2>3. c <= n + a
    <3> HIDE DEF c, m, p, n, a
    <3> QED
      BY <2>1, <2>2
  <2>4. QED
    BY <2>3 DEF Emitted
<1>5. QED
  BY <1>3, <1>4

\* Whatever the sizes, failures and interleavings, a client has received a
\* prefix of what the application wrote.
THEOREM ReceivedInOrder == Spec => []InOrder
<1>1. StreamInv /\ TypeOK /\ [Next]_vars => StreamInv'
  <2>1. ASSUME StreamInv, UNCHANGED vars PROVE StreamInv'
    <3>1. \A r \in Requests : Same(r)
      BY <2>1 DEF vars, Same
    <3>2. QED
      BY <2>1, <3>1, QuietKeeps DEF StreamInv
  <2>2. QED
    BY <2>1, StreamStep
<1>2. StreamInv /\ TypeOK => InOrder
  BY OrderFollows
<1>3. QED
  BY StreamInit, TypeCorrect, <1>1, <1>2, PTL DEF Spec
=============================================================================
