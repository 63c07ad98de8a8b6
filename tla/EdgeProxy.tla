------------------------------ MODULE EdgeProxy ------------------------------
(***************************************************************************)
(* A request through the network: the transparent proxy of a full node     *)
(* (proxy/transparent_proxy.go) forwards it over a libp2p stream to the    *)
(* edge node its path names, whose endpoint handler (server/server.go)     *)
(* forwards it to the local application; the answer streams back through   *)
(* both handlers.  Every request is served by two goroutines, one per hop, *)
(* which run concurrently with each other, with the application, with the  *)
(* other requests and with the synchronisation of the peer table.          *)
(*                                                                         *)
(* The proxy keeps nothing per node but the peer table and the peerstore,  *)
(* both keyed by node id: the model follows the requests for one node.     *)
(* A body is a sequence of numbered pieces; of a text/event-stream body    *)
(* each piece is a line, and the last may lack its newline; a body of either*)
(* kind may declare its length, and both handlers pass the declaration on. *)
(***************************************************************************)
EXTENDS Naturals, Sequences

CONSTANTS
  Requests,      \* client requests
  NoAuth,        \* AppNoAuth of the full node: the middleware without bearers
  EdgeNoAuth,    \* AppNoAuth of the edge node
  MaxPieces,     \* bound: pieces in the body of an application's answer
  Methods,       \* the methods, paths and answers that requests draw from
  Paths,
  Kinds,
  Entries,       \* what the synced peer table can say of the node
  Places         \* where the node can really be

ASSUME ModeAssumption == NoAuth \in BOOLEAN /\ EdgeNoAuth \in BOOLEAN
ASSUME BoundAssumption == MaxPieces \in Nat
ASSUME MethodsAssumption == Methods \subseteq {"GET", "POST", "OPTIONS", "PUT"}
ASSUME PathsAssumption == Paths \subseteq {"short", "bad", "fine", "odd"}
ASSUME KindsAssumption == Kinds \subseteq {"sse", "plain"}
ASSUME EntriesAssumption ==
  Entries \subseteq {"none", "neither", "malformed", "relay", "direct"}
ASSUME PlacesAssumption == Places \subseteq {"relay", "direct", "down"}

VARIABLES
  input,      \* what the client sent
  token,      \* the Authorization that the request carries
  pc,         \* control state of the two handlers and of the application
  head,       \* the status line visible on each link
  wire,       \* pieces in flight on a link; on "cli", all the client has got
  fin,        \* how a link ended, if it did
  held,       \* the ResponseWriter of each handler: what is not yet flushed
  body,       \* the answer the application gives
  route,      \* the entry that the proxy's handler read (appPeer)
  verdict,    \* history: the application's word on the bearer at the edge
  left,       \* the client went away
  fault,      \* history: what the environment did to the request
  table,      \* the node's entry in the synced peer table (appPeerSyncer)
  store,      \* the node's addresses in the relay host's peerstore
  at,         \* where the node can be reached
  relayHost   \* s.relayServer is set

local == <<input, token, body, route, verdict, left, fault>>
net   == <<table, store, at, relayHost>>
flow  == <<head, wire, fin, held>>
vars  == <<input, token, pc, head, wire, fin, held, body, route, verdict, left,
           fault, table, store, at, relayHost>>

Hops  == {"edge", "proxy"}
Threads == Hops \cup {"app"}
Labels == {"idle", "middleware", "auth", "handle", "dial", "validate", "call",
           "await", "copy", "flush", "run", "write", "done"}
Links == {"app", "p2p", "cli"}
In    == [h \in Hops |-> IF h = "edge" THEN "app" ELSE "p2p"]
Out   == [h \in Hops |-> IF h = "edge" THEN "p2p" ELSE "cli"]
Routes == {"relay", "direct"}

Inputs  == [method: Methods, path: Paths, bearer: BOOLEAN]
NoInput == [method |-> "none", path |-> "none", bearer |-> FALSE]
Statuses == [by: Hops \cup {"app"}, code: {200, 400, 401, 500, 501, 502, 503}]
NoHead  == [by |-> "none", code |-> 0]
Bodies  == [kind: Kinds, sized: BOOLEAN, pieces: 0..MaxPieces, tail: BOOLEAN]
NoBody  == [kind |-> "none", sized |-> FALSE, pieces |-> 0, tail |-> FALSE]
LinkEnds == {"open", "clean", "short", "broken"}
Answer(by, code) == [by |-> by, code |-> code]

\* A fresh ResponseWriter.  written counts the pieces the handler wrote, which
\* net/http compares with a declared Content-Length when the handler returns.
Unwritten == [head |-> NoHead, data |-> <<>>, written |-> 0]

Init ==
  /\ input = [r \in Requests |-> NoInput]
  /\ token = [r \in Requests |-> "none"]
  /\ pc = [r \in Requests |-> [t \in Threads |-> "idle"]]
  /\ head = [r \in Requests |-> [l \in Links |-> NoHead]]
  /\ wire = [r \in Requests |-> [l \in Links |-> <<>>]]
  /\ fin = [r \in Requests |-> [l \in Links |-> "open"]]
  /\ held = [r \in Requests |-> [h \in Hops |-> Unwritten]]
  /\ body = [r \in Requests |-> NoBody]
  /\ route = [r \in Requests |-> "none"]
  /\ verdict = [r \in Requests |-> "unasked"]
  /\ left = [r \in Requests |-> FALSE]
  /\ fault = [r \in Requests |-> {}]
  /\ table \in Entries
  /\ store = {}
  /\ at \in Places
  /\ relayHost = FALSE

-----------------------------------------------------------------------------
(* Writing to a link. *)

\* Nobody reads link l any more, or its connection is gone.  (A link that is
\* "short" was closed after less than its declared length: its reader gets all
\* that was written, and then an error.)
Closed(r, l) ==
  \/ fin[r][l] = "broken"
  \/ l = "cli" /\ left[r]
  \/ l = "p2p" /\ pc[r]["proxy"] = "done"
  \/ l = "app" /\ pc[r]["edge"] = "done"

\* Put a status, pieces and possibly the end of the answer on link l.
Put(r, l, status, pieces, end) ==
  IF Closed(r, l)
  THEN UNCHANGED <<head, wire, fin>>
  ELSE /\ head' = [head EXCEPT ![r][l] = status]
       /\ wire' = [wire EXCEPT ![r][l] = @ \o pieces]
       /\ fin' = [fin EXCEPT ![r][l] = end]

Goto(r, t, label) == pc' = [pc EXCEPT ![r][t] = label]

\* A handler answers by itself (http.Error, or a local document) and returns.
Reply(r, h, code) ==
  /\ Goto(r, h, "done")
  /\ Put(r, Out[h], Answer(h, code), <<>>, "clean")
  /\ UNCHANGED held

\* A handler panics: net/http drops what was not flushed and closes the
\* connection.
Panic(r, h) ==
  /\ Goto(r, h, "done")
  /\ held' = [held EXCEPT ![r][h] = Unwritten]
  /\ Put(r, Out[h], head[r][Out[h]], <<>>, "broken")

-----------------------------------------------------------------------------
(* The proxy's handler, up to the answer of the edge node. *)

\* A request arrives at the proxy's listener.
Arrive(r) ==
  /\ pc[r]["proxy"] = "idle"
  /\ \E i \in Inputs :
       /\ input' = [input EXCEPT ![r] = i]
       /\ token' = [token EXCEPT ![r] = IF i.bearer THEN "client" ELSE "none"]
  /\ Goto(r, "proxy", "middleware")
  /\ UNCHANGED <<flow, body, route, verdict, left, fault, net>>

\* The X-Forwarded-* headers name the relay host; without one, a nil pointer
\* is dereferenced.
Forwarded(r) ==
  IF relayHost
  THEN Goto(r, "proxy", "handle") /\ UNCHANGED <<flow, fault>>
  ELSE Panic(r, "proxy") /\ fault' = [fault EXCEPT ![r] = @ \cup {"nohost"}]

\* The middleware: the path is parsed first, then, unless the node runs
\* without authorization or the method is OPTIONS, the bearer is looked at.
Middleware(r) ==
  /\ pc[r]["proxy"] = "middleware"
  /\ \/ /\ input[r].path = "bad"
        /\ Reply(r, "proxy", 400)
        /\ UNCHANGED fault
     \/ /\ input[r].path # "bad"
        /\ NoAuth \/ input[r].method = "OPTIONS"
        /\ Forwarded(r)
     \/ /\ input[r].path # "bad"
        /\ ~NoAuth /\ input[r].method # "OPTIONS"
        /\ IF input[r].bearer
           THEN Goto(r, "proxy", "auth") /\ UNCHANGED flow
           ELSE Reply(r, "proxy", 401)
        /\ UNCHANGED fault
  /\ UNCHANGED <<input, token, body, route, verdict, left, net>>

\* The token that replaces the client's bearer.
Replacement(reply) == IF reply = "yes" THEN "hub" ELSE "empty"

\* The authorization service answers (agent/auth_agent.go).  An error refuses
\* the request; a negative verdict is logged and the request goes on with the
\* empty token that came with it.
AuthReply(r) ==
  /\ pc[r]["proxy"] = "auth"
  /\ \E reply \in {"error", "no", "yes"} :
       IF reply = "error"
       THEN Reply(r, "proxy", 401) /\ UNCHANGED <<token, fault>>
       ELSE /\ token' = [token EXCEPT ![r] = Replacement(reply)]
            /\ Forwarded(r)
  /\ UNCHANGED <<input, body, route, verdict, left, net>>

\* Peerstore().AddAddrs.
AddAddr(addrs, entry) == addrs \cup {entry}

\* handle and handleRequest up to client.Do: the node's entry is read once and
\* its address added to the peerstore.
Handle(r) ==
  /\ pc[r]["proxy"] = "handle"
  /\ LET forwards == /\ input[r].method \in {"GET", "POST"}
                     /\ ~(input[r].method = "GET" /\ input[r].path = "short")
         entry == IF input[r].path = "short" THEN "none" ELSE table
     IN \/ /\ ~forwards
           /\ Reply(r, "proxy", IF input[r].method = "PUT" THEN 501 ELSE 200)
           /\ UNCHANGED <<store, route>>
        \/ /\ forwards /\ entry \in {"none", "neither"}
           /\ Reply(r, "proxy", 503)
           /\ UNCHANGED <<store, route>>
        \/ /\ forwards /\ entry = "malformed"
           /\ Reply(r, "proxy", 500)
           /\ UNCHANGED <<store, route>>
        \/ /\ forwards /\ entry \in Routes
           /\ store' = AddAddr(store, entry)
           /\ route' = [route EXCEPT ![r] = entry]
           /\ Goto(r, "proxy", "dial")
           /\ UNCHANGED flow
  /\ UNCHANGED <<input, token, body, verdict, left, fault, table, at, relayHost>>

\* The libp2p stream to the node opens: the edge's handler starts.
DialOpens(r) ==
  /\ pc[r]["proxy"] = "dial"
  /\ at \in store
  /\ pc' = [pc EXCEPT ![r]["proxy"] = "await", ![r]["edge"] = "validate"]
  /\ UNCHANGED <<local, flow, net>>

\* client.Do fails: http.Error(502) is written but the handler does not return,
\* and closing the body of the nil response panics.
DialFails(r) ==
  /\ pc[r]["proxy"] = "dial"
  /\ Panic(r, "proxy")
  /\ fault' = [fault EXCEPT ![r] = @ \cup {"unreachable"}]
  /\ UNCHANGED <<input, token, body, route, verdict, left, net>>

\* Without the panic, the handler would go on after its 502.
AwaitFails_Continues(r) ==
  /\ pc[r]["proxy"] = "await" /\ fin[r]["p2p"] = "broken"
  /\ Put(r, "cli", Answer("proxy", 502), <<>>, "open")
  /\ Goto(r, "proxy", "copy")
  /\ UNCHANGED <<local, held, net>>

\* The same failure once the stream was open: no status line came back.  (An
\* edge node that ends an answer short has sent its status line.)
AwaitFails(r) ==
  /\ pc[r]["proxy"] = "await" /\ fin[r]["p2p"] = "broken"
  /\ Panic(r, "proxy")
  /\ UNCHANGED <<local, net>>

-----------------------------------------------------------------------------
(* The edge node's handler, up to the answer of the application. *)

\* The agent decodes the application's verdict into a field that is not
\* exported (GetBoolResponse), so the decoder leaves it false; an error is
\* false too.
ValidateBearer(v) == FALSE

EdgeValidate(r) ==
  /\ pc[r]["edge"] = "validate"
  /\ \/ /\ EdgeNoAuth
        /\ Goto(r, "edge", "call")
        /\ UNCHANGED <<flow, verdict>>
     \/ /\ ~EdgeNoAuth
        /\ \E v \in {"error", "no", "yes"} :
             /\ verdict' = [verdict EXCEPT ![r] = v]
             /\ IF ValidateBearer(v)
                THEN Goto(r, "edge", "call") /\ UNCHANGED flow
                ELSE Reply(r, "edge", 401)
  /\ UNCHANGED <<input, token, body, route, left, fault, net>>

\* The application's URL is built from the forwarded headers.  An interface
\* whose decoded form is no URL ("odd") is refused by http.NewRequest.  The
\* proxy path comes from a constant, so the 503 of the agent never happens.
Invalid(r) == input[r].path = "odd"

EdgeCall(r) ==
  /\ pc[r]["edge"] = "call"
  /\ \/ /\ Invalid(r)
        /\ Reply(r, "edge", 500)
     \/ /\ ~Invalid(r)               \* the application refuses the connection
        /\ Reply(r, "edge", 502)
     \/ /\ ~Invalid(r)
        /\ pc' = [pc EXCEPT ![r]["edge"] = "await", ![r]["app"] = "run"]
        /\ UNCHANGED flow
  /\ UNCHANGED <<local, net>>

\* The application went away before its status line: 502, and return.
EdgeCallFails_Wrong(r) ==
  /\ pc[r]["edge"] = "await" /\ fin[r]["app"] = "broken"
  /\ Reply(r, "edge", 503)
  /\ UNCHANGED <<local, net>>
EdgeCallFails(r) ==
  /\ pc[r]["edge"] = "await" /\ fin[r]["app"] = "broken"
  /\ Reply(r, "edge", 502)
  /\ UNCHANGED <<local, net>>

-----------------------------------------------------------------------------
(* Streaming: the two handlers copy status, headers and body with the same
   loop, line by line with a flush for an event stream, with io.Copy else. *)

\* Everything the application sends on a clean run that the copy keeps.
Unterminated(r, piece) ==
  body[r].kind = "sse" /\ body[r].tail /\ piece = body[r].pieces

\* The status line arrives, headers and status go to the ResponseWriter.
CopyHead(r, h) ==
  /\ pc[r][h] = "await" /\ head[r][In[h]] # NoHead
  /\ held' = [held EXCEPT ![r][h].head = head[r][In[h]]]
  /\ Goto(r, h, "copy")
  /\ UNCHANGED <<local, head, wire, fin, net>>

\* One ReadBytes and Write, or one round of io.Copy; a written line of an event
\* stream is flushed before the next is read.
AfterWrite_Buffered(r) == "copy"
AfterWrite(r) == IF body[r].kind = "sse" THEN "flush" ELSE "copy"

Written_Uncounted(w, piece) ==
  [head |-> w.head, data |-> Append(w.data, piece), written |-> w.written]
Written_Renumbered(w, piece) ==
  [head |-> w.head, data |-> Append(w.data, w.written + 2), written |-> w.written + 1]
Written(w, piece) ==
  [head |-> w.head, data |-> Append(w.data, piece), written |-> w.written + 1]

CopyPiece(r, h) ==
  /\ pc[r][h] = "copy" /\ wire[r][In[h]] # <<>>
  /\ ~Unterminated(r, Head(wire[r][In[h]]))
  /\ held' = [held EXCEPT ![r][h] = Written(@, Head(wire[r][In[h]]))]
  /\ wire' = [wire EXCEPT ![r][In[h]] = Tail(@)]
  /\ Goto(r, h, AfterWrite(r))
  /\ UNCHANGED <<local, head, fin, net>>

\* What the ResponseWriter holds goes on the wire.
Flush_Twice(r, h) ==
  /\ Put(r, Out[h], held[r][h].head, held[r][h].data, "open")
  /\ UNCHANGED held
Flush(r, h) ==
  /\ Put(r, Out[h], held[r][h].head, held[r][h].data, "open")
  /\ held' = [held EXCEPT ![r][h].data = <<>>]

\* The handler flushes after every line of an event stream.
CopyFlush(r, h) ==
  /\ pc[r][h] = "flush"
  /\ Flush(r, h)
  /\ Goto(r, h, "copy")
  /\ UNCHANGED <<local, net>>

\* net/http flushes by itself when its buffer is full.
BufferFills(r, h) ==
  /\ pc[r][h] = "copy" /\ held[r][h].data # <<>>
  /\ Flush(r, h)
  /\ UNCHANGED <<local, pc, net>>

\* The Write of a piece fails because nobody reads the answer any more.
CopyWriteFails(r, h) ==
  /\ pc[r][h] = "copy" /\ wire[r][In[h]] # <<>>
  /\ Closed(r, Out[h])
  /\ Goto(r, h, "done")
  /\ UNCHANGED <<local, flow, net>>

\* The body of the answer ends: its reader returns an error, io.EOF or other.
BodyOver_EOF(r, h) ==
  /\ fin[r][In[h]] \in {"clean", "short"}
  /\ \A i \in DOMAIN wire[r][In[h]] : Unterminated(r, wire[r][In[h]][i])
BodyOver(r, h) ==
  \/ fin[r][In[h]] = "broken"
  \/ /\ fin[r][In[h]] \in {"clean", "short"}
     /\ \A i \in DOMAIN wire[r][In[h]] : Unterminated(r, wire[r][In[h]][i])

\* Fewer pieces were written than the Content-Length, which the handler copied
\* with the other headers, announced: of an event stream too.
Short_Ignored(r, h) == FALSE
Short(r, h) == body[r].sized /\ held[r][h].written < body[r].pieces

\* Both error paths of the line loop return, and the error of io.Copy is
\* dropped: a body that breaks off ends like a complete one.  net/http flushes
\* and terminates the answer, unless it is short.
CopyEnds(r, h) ==
  /\ pc[r][h] = "copy"
  /\ BodyOver(r, h)
  /\ Put(r, Out[h], held[r][h].head, held[r][h].data,
         IF Short(r, h) THEN "short" ELSE "clean")
  /\ held' = [held EXCEPT ![r][h].data = <<>>]
  /\ Goto(r, h, "done")
  /\ UNCHANGED <<local, net>>

-----------------------------------------------------------------------------
(* The application behind the edge node (external). *)

AppAnswers(r) ==
  /\ pc[r]["app"] = "run" /\ ~Closed(r, "app")
  /\ \E b \in Bodies, code \in {200, 401} :
       /\ b.tail => b.kind = "sse" /\ b.pieces > 0
       /\ body' = [body EXCEPT ![r] = b]
       /\ Put(r, "app", Answer("app", code), <<>>, "open")
  /\ Goto(r, "app", "write")
  /\ UNCHANGED <<input, token, held, route, verdict, left, fault, net>>

\* The pieces already written on the application's link, read or not.
Emitted(r) == held[r]["edge"].written + Len(wire[r]["app"])

AppWrites(r) ==
  /\ pc[r]["app"] = "write" /\ ~Closed(r, "app")
  /\ Emitted(r) < body[r].pieces
  /\ Put(r, "app", head[r]["app"], <<Emitted(r) + 1>>, "open")
  /\ UNCHANGED <<local, pc, held, net>>

AppCloses(r) ==
  /\ pc[r]["app"] = "write" /\ ~Closed(r, "app")
  /\ Emitted(r) = body[r].pieces
  /\ Put(r, "app", head[r]["app"], <<>>, "clean")
  /\ Goto(r, "app", "done")
  /\ UNCHANGED <<local, held, net>>

\* The application dies, or its connection does.
AppDies(r) ==
  /\ pc[r]["app"] \in {"run", "write"} /\ ~Closed(r, "app")
  /\ fin' = [fin EXCEPT ![r]["app"] = "broken"]
  /\ fault' = [fault EXCEPT ![r] = @ \cup {"app"}]
  /\ Goto(r, "app", "done")
  /\ UNCHANGED <<input, token, head, wire, held, body, route, verdict, left, net>>

\* The connection that the application writes to was closed by the edge.
AppStops(r) ==
  /\ pc[r]["app"] \in {"run", "write"} /\ Closed(r, "app")
  /\ Goto(r, "app", "done")
  /\ UNCHANGED <<local, flow, net>>

-----------------------------------------------------------------------------
(* The environment: the client, the libp2p stream, the peer table. *)

ClientLeaves(r) ==
  /\ pc[r]["proxy"] # "idle" /\ ~left[r] /\ fin[r]["cli"] = "open"
  /\ left' = [left EXCEPT ![r] = TRUE]
  /\ UNCHANGED <<input, token, body, route, verdict, fault, pc, flow, net>>

\* The stream between the nodes is reset; what was in flight may be lost.
StreamBreaks(r) ==
  /\ pc[r]["proxy"] \in {"await", "copy", "flush"} /\ fin[r]["p2p"] # "broken"
  /\ fin' = [fin EXCEPT ![r]["p2p"] = "broken"]
  /\ fault' = [fault EXCEPT ![r] = @ \cup {"p2p"}]
  /\ UNCHANGED <<input, token, body, route, verdict, left, pc, head, wire, held, net>>

\* NewServer sets s.relayServer after the proxy listens.
RelayStarts ==
  /\ ~relayHost
  /\ relayHost' = TRUE
  /\ UNCHANGED <<local, flow, pc, table, store, at>>

\* The syncer publishes another entry for the node.
TableSyncs ==
  /\ table' \in Entries \ {table}
  /\ UNCHANGED <<local, flow, pc, store, at, relayHost>>

\* The node goes away, comes back, or gets another route.
NodeMoves ==
  /\ at' \in Places \ {at}
  /\ UNCHANGED <<local, flow, pc, table, store, relayHost>>

\* An address outlives RecentlyConnectedAddrTTL; that is far longer than a
\* handler takes from adding it to dialing it.
AddressExpires ==
  /\ \A r \in Requests : pc[r]["proxy"] # "dial"
  /\ \E addr \in store : store' = store \ {addr}
  /\ UNCHANGED <<local, flow, pc, table, at, relayHost>>

-----------------------------------------------------------------------------
Copy(r, h) ==
  \/ CopyHead(r, h) \/ CopyPiece(r, h) \/ CopyFlush(r, h)
  \/ CopyWriteFails(r, h) \/ CopyEnds(r, h)

ProxyStep(r) ==
  \/ Middleware(r) \/ AuthReply(r) \/ Handle(r)
  \/ DialOpens(r) \/ DialFails(r) \/ AwaitFails(r) \/ Copy(r, "proxy")

EdgeStep(r) ==
  \/ EdgeValidate(r) \/ EdgeCall(r) \/ EdgeCallFails(r) \/ Copy(r, "edge")

AppStep(r) == AppAnswers(r) \/ AppWrites(r) \/ AppCloses(r) \/ AppStops(r)

Environment(r) ==
  \/ AppDies(r) \/ ClientLeaves(r) \/ StreamBreaks(r)
  \/ \E h \in Hops : BufferFills(r, h)

Network == RelayStarts \/ TableSyncs \/ NodeMoves \/ AddressExpires

Next ==
  \/ \E r \in Requests :
       Arrive(r) \/ ProxyStep(r) \/ EdgeStep(r) \/ AppStep(r) \/ Environment(r)
  \/ Network

Spec == Init /\ [][Next]_vars

\* The goroutines of the handlers are scheduled, and the calls they wait for
\* (authorization, dial) return.
HandlersRun ==
  \A r \in Requests : WF_vars(ProxyStep(r)) /\ WF_vars(EdgeStep(r))

\* Nothing is asked of the application: it may stay silent for ever.
HandlerSpec == Spec /\ HandlersRun

-----------------------------------------------------------------------------
(* Properties. *)

Ran(r) == pc[r]["app"] # "idle"

\* Lines that a clean run hands to the client: an unterminated last line of an
\* event stream is dropped by ReadBytes at the end of the body.
Whole(r) ==
  IF body[r].kind = "sse" /\ body[r].tail THEN body[r].pieces - 1 ELSE body[r].pieces

Pieces == Seq(1..MaxPieces)

\* Every variable has its type.
TypeOK ==
  /\ input \in [Requests -> Inputs \cup {NoInput}]
  /\ token \in [Requests -> {"none", "client", "hub", "empty"}]
  /\ pc \in [Requests -> [Threads -> Labels]]
  /\ head \in [Requests -> [Links -> Statuses \cup {NoHead}]]
  /\ wire \in [Requests -> [Links -> Pieces]]
  /\ fin \in [Requests -> [Links -> LinkEnds]]
  /\ held \in [Requests ->
       [Hops -> [head: Statuses \cup {NoHead}, data: Pieces, written: Nat]]]
  /\ body \in [Requests -> Bodies \cup {NoBody}]
  /\ route \in [Requests -> {"none"} \cup Routes]
  /\ verdict \in [Requests -> {"unasked", "error", "no", "yes"}]
  /\ left \in [Requests -> BOOLEAN]
  /\ fault \in [Requests -> SUBSET {"nohost", "unreachable", "p2p", "app"}]
  /\ table \in Entries
  /\ store \subseteq Routes
  /\ at \in Places
  /\ relayHost \in BOOLEAN

\* Across the two hops, their buffers and the links, however they fail and
\* whoever goes away: what a client has received is a prefix of what the
\* application wrote (the copy loops of both handlers).
InOrder ==
  \A r \in Requests :
    /\ \A i \in DOMAIN wire[r]["cli"] : wire[r]["cli"][i] = i
    /\ Len(wire[r]["cli"]) <= Emitted(r)

\* A request that the proxy or the edge node refused (any status of their own
\* but 502) was not handed to the application, and a retry is safe.
RefusedNotRun ==
  \A r \in Requests :
    head[r]["cli"].by \in Hops /\ head[r]["cli"].code # 502 => ~Ran(r)

\* A clean end is the end of the application's answer: always if the answer
\* declares its length, and otherwise if neither the stream between the nodes
\* nor the application failed.  (With a failure the copy loops return as at the
\* end of the body and the client cannot tell.)
CleanMeansComplete ==
  \A r \in Requests :
    /\ fin[r]["cli"] = "clean" /\ head[r]["cli"].by = "app"
    /\ body[r].sized \/ fault[r] \cap {"p2p", "app"} = {}
    => Len(wire[r]["cli"]) = Whole(r)

\* An event stream that declares its length and loses its last line on the way.
LosesLine(r) == body[r].kind = "sse" /\ body[r].sized /\ body[r].tail

\* A client's connection is cut, or ends short of the declared length, only if
\* the relay host was missing, something between it and the application failed,
\* or the handlers dropped the unterminated last line of an event stream whose
\* Content-Length counts it (server/server.go, proxy/transparent_proxy.go).
BrokenHasCause ==
  \A r \in Requests :
    fin[r]["cli"] \in {"broken", "short"} => fault[r] # {} \/ LosesLine(r)

\* When a request is dialed the peerstore holds the address that its handler
\* added, whatever the table says by now and whatever other requests added.
DialHasRoute ==
  \A r \in Requests : pc[r]["proxy"] = "dial" => route[r] \in store

\* What GetBoolResponse declares: the application's "result" decides.  A bearer
\* that the application accepts is not refused by the edge node.
VerdictHonoured ==
  [][\A r \in Requests :
       pc[r]["edge"] = "validate" /\ verdict'[r] = "yes" => pc'[r]["edge"] # "done"]_vars

\* The client's view implements what ProxyService promises.
Service == INSTANCE ProxyService WITH
  status <- [r \in Requests |-> head[r]["cli"]],
  got <- [r \in Requests |-> wire[r]["cli"]],
  end <- [r \in Requests |-> fin[r]["cli"]],
  ran <- [r \in Requests |-> Ran(r)]

ServicePromise == Service!Spec

\* Every request that arrives is finished by the proxy's handler, and by the
\* edge node's if it got there, unless the application holds it for ever: no
\* failure or departure leaves a handler waiting for something else.
EveryRequestEnds ==
  \A r \in Requests :
    [](pc[r]["proxy"] = "middleware" =>
         <>(\/ pc[r]["proxy"] = "done" /\ pc[r]["edge"] \in {"idle", "done"}
            \/ [](pc[r]["app"] \in {"run", "write"})))

\* Each line of an event stream reaches the client although the application
\* writes nothing after it: no hop keeps it in a buffer.
LinesArePrompt ==
  \A r \in Requests, k \in 1..MaxPieces :
    (body[r].kind = "sse" /\ ~Unterminated(r, k) /\ Emitted(r) >= k)
      ~> (Len(wire[r]["cli"]) >= k \/ left[r] \/ fault[r] # {})
=============================================================================
