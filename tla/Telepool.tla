------------------------------- MODULE Telepool -------------------------------
(***************************************************************************)
(* Telegrams (telepool/telepool.go): the JSON-RPC server hands a telegram  *)
(* to AddTele, which calls an endpoint of the edge node that it names and  *)
(* takes the signed response, unverified.  AddTele reads the peer table    *)
(* and fills the peerstore of the relay host as the proxy's requests do,   *)
(* so the module extends EdgeProxy, and the two run side by side for one   *)
(* node.  validateTele, the pool's channels and its gauge have no user in  *)
(* the code.                                                               *)
(***************************************************************************)
EXTENDS EdgeProxy

CONSTANTS
  Telegrams,     \* the telegrams, each submitted once
  Targets,       \* what telegrams ask for
  EdgeNoAgent    \* AppNoAgent of the edge node: its IDL is the file idl.json

Endpoints == {"alive", "idl", "forward"}

ASSUME TargetsAssumption == Targets \subseteq {"other", "badInput"} \cup Endpoints
ASSUME AgentAssumption == EdgeNoAgent \in BOOLEAN

VARIABLE tele    \* the telegrams, and the state of the calls that carry them

poolVars == <<tele, input, token, pc, head, wire, fin, held, body, route, verdict,
              left, fault, table, store, at, relayHost>>

\* The response in a telegram (RespFrom, RespHash and its signature): none, the
\* node's own for our network, its own for another, or not signed by RespFrom.
Responses == {"ours", "foreign", "forged"}

\* What comes back over the stream: the encoding of a response, or other bytes.
Docs == {"", "[]", "idl", "origin"}
NoAnswer == [encoded |-> FALSE, doc |-> "", response |-> "none"]
Answers == [encoded: BOOLEAN, doc: Docs, response: Responses \cup {"none"}]

NoCall == [step |-> "idle", target |-> "none", route |-> "none",
           answer |-> NoAnswer, response |-> "none", told |-> "none"]
Outcomes == {"ok", "error", "dropped"}

\* The calls that carry the telegrams.
Calls == [step: {"idle", "add", "dial", "serve", "answer"} \cup Outcomes,
          target: Targets \cup {"none"}, route: Routes \cup {"none"}, answer: Answers,
          response: Responses \cup {"none"}, told: Docs \cup {"none"}]
Becomes(t, call) == tele' = [tele EXCEPT ![t] = call]

PoolInit == Init /\ tele = [t \in Telegrams |-> NoCall]

-----------------------------------------------------------------------------
(* AddTele. *)

EdgeCalled(t) == tele[t].target \in Endpoints

\* A telegram comes in over JSON-RPC.
Submit(t) ==
  /\ tele[t] = NoCall
  /\ \E target \in Targets :
       Becomes(t, [NoCall EXCEPT !.step = "add", !.target = target])
  /\ UNCHANGED vars

End(t, how, doc) == Becomes(t, [tele[t] EXCEPT !.step = how, !.told = doc])

\* Nothing is asked of a node: the telegram is for no edge call, its input does
\* not parse, or there is no relay host and a nil pointer is dereferenced.
AddLocal(t) ==
  /\ tele[t].step = "add"
  /\ \/ tele[t].target = "other" /\ End(t, "ok", "")
     \/ tele[t].target = "badInput" /\ End(t, "error", "")
     \/ EdgeCalled(t) /\ ~relayHost /\ End(t, "dropped", "")
  /\ UNCHANGED vars

\* addAddrToHost.
AddAddrToHost_Once(addrs, entry) == IF addrs = {} THEN {entry} ELSE addrs
AddAddrToHost_Set(addrs, entry) == {entry}
AddAddrToHost(addrs, entry) == addrs \cup {entry}

\* Mutant: an address that does not parse is added as it is.
AddTele_Unparsed(t) ==
  /\ tele[t].step = "add" /\ EdgeCalled(t) /\ relayHost
  /\ Becomes(t, [tele[t] EXCEPT !.step = "dial"])
  /\ store' = IF table \in {"none", "neither"} THEN store ELSE AddAddrToHost(store, table)
  /\ UNCHANGED <<local, pc, flow, table, at, relayHost>>

\* The entry is read once and its address added.  A node without an entry, or
\* whose entry has no address, is called all the same.
AddTele(t) ==
  /\ tele[t].step = "add" /\ EdgeCalled(t) /\ relayHost
  /\ \/ /\ table = "malformed"
        /\ End(t, "error", "") /\ UNCHANGED store
     \/ /\ table \in {"none", "neither"}
        /\ Becomes(t, [tele[t] EXCEPT !.step = "dial"]) /\ UNCHANGED store
     \/ /\ table \in Routes
        /\ Becomes(t, [tele[t] EXCEPT !.step = "dial", !.route = table])
        /\ store' = AddAddrToHost(store, table)
  /\ UNCHANGED <<local, pc, flow, table, at, relayHost>>

\* application.Call: the stream opens and the node's endpoint serves the call.
CallOpens(t) ==
  /\ tele[t].step = "dial" /\ at \in store
  /\ Becomes(t, [tele[t] EXCEPT !.step = "serve"])
  /\ UNCHANGED vars

\* The dial fails, or the stream breaks before the answer is read.
CallFails(t) ==
  /\ tele[t].step \in {"dial", "serve", "answer"}
  /\ End(t, "error", "")
  /\ UNCHANGED vars

\* The response is decoded before anything is copied from it.
Take_Early(t) ==
  IF tele[t].answer.encoded
  THEN Becomes(t, [tele[t] EXCEPT !.step = "ok", !.response = tele[t].answer.response,
                                  !.told = tele[t].answer.doc])
  ELSE Becomes(t, [tele[t] EXCEPT !.step = "error", !.response = "forged", !.told = ""])
Take(t) ==
  IF tele[t].answer.encoded
  THEN Becomes(t, [tele[t] EXCEPT !.step = "ok", !.response = tele[t].answer.response,
                                  !.told = tele[t].answer.doc])
  ELSE End(t, "error", "")

CallReturns(t) ==
  /\ tele[t].step = "answer"
  /\ Take(t)
  /\ UNCHANGED vars

-----------------------------------------------------------------------------
(* The edge node's endpoints. *)

\* WriteSignedResponse, with the signer of the node's own genesis file.
Signed(doc) == [encoded: {TRUE}, doc: {doc}, response: {"ours", "foreign"}]

\* What /idl reads: the file idl.json, or the application, which GetAppIdl asks
\* for its origin.  Either may fail or be empty.
IdlSource == {"error", "", IF EdgeNoAgent THEN "idl" ELSE "origin"}

\* /idl: a failure is answered with an empty list, and so is an application
\* that says nothing.
Idl_AsItIs(said) ==
  IF said = "error" THEN {NoAnswer} ELSE Signed(said)
Idl(said) ==
  IF said = "error" \/ (said = "" /\ ~EdgeNoAgent) THEN Signed("[]") ELSE Signed(said)

\* /alive writes plain text, and what is forwarded to the application comes
\* back as the application wrote it.
Served(target) ==
  CASE target = "alive" -> {NoAnswer}
    [] target = "idl" -> UNION {Idl(said) : said \in IdlSource}
    [] target = "forward" -> {a \in Answers : a.encoded \/ a = NoAnswer}

NodeAnswers(t) ==
  /\ tele[t].step = "serve"
  /\ \E a \in Served(tele[t].target) :
       Becomes(t, [tele[t] EXCEPT !.step = "answer", !.answer = a])
  /\ UNCHANGED vars

-----------------------------------------------------------------------------
\* The proxy's requests and the network go on.  No address outlives its TTL
\* between the steps of AddTele.
Meanwhile ==
  /\ Next
  /\ store \subseteq store' \/ \A t \in Telegrams : tele[t].step # "dial"
  /\ UNCHANGED tele

TeleStep(t) ==
  \/ Submit(t) \/ AddLocal(t) \/ AddTele(t)
  \/ CallOpens(t) \/ CallFails(t) \/ NodeAnswers(t) \/ CallReturns(t)

PoolNext == Meanwhile \/ \E t \in Telegrams : TeleStep(t)

PoolSpec == PoolInit /\ [][PoolNext]_poolVars

-----------------------------------------------------------------------------
(* Properties. *)

\* Every variable has its type.
PoolTypeOK == TypeOK /\ tele \in [Telegrams -> Calls]

\* When AddTele dials, the peerstore holds the address that it found, although
\* the table may have changed, and other telegrams and the proxy's requests use
\* the same peerstore (addAddrToHost, handleRequest).
TeleHasRoute ==
  \A t \in Telegrams :
    tele[t].step = "dial" /\ tele[t].route # "none" => tele[t].route \in store

\* A telegram takes the fields of a response exactly if its call is answered by
\* its node and ends without an error, however it fails: an error leaves the
\* telegram as it came.
FieldsAreAnswered ==
  \A t \in Telegrams :
    IF tele[t].step = "ok" /\ EdgeCalled(t)
    THEN tele[t].answer.encoded /\ tele[t].response = tele[t].answer.response
    ELSE tele[t].response = "none"

\* A node with an agent answers a telegram for its IDL with a document, whatever
\* its application says or does not say: a caller that gets no error and no
\* document has not asked an edge node (the fallbacks of /idl).
IdlIsAnswered ==
  \A t \in Telegrams :
    tele[t].step = "ok" /\ tele[t].target = "idl" /\ ~EdgeNoAgent
    => tele[t].told # "" /\ tele[t].response \in {"ours", "foreign"}

\* The agent's GetAppIdl asks "/hubapi/v1/getIdl": the document that a node with
\* an agent answers with is the application's IDL, or an empty list.
IdlIsOfApplication ==
  \A t \in Telegrams :
    tele[t].step = "ok" /\ tele[t].target = "idl" /\ ~EdgeNoAgent
    => tele[t].told \in {"idl", "[]"}
=============================================================================
