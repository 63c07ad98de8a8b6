---------------------------- MODULE TelepoolProofs ----------------------------
(***************************************************************************)
(* Telegrams and proxied requests on one peerstore, for any number of both *)
(* and any entries of the table: what telegrams are promised, and that the *)
(* requests beside them keep what EdgeProxy promises, up to ProxyService.  *)
(***************************************************************************)
EXTENDS Telepool, EdgeProxyEndProofs

\* What holds of every call that carries a telegram: it has no route before the
\* table is read, it is for an endpoint from the dial on, its answer is one of the
\* endpoint, and it has taken the answer's fields if it ended well, and no fields
\* else.
CallOK(call) ==
  /\ call.step = "add" => call.route = "none"
  /\ call.step \in {"dial", "serve", "answer"} => call.target \in Endpoints
  /\ call.step = "answer" => call.answer \in Served(call.target)
  /\ IF call.step = "ok" /\ call.target \in Endpoints
     THEN /\ call.answer.encoded /\ call.answer \in Served(call.target)
          /\ call.response = call.answer.response /\ call.told = call.answer.doc
     ELSE call.response = "none"

TeleInv == \A t \in Telegrams : CallOK(tele[t])

-----------------------------------------------------------------------------
(* Types. *)

LEMMA NoCallTyped == NoCall \in Calls
BY DEF NoCall, NoAnswer, Calls, Answers, Docs, Outcomes

\* A telegram that becomes a call leaves the others as they were.
LEMMA BecomesType ==
  ASSUME tele \in [Telegrams -> Calls], NEW t \in Telegrams, NEW u \in Calls, Becomes(t, u)
  PROVE  tele' \in [Telegrams -> Calls] /\ tele'[t] = u
         /\ \A s \in Telegrams \ {t} : tele'[s] = tele[s]
BY DEF Becomes

\* A call of another step, or ended, has the type of a call.
LEMMA EndTyped ==
  ASSUME NEW call \in Calls, NEW how \in Outcomes, NEW doc \in Docs
  PROVE  [call EXCEPT !.step = how, !.told = doc] \in Calls
BY DEF Calls

\* What a node answers has the type of an answer.
LEMMA ServedTyped ==
  ASSUME NEW target \in Endpoints
  PROVE  Served(target) \subseteq Answers
<1>1. \A doc \in Docs : Signed(doc) \subseteq Answers
  BY DEF Signed, Answers, Docs, Responses
<1>2. NoAnswer \in Answers
  BY DEF NoAnswer, Answers, Docs
<1>3. \A said \in IdlSource : Idl(said) \subseteq Answers
  BY <1>1 DEF Idl, IdlSource, Docs
<1>4. Served("alive") \subseteq Answers
  BY <1>2 DEF Served
<1>5. Served("idl") \subseteq Answers
  BY <1>3 DEF Served
<1>6. Served("forward") \subseteq Answers
  BY DEF Served
<1>7. QED
  BY <1>4, <1>5, <1>6 DEF Endpoints

\* What a step of a telegram makes of its call.
BecomesGood(t) == \E call \in Calls : CallOK(call) /\ Becomes(t, call)

\* A call that ends without having taken an answer.
LEMMA EndGood ==
  ASSUME PoolTypeOK, TeleInv, NEW t \in Telegrams, NEW how \in Outcomes, NEW doc \in Docs,
         tele[t].step # "ok", how = "ok" => tele[t].target \notin Endpoints,
         End(t, how, doc)
  PROVE  BecomesGood(t)
<1> DEFINE call == [tele[t] EXCEPT !.step = how, !.told = doc]
<1>1. tele[t] \in Calls /\ CallOK(tele[t])
  BY DEF PoolTypeOK, TeleInv
<1>2. call \in Calls
  BY <1>1, EndTyped
<1>3. tele[t].response = "none"
  BY <1>1 DEF CallOK
<1>4. call.step = how /\ call.target = tele[t].target /\ call.response = "none"
  BY <1>1, <1>3 DEF Calls
<1>5. CallOK(call)
  <2>1. how \notin {"add", "dial", "serve", "answer"}
    BY DEF Outcomes
  <2>2. QED
    BY <1>4, <2>1 DEF CallOK
<1>6. QED
  BY <1>2, <1>5 DEF BecomesGood, End

LEMMA SubmitGood ==
  ASSUME PoolTypeOK, TeleInv, NEW t \in Telegrams, Submit(t)
  PROVE  BecomesGood(t)
<1>1. PICK target \in Targets :
        Becomes(t, [NoCall EXCEPT !.step = "add", !.target = target])
  BY DEF Submit
<1> DEFINE call == [NoCall EXCEPT !.step = "add", !.target = target]
<1>2. call \in Calls
  BY NoCallTyped DEF Calls
<1>3. call.step = "add" /\ call.route = "none" /\ call.response = "none"
  BY DEF NoCall
<1>4. CallOK(call)
  BY <1>3 DEF CallOK
<1>5. QED
  BY <1>1, <1>2, <1>4 DEF BecomesGood

LEMMA AddTeleGood ==
  ASSUME PoolTypeOK, TeleInv, NEW t \in Telegrams, AddTele(t)
  PROVE  BecomesGood(t)
<1>1. tele[t] \in Calls /\ CallOK(tele[t]) /\ tele[t].step = "add"
      /\ tele[t].target \in Endpoints
  BY DEF PoolTypeOK, TeleInv, AddTele, EdgeCalled
<1>2. tele[t].response = "none"
  BY <1>1 DEF CallOK
<1>3. CASE End(t, "error", "")
  BY <1>1, <1>3, EndGood DEF Outcomes, Docs
<1>4. CASE Becomes(t, [tele[t] EXCEPT !.step = "dial"])
  <2> DEFINE call == [tele[t] EXCEPT !.step = "dial"]
  <2>1. call \in Calls /\ call.step = "dial" /\ call.target = tele[t].target
        /\ call.response = "none"
    BY <1>1, <1>2 DEF Calls
  <2>2. CallOK(call)
    BY <1>1, <2>1 DEF CallOK
  <2>3. QED
    BY <1>4, <2>1, <2>2 DEF BecomesGood
<1>5. ASSUME NEW entry \in Routes,
             Becomes(t, [tele[t] EXCEPT !.step = "dial", !.route = entry])
      PROVE  BecomesGood(t)
  <2> DEFINE call == [tele[t] EXCEPT !.step = "dial", !.route = entry]
  <2>1. call \in Calls /\ call.step = "dial" /\ call.target = tele[t].target
        /\ call.response = "none"
    BY <1>1, <1>2 DEF Calls
  <2>2. CallOK(call)
    BY <1>1, <2>1 DEF CallOK
  <2>3. QED
    BY <1>5, <2>1, <2>2 DEF BecomesGood
<1>6. QED
  BY <1>3, <1>4, <1>5 DEF AddTele

LEMMA CallGood ==
  ASSUME PoolTypeOK, TeleInv, NEW t \in Telegrams,
         CallOpens(t) \/ CallFails(t) \/ NodeAnswers(t)
  PROVE  BecomesGood(t)
<1>1. /\ tele[t] \in Calls /\ CallOK(tele[t])
      /\ tele[t].step \in {"dial", "serve", "answer"}
  BY DEF PoolTypeOK, TeleInv, CallOpens, CallFails, NodeAnswers
<1>2. tele[t].response = "none" /\ tele[t].target \in Endpoints
  BY <1>1 DEF CallOK
<1>3. CASE CallOpens(t)
  <2> DEFINE call == [tele[t] EXCEPT !.step = "serve"]
  <2>1. call \in Calls /\ call.step = "serve" /\ call.target = tele[t].target
        /\ call.response = "none"
    BY <1>1, <1>2 DEF Calls
  <2>2. CallOK(call)
    BY <1>2, <2>1 DEF CallOK
  <2>3. QED
    BY <1>3, <2>1, <2>2 DEF BecomesGood, CallOpens
<1>4. CASE CallFails(t)
  BY <1>1, <1>4, EndGood DEF CallFails, Outcomes, Docs
<1>5. CASE NodeAnswers(t)
  <2>1. PICK a \in Served(tele[t].target) :
          Becomes(t, [tele[t] EXCEPT !.step = "answer", !.answer = a])
    BY <1>5 DEF NodeAnswers
  <2> DEFINE call == [tele[t] EXCEPT !.step = "answer", !.answer = a]
  <2>2. a \in Answers
    BY <1>2, ServedTyped
  <2>3. /\ call \in Calls /\ call.step = "answer" /\ call.target = tele[t].target
        /\ call.response = "none" /\ call.answer = a
    BY <1>1, <1>2, <2>2 DEF Calls
  <2>4. CallOK(call)
    BY <1>2, <2>3 DEF CallOK
  <2>5. QED
    BY <2>1, <2>3, <2>4 DEF BecomesGood
<1>6. QED
  BY <1>3, <1>4, <1>5

LEMMA ReturnGood ==
  ASSUME PoolTypeOK, TeleInv, NEW t \in Telegrams, CallReturns(t)
  PROVE  BecomesGood(t)
<1>1. tele[t] \in Calls /\ CallOK(tele[t]) /\ tele[t].step = "answer"
  BY DEF PoolTypeOK, TeleInv, CallReturns
<1>2. tele[t].target \in Endpoints /\ tele[t].answer \in Served(tele[t].target)
  BY <1>1 DEF CallOK
<1>3. CASE tele[t].answer.encoded
  <2> DEFINE call == [tele[t] EXCEPT !.step = "ok", !.response = tele[t].answer.response,
                                     !.told = tele[t].answer.doc]
  <2>1. tele[t].answer \in Answers
    BY <1>1 DEF Calls
  <2>2. tele[t].answer.doc \in Docs
        /\ tele[t].answer.response \in Responses \cup {"none"}
    BY <2>1 DEF Answers
  <2>3. call \in Calls
    BY <1>1, <2>2 DEF Calls, Outcomes
  <2>4. /\ call.step = "ok" /\ call.target = tele[t].target
        /\ call.answer = tele[t].answer /\ call.response = tele[t].answer.response
        /\ call.told = tele[t].answer.doc
    BY <1>1 DEF Calls
  <2>5. CallOK(call)
    BY <1>2, <1>3, <2>4 DEF CallOK
  <2>6. Becomes(t, call)
    BY <1>3 DEF CallReturns, Take
  <2>7. QED
    BY <2>3, <2>5, <2>6 DEF BecomesGood
<1>4. CASE ~tele[t].answer.encoded
  <2>1. End(t, "error", "")
    BY <1>4 DEF CallReturns, Take
  <2>2. QED
    BY <1>1, <2>1, EndGood DEF Outcomes, Docs
<1>5. QED
  BY <1>3, <1>4

LEMMA LocalGood ==
  ASSUME PoolTypeOK, TeleInv, NEW t \in Telegrams, AddLocal(t)
  PROVE  BecomesGood(t)
<1>1. /\ tele[t].step # "ok"
      /\ \/ tele[t].target \notin Endpoints /\ End(t, "ok", "")
         \/ End(t, "error", "") \/ End(t, "dropped", "")
  BY DEF AddLocal, EdgeCalled, Endpoints
<1>2. QED
  BY <1>1, EndGood DEF Outcomes, Docs

LEMMA TeleStepKeeps ==
  ASSUME PoolTypeOK, TeleInv, NEW t \in Telegrams, TeleStep(t)
  PROVE  /\ tele' \in [Telegrams -> Calls] /\ TeleInv'
         /\ \A s \in Telegrams \ {t} : tele'[s] = tele[s]
<1>1. BecomesGood(t)
  BY LocalGood, SubmitGood, AddTeleGood, CallGood, ReturnGood DEF TeleStep
<1>2. PICK call \in Calls : CallOK(call) /\ Becomes(t, call)
  BY <1>1 DEF BecomesGood
<1>3. QED
  BY <1>2, BecomesType DEF PoolTypeOK, TeleInv

-----------------------------------------------------------------------------
(* The invariant. *)

PoolInv == PoolTypeOK /\ DialHasRoute /\ TeleHasRoute /\ TeleInv

\* A step of a telegram leaves the requests alone and only adds to the peerstore.
LEMMA TeleFrame ==
  ASSUME TypeOK, NEW t \in Telegrams, TeleStep(t)
  PROVE  /\ UNCHANGED <<local, pc, flow, table, at, relayHost>>
         /\ store \subseteq store' /\ store' \subseteq Routes
BY DEF TypeOK, TeleStep, Submit, AddLocal, AddTele, AddAddrToHost, CallOpens, CallFails,
       NodeAnswers, CallReturns, vars, local, flow

LEMMA TeleRoutes ==
  ASSUME PoolInv, NEW t \in Telegrams, TeleStep(t)
  PROVE  TeleHasRoute'
<1>1. tele \in [Telegrams -> Calls] /\ tele[t] \in Calls
  BY DEF PoolInv, PoolTypeOK
<1>2. store \subseteq store'
  BY TeleFrame DEF PoolInv, PoolTypeOK
<1>3. SUFFICES ASSUME NEW s \in Telegrams, tele'[s].step = "dial", tele'[s].route # "none"
               PROVE  tele'[s].route \in store'
  BY DEF TeleHasRoute
<1>4. CASE s # t
  <2>1. tele'[s] = tele[s]
    BY <1>4, TeleStepKeeps DEF PoolInv
  <2>2. QED
    BY <1>2, <1>3, <2>1 DEF PoolInv, TeleHasRoute
<1>5. CASE s = t /\ AddTele(t)
  <2>1. tele[t].route = "none"
    BY <1>5 DEF PoolInv, TeleInv, CallOK, AddTele
  <2>2. table \in Routes
    BY <1>1, <1>3, <1>5, <2>1 DEF AddTele, End, Becomes, Calls
  <2>3. Becomes(t, [tele[t] EXCEPT !.step = "dial", !.route = table])
        /\ store' = store \cup {table}
    BY <1>5, <2>2 DEF AddTele, AddAddrToHost, Routes
  <2>4. tele'[t].route = table
    BY <1>1, <2>3 DEF Becomes, Calls
  <2>5. QED
    BY <1>5, <2>3, <2>4
<1>6. CASE s = t /\ ~AddTele(t)
  <2>1. ASSUME NEW call, Becomes(t, call), call.step # "dial" PROVE FALSE
    BY <1>1, <1>3, <1>6, <2>1 DEF Becomes
  <2>2. ASSUME NEW how \in Outcomes, NEW doc, End(t, how, doc) PROVE FALSE
    BY <1>1, <2>1, <2>2 DEF End, Calls, Outcomes
  <2>3. ~Submit(t)
    BY <2>1 DEF Submit, NoCall
  <2>4. ~AddLocal(t) /\ ~CallFails(t)
    BY <2>2 DEF AddLocal, CallFails, Outcomes
  <2>5. ~CallOpens(t) /\ ~NodeAnswers(t)
    BY <1>1, <2>1 DEF CallOpens, NodeAnswers, Calls
  <2>6. ~CallReturns(t)
    BY <1>1, <2>1, <2>2 DEF CallReturns, Take, Calls, Outcomes
  <2>7. QED
    BY <1>6, <2>3, <2>4, <2>5, <2>6 DEF TeleStep
<1>7. QED
  BY <1>4, <1>5, <1>6

LEMMA PoolStep ==
  ASSUME PoolInv, PoolNext
  PROVE  PoolInv'
<1>1. CASE Meanwhile
  <2>1. TypeOK' /\ DialHasRoute'
    BY <1>1, TypeStep, RouteStep DEF PoolInv, PoolTypeOK, Meanwhile
  <2>2. tele' = tele /\ (store \subseteq store' \/ \A t \in Telegrams : tele[t].step # "dial")
    BY <1>1 DEF Meanwhile
  <2>3. PoolTypeOK' /\ TeleInv'
    BY <2>1, <2>2 DEF PoolInv, PoolTypeOK, TeleInv
  <2>4. TeleHasRoute'
    BY <2>2 DEF PoolInv, TeleHasRoute
  <2>5. QED
    BY <2>1, <2>3, <2>4 DEF PoolInv
<1>2. ASSUME NEW t \in Telegrams, TeleStep(t) PROVE PoolInv'
  <2>1. /\ UNCHANGED <<local, pc, flow, table, at, relayHost>>
        /\ store \subseteq store' /\ store' \subseteq Routes
    BY <1>2, TeleFrame DEF PoolInv, PoolTypeOK
  <2>2. TypeOK'
    BY <2>1 DEF PoolInv, PoolTypeOK, TypeOK, local, flow
  <2>3. DialHasRoute'
    BY <2>1 DEF PoolInv, DialHasRoute, local
  <2>4. PoolTypeOK' /\ TeleInv'
    BY <1>2, <2>2, TeleStepKeeps DEF PoolInv, PoolTypeOK
  <2>5. TeleHasRoute'
    BY <1>2, TeleRoutes
  <2>6. QED
    BY <2>3, <2>4, <2>5 DEF PoolInv
<1>3. QED
  BY <1>1, <1>2 DEF PoolNext

LEMMA PoolInvariant == PoolSpec => []PoolInv
<1>1. PoolInit => PoolInv
  <2>1. ASSUME PoolInit PROVE TypeOK /\ DialHasRoute
    BY <2>1, InitType DEF PoolInit, Init, DialHasRoute, Threads, Hops
  <2>2. ASSUME PoolInit
        PROVE  tele \in [Telegrams -> Calls] /\ TeleInv /\ TeleHasRoute
    BY <2>2, NoCallTyped DEF PoolInit, TeleInv, CallOK, TeleHasRoute, NoCall
  <2>3. QED
    BY <2>1, <2>2 DEF PoolInv, PoolTypeOK
<1>2. PoolInv /\ UNCHANGED poolVars => PoolInv'
  BY DEF PoolInv, PoolTypeOK, TypeOK, DialHasRoute, TeleHasRoute, TeleInv, poolVars
<1>3. QED
  BY <1>1, <1>2, PoolStep, PTL DEF PoolSpec

-----------------------------------------------------------------------------
(* What follows from it. *)

\* Every variable of the node that proxies and takes telegrams has its type.
THEOREM PoolTypeCorrect == PoolSpec => []PoolTypeOK
<1>1. PoolInv => PoolTypeOK
  BY DEF PoolInv
<1>2. QED
  BY PoolInvariant, <1>1, PTL

\* A telegram is dialed with the address that AddTele read, for any number of
\* telegrams and requests that fill the same peerstore.
THEOREM TelegramsKeepRoute == PoolSpec => []TeleHasRoute
<1>1. PoolInv => TeleHasRoute
  BY DEF PoolInv
<1>2. QED
  BY PoolInvariant, <1>1, PTL

\* The proxy's requests keep the address they added, too: telegrams take nothing
\* from the peerstore.
THEOREM RequestsKeepRoute == PoolSpec => []DialHasRoute
<1>1. PoolInv => DialHasRoute
  BY DEF PoolInv
<1>2. QED
  BY PoolInvariant, <1>1, PTL

\* A telegram has the fields of its answer if and only if its call ended well.
THEOREM FieldsOfAnswer == PoolSpec => []FieldsAreAnswered
<1>1. PoolInv => FieldsAreAnswered
  BY DEF PoolInv, TeleInv, CallOK, FieldsAreAnswered, EdgeCalled
<1>2. QED
  BY PoolInvariant, <1>1, PTL

\* An edge node with an agent answers every telegram for its IDL with a document.
THEOREM IdlAlwaysAnswered == PoolSpec => []IdlIsAnswered
<1>1. ASSUME ~EdgeNoAgent, NEW a \in Served("idl")
      PROVE  a.doc # "" /\ a.response \in {"ours", "foreign"}
  <2>1. Served("idl") = UNION {Idl(said) : said \in IdlSource}
    BY DEF Served
  <2>2. PICK said \in IdlSource : a \in Idl(said)
    BY <1>1, <2>1
  <2>3. a \in Signed("[]") \/ a \in Signed("origin")
    BY <1>1, <2>2 DEF Idl, IdlSource
  <2>4. QED
    BY <2>3 DEF Signed
<1>2. PoolInv => IdlIsAnswered
  BY <1>1 DEF PoolInv, TeleInv, CallOK, IdlIsAnswered, Endpoints
<1>3. QED
  BY PoolInvariant, <1>2, PTL


-----------------------------------------------------------------------------
(* Telegrams disturb no request. *)

\* A step of a telegram is none of a request: it leaves its threads, its links,
\* what its handlers hold and what its client sees as they are.
LEMMA TeleAside ==
  ASSUME TypeOK, NEW t \in Telegrams, TeleStep(t)
  PROVE  /\ TypeOK'
         /\ \A q \in Requests : Untouched(q) /\ Same(q) /\ View(q)' = View(q)
<1>1. /\ UNCHANGED <<local, pc, flow, table, at, relayHost>>
      /\ store' \subseteq Routes
  BY TeleFrame
<1>2. TypeOK'
  BY <1>1 DEF TypeOK, local, flow
<1>3. \A q \in Requests : Untouched(q) /\ Same(q) /\ View(q)' = View(q)
  BY <1>1 DEF local, flow, Untouched, Same, View, Ran
<1> QED BY <1>2, <1>3

\* The invariant of the ends survives the steps of telegrams, and so does what
\* ties the client's view to the proxy's writer.
LEMMA PoolKeepsEnds ==
  ASSUME EndInv, \A q \in Requests : Shown(q), [PoolNext]_poolVars
  PROVE  /\ EndInv' /\ \A q \in Requests : Shown(q)'
         /\ [Service!Next]_(Service!vars)
<1>1. CASE [Next]_vars
  <2>1. CASE Next
    BY <2>1, EndStep, ShownStep, ServiceStep
  <2>2. CASE UNCHANGED vars
    <3>1. TypeOK'
      BY <2>2 DEF EndInv, TypeOK, vars
    <3>2. \A q \in Requests : Untouched(q) /\ Same(q)
      BY <2>2 DEF vars, Untouched, Same
    <3>3. EndInv'
      BY <3>1, <3>2, UntouchedEnds, QuietKeeps DEF EndInv, StreamInv
    <3> QED BY <2>2, <3>3, ShownStep, ServiceStep
  <2> QED BY <1>1, <2>1, <2>2
<1>2. ASSUME NEW t \in Telegrams, TeleStep(t)
      PROVE  /\ EndInv' /\ \A q \in Requests : Shown(q)'
             /\ [Service!Next]_(Service!vars)
  <2>1. /\ TypeOK'
        /\ \A q \in Requests : Untouched(q) /\ Same(q) /\ View(q)' = View(q)
    BY <1>2, TeleAside DEF EndInv
  <2>2. EndInv'
    BY <2>1, UntouchedEnds, QuietKeeps DEF EndInv, StreamInv
  <2>3. \A q \in Requests : Shown(q)'
    BY <2>1, UntouchedShown
  <2>4. UNCHANGED Service!vars
    BY <2>1, Hidden
  <2> QED BY <2>2, <2>3, <2>4
<1>3. UNCHANGED poolVars => UNCHANGED vars
  BY DEF poolVars, vars
<1> QED BY <1>1, <1>2, <1>3 DEF PoolNext, Meanwhile

LEMMA PoolEnds == PoolSpec => [](EndInv /\ \A q \in Requests : Shown(q))
<1>1. PoolInit => EndInv /\ \A q \in Requests : Shown(q)
  BY EndStart, ShownStart DEF PoolInit
<1>2. (EndInv /\ \A q \in Requests : Shown(q)) /\ [PoolNext]_poolVars
      => (EndInv /\ \A q \in Requests : Shown(q))'
  BY PoolKeepsEnds
<1> QED BY <1>1, <1>2, PTL DEF PoolSpec

\* What is promised of one request among requests holds on a node that takes
\* telegrams, too: pieces come in order, what was refused was not run, and what
\* the end of an answer says of it is true.
THEOREM RequestsUndisturbed ==
  PoolSpec => [](InOrder /\ RefusedNotRun /\ BrokenHasCause /\ CleanMeansComplete)
<1>1. EndInv => InOrder /\ RefusedNotRun /\ BrokenHasCause /\ CleanMeansComplete
  BY EndFacts, OrderFollows DEF EndInv
<1> QED BY <1>1, PoolEnds, PTL

\* A relay host keeps the promise of ProxyService to the clients of its proxy
\* whatever telegrams it takes beside them: a telegram's step is a stutter.
THEOREM RelayHostKeepsPromise == PoolSpec => ServicePromise
<1>1. PoolInit => Service!Init
  BY ServiceStart DEF PoolInit
<1>2. (EndInv /\ \A q \in Requests : Shown(q)) /\ [PoolNext]_poolVars
      => [Service!Next]_(Service!vars)
  BY PoolKeepsEnds
<1>3. PoolSpec => Service!Init /\ [][Service!Next]_(Service!vars)
  BY <1>1, <1>2, PoolEnds, PTL DEF PoolSpec
<1> QED BY <1>3 DEF ServicePromise, Service!Spec
=============================================================================
