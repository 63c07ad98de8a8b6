# Verification of edge-matrix-computing

TLA+ models of the node program of EdgeMatrix Computing, their model checking
with TLC and proofs about them with TLAPS. A *full* (relay) node accepts HTTP
requests and forwards them over libp2p to *edge* nodes, each of which forwards
them to the application on its own host. Everything is translated from the Go
sources; `PROJECT.json` maps each definition to its lines.

## 1. The system

| Component | Source | State it keeps | Operations |
|---|---|---|---|
| Transparent proxy | `proxy/transparent_proxy.go` | none per request but its goroutine; shares the synced peer table and the relay host's peerstore | parse the path, authorize, look the node up, add its address, dial, stream the answer |
| Edge endpoint handler | `server/server.go` (NewServer) | none per request | validate the bearer, call the application, stream its answer |
| Server | `server/server.go`, `command/server`, `command/helper` | the parts: secrets, network, relay client and server, endpoint, syncer, pool, listeners | construct in order, wait for a signal, Close |
| System gRPC service | `server/system_service.go` | none; uses the Server's parts | status, peers, relays |
| Agents | `agent/*.go` | URL of the application / of the authorization service | bindNode, getOrigin, validateApiKey, AuthBearer |
| Miner service, hub agent | `miner/*.go`, `command/miner` | none; the record is at the EMC Hub | register, remove, status, epower |
| Telegram signers | `telepool/telesigner.go` | chain id | sign, recover sender and provider |
| Telegram pool, JSON-RPC hub | `telepool/telepool.go`, `slot_gauge.go`, `server/server.go` | none per telegram but its call; shares the peer table and the relay host's peerstore with the proxy (a gauge and channels nobody uses) | AddTele; validateTele, Close: never called |
| `/alive`, `/idl` of an edge node | `server/server.go` | none | answer from the clock, a file or the application |
| Configuration, genesis, secrets | `config`, `command/server`, `command/genesis`, `command/secrets` | files | merge, check, write |
| Operator commands, output | `command/peers`, `command/relay`, `command/*output.go` | the lists of added peers and of errors | ask a node once or per address, report, exit |
| Metrics, profiler | `server/server_metrics.go` | the profiler | start, stop |

How they interact: the proxy and the edge handler are two goroutines per
request joined by a libp2p stream; requests share the peer table, which the
syncer of edge-matrix-core updates, and the peerstore. The gRPC, JSON-RPC and
proxy listeners call into parts of one `Server` while its main goroutine is
still constructing it or `Close` takes it down. The binding loop of an edge
node is a goroutine that calls the application every 15 seconds. edge-matrix-core,
libp2p, net/http, gRPC, the hub and the applications are outside the repository
and are modelled as this code uses them (`external` in the map).

What is hard here: answers that cross two buffered copies while either end, the
stream or the application fails; error paths that go on where they should return;
handlers that run before the parts they use are set; a route that is read, shared and
used later, by proxied requests and telegrams alike; a command whose node ends
between two of its calls; calls to other processes that may be served though they
fail; an application that restarts at any time; arithmetic at the edges of the
machine word. The hazards of `PROJECT.json` list these at their lines.

What makes each component correct, in a sentence: a client gets a prefix of the
application's answer, in order, and is not told a lie about its end (proxy, edge
handler); a caller never meets a part that is not there, and a signal ends the
process (Server); what is published is what the application recently said (binding);
who is told "register ok" did register (miner); a node has one identity and starts
from what a command wrote (provisioning); a telegram is called where the table said,
and carries the response of its own call or none (pool); a command reports what the
node did (operator commands); a signature is credited to its key on its chain and
nowhere else (signers).

## 2. Modules

| Module | Models |
|---|---|
| `ProxyService` | abstract: what a client of the network may rely on |
| `EdgeProxy` | proxy handler, edge handler, application, stream, peer table |
| `EdgeProxyProofs` | `TypeCorrect`, `RouteHolds`, `ReceivedInOrder` |
| `EdgeProxyEndProofs` | extends `EdgeProxyProofs`: `RefusedIsSafe`, `CutHasCause`, `CleanIsComplete`, `ImplementsService`, `AnswerStands`, `AuthShutsOut` |
| `Telepool` | extends `EdgeProxy` by telegrams and the endpoints that answer them |
| `TelepoolProofs` | extends `EdgeProxyEndProofs`: one theorem per property, `RequestsUndisturbed`, `RelayHostKeepsPromise` |
| `ServerNode` | NewServer, HandleSignals, Close, the served calls, and an operator's command |
| `ServerNodeProofs` | `TypeCorrect`, `PartsFound`, `ServiceFinds`, `GracefulClose`, `ReportTrue`, `CrashIsOfNetwork` |
| `TeleSigner`, `MCTeleSigner` | the two signers and the arithmetic of V |
| `TeleSignerProofs` | one theorem per property, and `SoundIsExact` |
| `AppBinding` | the binding of the application and its published origin |
| `AppBindingProofs` | `TypeCorrect`, `PublishedIsRecent` |
| `RegistryService` | abstract: what operators who register a node may rely on |
| `MinerHub` | operators, miner service, hub agent and hub |
| `MinerHubProofs` | `TypeCorrect`, `OkAccepted`, `LastOk`, `CrashCaused`, `ImplementsRegistry`, `RecordIsHonest` |
| `Provisioning` | genesis, secrets init and output, and the start of a server from their files |
| `MCProvisioning` | symmetry for it |
| `ProvisioningProofs` | seven theorems, one per property |

**EdgeProxy.** `pc[r]` holds the control state of the three threads of request r: the
proxy's handler, the edge's handler and the application. A link (`app`, `p2p`, `cli`)
has a visible status line (`head`), pieces in flight (`wire`) and an end (`fin`);
`held` is what a handler's `ResponseWriter` buffers. A body is a sequence of numbered
pieces, so that order, loss and duplication are visible; of an event stream (`sse`)
each piece is a line, and the last may lack its newline, which `ReadBytes` with
`io.EOF` then drops. Any body may declare its length (`sized`): the handlers copy
Content-Length with the other headers, of an event stream too. If a handler then wrote
less, net/http ends the answer short of what it declared (`Short`, the end `short` of
a link), and the reader of the link sees an unexpected end; an event stream can come
to that without any failure. Both handlers use the same copy loop in the source and
share `Copy...` in the model. `Panic` is the nil response of a failed `client.Do` and
the missing relay host. The X-Forwarded headers are assumed absent on arrival, CORS
headers and wording are left out, and requests are followed for one node, since
everything shared is keyed by node.

**Telepool.** `tele[t]` is a telegram and the call of AddTele that carries it: it is
submitted over JSON-RPC, AddTele reads the peer table and fills the relay host's
peerstore, dials, and takes the fields of the decoded answer. `TeleStep` runs beside
`Next` of `EdgeProxy` on the same `table`, `store` and `at`. The address is read and
added in one step: the entry that the syncer publishes is replaced as a whole, and
AddTele reads it once. As for the proxy's requests, an address does not expire between
being added and the dial, which takes far less than its TTL; so what the route
properties say is that the address is added first, under the entry that was read, and
that no other handler takes it away. The edge node's `/alive` and `/idl` are modelled
from its handlers, what `application.Call` and `WriteSignedResponse` do from their
use. `/alive` writes plain text, which AddTele cannot decode.

**ServerNode.** `main` is the stage of NewServer, whose order is a record from stage
to stage for each mode; `up` are the parts that are set, `hub` those that the JSON-RPC
hub copied when it was made. A stage may fail (nondeterministic). `Serve` is any call
of any listener that is up; `Nils` says which parts its handler uses without a nil
check. A panic ends the process in a gRPC handler and only the request in an HTTP one.
The Miner service is served by the same gRPC server; its handlers miss no part, but a
query that the hub refuses or a registration whose key cannot be read may panic all
the same (`minerPanic`; how that comes about is `MinerHub`'s subject). `closed` are
the parts whose Close returned without an error, `unclosed` those whose Close returned
one, which the code logs or drops. `cmd` is the process of one command of `peers`,
`relay` or `miner`: it asks (`Call`), is served by the same `Handler` as everybody
else (`Served`), hears of it or of the end of the node (`Replied`), and writes its
output; `joined` are the addresses that the network took. The three relay questions
are one kind, since none of their handlers returns an error.

**TeleSigner.** Machine words have `2 * Half` values. `EIP155V` takes the chain
id as the signed number that `int64` makes of it and drops the sign as `Bytes`
does; `Protected` looks at the low word as `Uint64` does. Keys, hashes and
signatures are ideal: recovery gives the signer's key for the signed hash and
parity, and otherwise a stranger or an error.

**AppBinding.** One round is bind, getOrigin, the answer on its way, SetAppOrigin.
NewServer does one; an edge node repeats it at every tick. The application stops,
starts with or without its binding, changes its origin or is bound by another
node between any two steps. With `AppNoAgent` nothing of this runs. `BindAppNode`
ignores what the application answers, so that here an application that is up always
takes the binding: one that answers but refuses is not modelled.

**MinerHub.** A call goes from asked over posted and served to told; the hub serves
requests atomically. `late` are the calls whose registration was given up before the
hub saw it: it may still be accepted, be refused or be lost. `Registry` shows this
state as that of `RegistryService`: what was asked, which registrations took effect,
what was said. The signature, the random number and the fields of a status are left
out. `getPrivateKey` returns nil for a key that it cannot read (`KeyFails`), and the
nil goes on to the library's `GetAddressFromKey`, which either reports an error or, as
it follows the pointer, panics and ends the node (`Keyless`). The library is not part
of the repository, and the model allows both. A commit that is neither set nor remove
(`other`) sends no request and is answered with an empty message.

**Provisioning.** Every command is a process of its own with a program counter;
the genesis file and the key stores are all that they share. `Fail` is an error
or a kill at any step and leaves what was written. A key is named after the
command that made it, so that "whose key is this" can be asked; `told` collects
what a command has shown. `had` is history: whether what the command looks for
was there when it began. A store refuses to replace a key, atomically: that is
the secrets manager of edge-matrix-core, as its callers rely on it. The network
of a starting server makes its key when it finds none, or fails. Peer limits are
computed by `InitPeerLimits`, of any integers: the flags may be negative. (They are
taken to be small enough for the sum of two to fit 64 bits and for a float64 to hold
one exactly.) Of the other flags of `server` only that one may not parse matters here.
The genesis file is opened and truncated, then written, then the command reports: a
command may fail or be killed after each (`OpenGenesis`, `WriteGenesis`, `EndGenesis`),
which leaves `EmptyFile`, or with another writer `MixedFile`, and a server that finds
one of these does not start. That is `SaveFileSafe` of edge-matrix-core taken as a
plain write, the worst that its name and its use here allow.

## 3. Runs

| Run | Instance | Shows |
|---|---|---|
| `proxy_stream` | one request of every method, path, kind and answer (up to 3 pieces, of declared length or not), every table entry, authorization on | `TypeOK`, `InOrder`, `RefusedNotRun`, `CleanMeansComplete`, `BrokenHasCause`, and the refinement of `ProxyService` (`ServicePromise`) |
| `proxy_live` | one request for a node that may move, silent applications allowed | `EveryRequestEnds`, `LinesArePrompt` |
| `relay_host` | a request and a telegram for one node that moves, a changing table, expiring addresses; every endpoint and every answer | `PoolTypeOK`, `TeleHasRoute`, `FieldsAreAnswered`, `IdlIsAnswered`, `DialHasRoute` |
| `idl_origin` | a telegram for the IDL of a node with an agent | finding: it is told the origin |
| `edge_auth_verdict` | a bearer the application accepts | finding: refused nevertheless |
| `node_life` | both modes, every configuration, any call at any moment, two signals, and beside it one command, with up to two addresses, with and without `--json` | `TypeOK`, `HandlersFindParts`, `ServiceFindsParts`, `GracefulClosedAll`, `SignalEndsNode`, `ReportIsTrue` |
| `edge_status` | an edge node asked for its status | finding: the process ends |
| `tele_signer` | all 128 chain ids of a seven-bit word, both signers, all askers | `SenderIsSigner`, `MismatchIsError`, `ReplayRejected`, `FrontierAccepted`, `ProviderIsSigner` |
| `app_binding` | two origins, three events, two faults, both modes | `TypeOK`, `OriginFresh`, `OriginSettles`, `BindingSettles` |
| `miner_hub` | three overlapping calls, four types, readable and unreadable keys | `TypeOK`, `LastOkHolds`, `CrashHasCause`, the refinement of `RegistryService` (`RegistryPromise`), `EveryCallEnds` |
| `miner_query` | one query that the hub refuses | finding: the process ends |
| `provisioning` | three commands over two stores and two networks, symmetric, with or without an old genesis file; no peer flag, a maximum of 7 or -5, an outbound part of 7, or inbound 7 with outbound -5 | `TypeOK`, `CommandsDeliver` (`InitDelivers` and `OutputShows`), `FailureStopsThere`, `OneIdentity`, `StartedWhole`, `RunsOnFile`, `LimitsHonoured` |

Bounds, and why they are enough. Requests meet only in the table and the peerstore,
so one request suffices for the stream. For the route it takes one request and one
telegram: each can overwrite what the other added, and the proofs say the same of any
number of both (two telegrams exceed five minutes). Three pieces allow one on each
link or buffer, with one overtaking or repeated one to be noticed. Seven bits are the
least width at which the constants 27, 28 and 35 lie below half a word and the wrap
of V is an edge of its own. Three events let an application stop, return without its
binding and be taken by another node within one round; further ones repeat this.
Three calls let two overlap and a third follow; two addresses are the least of which
one can fail and the next be added. Three commands let two race while a third
observes, or make, fail and repeat one node's keys; two stores are the least that
`--num` goes through. 7 peers do not divide by the dial ratio of 5, and of -5 the
dialled part is -1, the value of an unset flag. One foreign call (`MaxCalls`) meets a
node in every state beside those of the command; a call changes nothing of the node
but to end it, and the proofs say the same of any number. `MaxCalls`,
`MaxPieces`, `MaxEvents` and `MaxFaults` are the only counters that are capped;
`NAddrs` is the length of a command line.

A run without deadlock checking is one whose system may stop: requests that are
finished, a process that ended, a telegram that was answered or asked about, callers
that were told, commands that were run.

Fairness. `HandlersRun`: a handler's goroutine is scheduled and the calls it
waits for return or fail; nothing is assumed of applications, clients or the
network. `MainRuns`: the main goroutine runs and its five-second timer fires;
Close may hang. `WF(Node)` of AppBinding: the loop runs and its HTTP calls end.
`WF(Step(c))` of MinerHub: a handler runs and its HTTP call ends with an answer
or without one. No strong fairness is assumed anywhere.

## 4. What disagrees with the code

* **Edge authorization** (`VerdictHonoured`): `GetBoolResponse.result` has a JSON
  tag but is not exported, so the decoder leaves it false and every bearer is
  refused by an edge node with authorization on. `AuthShutsOut` proves that none
  ever passes.
* **Status of an edge node** (`StatusServed`): GetStatus, PeersAdd and PeersStatus
  use the network without a nil check, and an edge node has none. By
  `CrashIsOfNetwork` no other missing part lets a caller end a node's process. (The
  Miner service can end one without missing any, see the last finding.)
* **The IDL of a node** (`IdlIsOfApplication`): `Server.GetAppIdl` calls the agent's
  `GetAppOrigin`, so `/idl` signs the application's origin; `AppAgent.GetAppIdl`,
  which asks "/hubapi/v1/getIdl", has no caller.
* **A refused status query** (`RefusedQueryFails`): MyNode and MyCurrentEPower
  take the text of a nil error when the hub's `_result` is not 0.

Also seen, and described by the models without being stated as findings: after a
failed `client.Do` the proxy's 502 is lost in a panic; a stream that breaks in a body
without a declared length looks like the end of it (hence the exception in
`CleanMeansComplete`); the last, unterminated line of an event stream is dropped, and
if the stream declared its length the client's connection is cut for it though
nothing failed (`LosesLine`, the exception in `BrokenHasCause`);
`miner register --commit remove` always fails and an unknown node type is told
"register ok" without a request; a node key that cannot be read becomes a nil pointer
for the library; an error of Close is logged or dropped, and the node reports a
graceful end; the sender of a telegram signed for chain id 2^63-4,
for -4, or for most ids below -17 (read as unsigned) is not recovered, which `Sound`
and `KeepsSign` delimit exactly, as `SoundIsExact` proves; a full node binds its
application only once; two genesis commands that overlap both report success, and the
later one's file stays, and one that then fails or is killed leaves its remains there
(`RunsOnFile` delimits what follows); a negative maximum of peers is shared out like
any other; a `secrets init` that
failed after one key cannot be repeated as it was, since that key is refused, but only
with the flag of the missing one; without a peer flag `MaxPeers` stays -1; `--dns` is
given the port of an address that has no flag, which is 0; `validateTele`, which its
comment places before the pool, is called by nobody, so telegrams and responses are
taken unverified; a telegram that is not for the edge call precompile is answered with
an empty string and forgotten; a telegram for `/alive` always fails, since its answer
is not an encoded response; a telegram that comes before the relay server is set
panics; `peers add` ends with exit code 0 though every address failed, and with
`--json` every failed command does; `secrets generate` registers only `--dir`.

## 5. Proofs

All are checked by tlapm with the constants left open.

* `TypeCorrect`, `RouteHolds`, `ReceivedInOrder` (EdgeProxyProofs), for any set of
  requests, modes, kinds, entries and bound on pieces. `DialHasRoute` is inductive
  with the types: only `AddressExpires` shrinks the peerstore. `InOrder` says that the
  client has a prefix of what was written; it is not inductive, since it says nothing
  of what is still under way. `StreamInv` adds, for both hops, that the pieces on the
  incoming link and those held by the handler are consecutive, and that the counts
  along the chain client link, proxy writer, p2p link, edge writer, application link
  fit as long as nobody has closed the link in between. The actions that touch no
  stream are dispatched by the `Quiet...` lemmas, so that the proof has one real case
  each for a copied piece, a flush and a write.
* `RefusedIsSafe`, `CutHasCause`, `CleanIsComplete`, `ImplementsService`,
  `AnswerStands` and `AuthShutsOut` (EdgeProxyEndProofs). `StreamInv` says what is on
  the way; `Ends` adds how the three threads end: in which order they stop, what each
  status line `Tells` of the threads behind it, what may have cut each link, and that
  what closed cleanly carried the whole answer, unless a fault of a hop before it is
  to blame. None of the three is inductive alone, since each relates what the client
  sees to an application that it is two links away from. `ImplementsService` is the
  refinement: `Shown` (the client has seen nothing, or the line that the proxy's own
  writer has) shows that each step of EdgeProxy is the application's `Perform`, an
  `Advance` on the client's link, or a stutter of `ProxyService`. `AnswerStands` draws
  from that what a client may conclude of the future: what it has been given stays.
  `AuthShutsOut` adds to the invariant that an edge handler with authorization on
  leaves `validate` only by returning.
* `PoolTypeCorrect`, `TelegramsKeepRoute`, `RequestsKeepRoute`, `FieldsOfAnswer`,
  `IdlAlwaysAnswered`, `RequestsUndisturbed`, `RelayHostKeepsPromise`
  (TelepoolProofs), for any number of telegrams and requests. The first five follow
  from one invariant, `PoolInv`. Steps of requests are the lemmas `TypeStep` and
  `RouteStep` of EdgeProxyProofs, reused; steps of telegrams only add to the peerstore
  (`TeleFrame`). `CallOK` adds what a call has been through: its answer is one that
  its endpoint gives, and nothing is taken before it ends well. The last two say that
  the composition costs the requests nothing: a step of a telegram leaves every
  request `Untouched` (`TeleAside`), so that the invariant and the refinement of
  EdgeProxyEndProofs carry over, and a relay host that takes telegrams still
  implements `ProxyService`.
* `TypeCorrect`, `PartsFound`, `ServiceFinds`, `GracefulClose`, `ReportTrue`,
  `CrashIsOfNetwork` (ServerNodeProofs), for any number of calls and addresses. For
  `HandlersFindParts`, `Built` adds which parts are set at each stage and behind each
  listener, and `Relaying` carries it over to the action property `ServiceFindsParts`;
  for `GracefulClosedAll`, `Closing` adds that of the parts Close is `Past` those that
  are set have been closed, with or without an error, and that Close starts only after
  NewServer is done; for `ReportIsTrue`, `Listed` adds that each address asked so far
  is in exactly one list and that an "ok" under way is of a joined address; for
  `CrashIsOfNetwork`, `EdgeParts` adds that an edge node sets no listener but gRPC.
* `OwnTelegrams`, `Mismatches`, `NoReplay`, `FrontierTelegrams`, `OwnResponses`,
  `SoundIsExact` (TeleSignerProofs), for every width of at least seven bits and any
  chain ids and keys. The arithmetic lemmas say what a signer makes of the V of its
  own chain, of another and of Frontier; `Answered` says that telegram and answer are
  as a signer made them. `NoReplay` needs no assumption on the ids: EIP155's promise
  holds even where V wraps or loses its sign. `SoundIsExact` is the converse of the
  two round trips: of a chain id that is not sound some telegram of its own signer is
  lost (`UnsoundChain`), and of one that does not keep its sign some response
  (`LostProvider`), so that neither condition is stronger than the code needs.
* `TypeCorrect`, `PublishedIsRecent` (AppBindingProofs), for any origins and bounds.
  `Recent` adds where the answer on its way comes from, and that between two questions
  the published origin is of the last one.
* `TypeCorrect`, `OkAccepted`, `LastOk`, `CrashCaused`, `ImplementsRegistry`,
  `RecordIsHonest` (MinerHubProofs), for any calls and hub. `MinerInv` has four parts:
  what a call knows at each stage (`CallOK`); that while a registration is alone,
  nobody else registers and, unless it failed, no request given up earlier can still
  arrive (`AloneOK`), without which "the record is of the last ok" is not inductive;
  that nobody waits on a service that has ended (`NobodyWaits`); and that what is late
  is a registration that was not accepted (`LateOK`), without which it could take
  effect twice. `ImplementsRegistry` is the refinement: an operator's question is an
  `Ask`, what the hub accepts, in time or late, a `Take`, and an answer a `Tell`,
  which is of all who wait when a node ends; what concerns queries and removals is a
  stutter. `RecordIsHonest` is then proved of `RegistryService` and needs nothing of
  MinerHub's steps.
* `TypeCorrect`, `IdentityIsOne`, `CommandsDo`, `FailureStops`, `StartsWhole`,
  `RunsOnItsFile`, `LimitsKept` (ProvisioningProofs), for any number of commands,
  stores and networks. `OneIdentity` compares what two commands were shown, at
  different times; `Kept`, that a store still holds every key anyone was shown of it,
  is inductive. `Change` says what every step has in common, so that the invariant is
  proved of it once and each action is only shown to be a `Change`. The others follow
  from `Course`, which says how far a command has come: what an init has made of the
  stores before, at and after the one where it is, what an output has shown, what a
  server has got at each stage. Others cannot take that back, because stores only grow
  (`Grown`) and distinct entries of a list are distinct stores. `FileCourse` adds who
  can have opened or written the genesis file that a command finds or runs on, and
  where each of them is. `LimitsKept` needs a lemma on the rounded division.

The assumptions are the named ASSUMEs of the modules. They only type the constants,
but for a word of at least seven bits (TeleSigner) and a share of at most one half
that is dialled (Provisioning; the code's is a fifth). Those that type them also set
the markers for "nothing" apart from the values. Every invariant and every action
property of the passing runs, and both refinements, are proved. Only model-checked are
the six liveness properties, since fairness is out of the prover's reach, and what the
finding runs violate. No module uses RECURSIVE operators or needs induction over data.

## 6. Not modelled

Some code has no caller in the repository, so there is no behaviour to model: the
pool's `validateTele`, its slot gauge, channels, `Close` and `SetSigner`, and the
server's `GetAppNode`, `validAppNode`, `setupTelemetry` and `startPrometheusServer`.
Of `secrets generate` only `--dir` is registered, so that its type is always
unsupported; stores that a secrets configuration names, `server export` and the
config file, whose flag is not registered, are left out too. Of the profiler only its
start and its stop are modelled. Metrics, how commands are registered and how output
is formatted, generated code and the example application have no logic that a
property could be about. What edge-matrix-core does inside (discovery, reservation,
sync protocol) is outside the repository.

## 7. Plan

Done in this order, the most important behaviour first: `EdgeProxy` with
`ProxyService` (a request through the network), `ServerNode`, `TeleSigner`,
`AppBinding`, `MinerHub` with `RegistryService`, `Provisioning`, the operator's
commands in `ServerNode`, `Telepool` composed with `EdgeProxy`, and the proofs above.
Every safety property is proved; what would extend the project is outside this
repository: the discovery, reservation and sync protocols of edge-matrix-core, on
whose use here the external definitions rest.
