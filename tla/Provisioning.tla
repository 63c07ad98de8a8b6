----------------------------- MODULE Provisioning -----------------------------
(***************************************************************************)
(* How a node gets what it starts from (command/genesis, command/secrets,  *)
(* command/server, server/server.go): operators run `genesis`, `secrets    *)
(* init`, `secrets output` and `server` as processes of their own that meet*)
(* only in files, a genesis file and a key store per node, and that fail or*)
(* are killed between any two steps.  A store is a data directory;         *)
(* `secrets init --num` goes through several.  A key is known by the       *)
(* command that made it.                                                   *)
(***************************************************************************)
EXTENDS Integers, Sequences

CONSTANTS
  Cmds,          \* commands, each run once
  NStores,       \* the stores are 1 .. NStores
  Nets,          \* networks a genesis file may be of
  NoFile,        \* there is no genesis file, or it has not been read
  EmptyFile,     \* the genesis file has been truncated and not been written yet
  MixedFile,     \* two commands have written it, the one over the other
  NoKey,         \* a store does not hold the key
  PeerFlags,     \* the peer flags of servers, negative ones too; small enough for
                 \* a float64 and for a sum of two
  DefaultIn, DefaultOut, \* network.DefaultConfig
  DialShare      \* one of DialShare peers is dialled (network.DefaultDialRatio)

ASSUME CommandsAssumption == NoKey \notin Cmds
ASSUME StoresAssumption == NStores \in Nat \ {0}
ASSUME NetsAssumption ==
  /\ NoFile \notin Nets
  /\ EmptyFile \notin Nets \cup {NoFile}
  /\ MixedFile \notin Nets \cup {NoFile}

\* The value of a flag that is not given; who gives it gets the same.
Unset == -1
Limits == [max : Int, in : Int, out : Int]
NoLimits == [max |-> Unset, in |-> Unset, out |-> Unset]

\* --max-peers is exclusive with each of the other two flags.
ASSUME PeersAssumption ==
  /\ PeerFlags \subseteq Limits
  /\ \A f \in PeerFlags : f.max # Unset => f.in = Unset /\ f.out = Unset
  /\ DefaultIn \in Nat /\ DefaultOut \in Nat
  /\ DialShare \in Nat \ {0, 1}   \* DefaultDialRatio is below a half

VARIABLES
  genesis,  \* what the genesis file holds
  made,     \* the stores whose directories exist
  keys,     \* keys[s][k]: the key of kind k in store s
  job       \* the commands

vars == <<genesis, made, keys, job>>

Stores == 1 .. NStores
Kinds == {"validator", "network"}
Keys == Cmds \cup {NoKey}
Shown == [store : Stores, kind : Kinds, key : Cmds]

Files == Nets \cup {NoFile, EmptyFile, MixedFile}

\* The stores of a command: the one it names, or with --num those of an index.
StoreLists == {<<s>> : s \in Stores} \cup {[i \in 1 .. n |-> i] : n \in 2 .. NStores}

Ops == {"none", "genesis", "init", "output", "server"}
Ended == {"idle", "ok", "failed"}
Busy == {"checked", "opened", "written", "manager", "newValidator", "newNetwork",
         "address", "nodeID", "libp2p", "application"}

Idle == [op |-> "none", pc |-> "idle", list |-> <<>>, at |-> 0, asks |-> {},
         net |-> NoFile, flags |-> NoLimits, limits |-> NoLimits,
         told |-> {}, had |-> FALSE, wrote |-> FALSE]

TypeOK ==
  /\ genesis \in Files
  /\ made \subseteq Stores
  /\ keys \in [Stores -> [Kinds -> Keys]]
  /\ job \in [Cmds -> [op : Ops, pc : Ended \cup Busy \cup {"running"},
                       list : Seq(Stores), at : Nat, asks : SUBSET Kinds,
                       net : Nets \cup {NoFile}, flags : Limits, limits : Limits,
                       told : SUBSET Shown, had : BOOLEAN, wrote : BOOLEAN]]
  /\ \A c \in Cmds : job[c].at <= Len(job[c].list)

Init ==
  /\ genesis \in Nets \cup {NoFile}
  /\ made = {}
  /\ keys = [s \in Stores |-> [k \in Kinds |-> NoKey]]
  /\ job = [c \in Cmds |-> Idle]

Store(c) == job[c].list[job[c].at]
Held(c, k) == keys[Store(c)][k]
Goto(c, pc) == job' = [job EXCEPT ![c].pc = pc]
Whole(s) == \A k \in Kinds : keys[s][k] # NoKey

\* A process that ends takes its configuration along; files stay.
Exit(c, pc) ==
  job' = [job EXCEPT ![c].pc = pc, ![c].net = NoFile,
                     ![c].flags = NoLimits, ![c].limits = NoLimits]

\* Mutant: an error is set without a return, and the loop goes on.
Fail_GoesOn(c) ==
  /\ job[c].pc \in Busy
  /\ IF job[c].at < Len(job[c].list)
     THEN job' = [job EXCEPT ![c].at = @ + 1, ![c].pc = "manager"]
     ELSE Exit(c, "failed")
  /\ UNCHANGED <<genesis, made, keys>>

\* An error ends the command, and so does a kill.
Fail(c) ==
  /\ job[c].pc \in Busy
  /\ Exit(c, "failed")
  /\ UNCHANGED <<genesis, made, keys>>

-----------------------------------------------------------------------------
(* genesis *)

\* Mutant: the file is not looked for.
VerifyGenesisExistence_Never == TRUE

\* runPreRun refuses to overwrite a file (verifyGenesisExistence) ...
VerifyGenesisExistence == genesis = NoFile

\* had: history, whether there was a file when the command began.
GenesisPreRun(c, net) ==
  /\ job[c].op = "none"
  /\ job' = [job EXCEPT ![c] =
       [Idle EXCEPT !.op = "genesis", !.had = genesis # NoFile,
                    !.net = IF VerifyGenesisExistence THEN net ELSE NoFile,
                    !.pc = IF VerifyGenesisExistence THEN "checked" ELSE "failed"]]
  /\ UNCHANGED <<genesis, made, keys>>

\* ... and writeGenesisConfigToDisk does not look again: SaveFileSafe opens and
\* truncates the file ...
\* wrote: history, whether the command got as far as that.
OpenGenesis(c) ==
  /\ job[c].op = "genesis" /\ job[c].pc = "checked"
  /\ genesis' = EmptyFile
  /\ job' = [job EXCEPT ![c].pc = "opened", ![c].wrote = TRUE]
  /\ UNCHANGED <<made, keys>>

\* ... and writes it from the start, over what another command has written since.
WriteGenesis(c) ==
  /\ job[c].op = "genesis" /\ job[c].pc = "opened"
  /\ \/ genesis' = job[c].net
     \/ genesis # EmptyFile /\ genesis' = MixedFile
  /\ Goto(c, "written")
  /\ UNCHANGED <<made, keys>>

EndGenesis(c) ==
  /\ job[c].op = "genesis" /\ job[c].pc = "written"
  /\ Exit(c, "ok")
  /\ UNCHANGED <<genesis, made, keys>>

-----------------------------------------------------------------------------
(* secrets init, secrets output *)

InitPreRun(c, list, asks) ==
  /\ job[c].op = "none"
  /\ job' = [job EXCEPT ![c] =
       [Idle EXCEPT !.op = "init", !.list = list, !.at = 1, !.asks = asks,
                    !.pc = "manager"]]
  /\ UNCHANGED <<genesis, made, keys>>

\* had: history, whether the store held both keys when the command began.
OutputPreRun(c, s, asks) ==
  /\ job[c].op = "none"
  /\ job' = [job EXCEPT ![c] =
       [Idle EXCEPT !.op = "output", !.list = <<s>>, !.at = 1, !.asks = asks,
                    !.had = Whole(s), !.pc = "manager"]]
  /\ UNCHANGED <<genesis, made, keys>>

\* initSecretsManager of init makes the directories of the store ...
InitManager(c) ==
  /\ job[c].op = "init" /\ job[c].pc = "manager"
  /\ made' = made \cup {Store(c)}
  /\ Goto(c, "newValidator")
  /\ UNCHANGED <<genesis, keys>>

\* ... and that of output only looks whether they are there.  Asked for the
\* node id alone, output does not load the address.
OutputManager(c) ==
  /\ job[c].op = "output" /\ job[c].pc = "manager"
  /\ Store(c) \in made
  /\ Goto(c, IF "validator" \in job[c].asks THEN "address" ELSE "nodeID")
  /\ UNCHANGED <<genesis, made, keys>>

\* Mutant: a key is replaced.
Refuses_Never(s, k) == FALSE

\* A store refuses to replace a key.
Refuses(s, k) == keys[s][k] # NoKey

NewKey(c, k) ==
  /\ ~Refuses(Store(c), k)
  /\ keys' = [keys EXCEPT ![Store(c)][k] = c]

\* Mutant: the network key is made when the validator key is asked for.
InitKey_ByECDSA(c, k) ==
  IF "validator" \in job[c].asks THEN NewKey(c, k) ELSE UNCHANGED keys

\* initValidatorKey and initNetworkingKey: a key that the flags ask for.
InitKey(c, k) ==
  IF k \in job[c].asks THEN NewKey(c, k) ELSE UNCHANGED keys

InitValidatorKey(c) ==
  /\ job[c].pc = "newValidator"
  /\ InitKey(c, "validator")
  /\ Goto(c, "newNetwork")
  /\ UNCHANGED <<genesis, made>>

InitNetworkingKey(c) ==
  /\ job[c].pc = "newNetwork"
  /\ InitKey(c, "network")
  /\ Goto(c, "address")
  /\ UNCHANGED <<genesis, made>>

\* What a command shows of a key: a key that is missing shows as empty.
Tell(c, k) ==
  IF Held(c, k) = NoKey THEN {}
  ELSE {[store |-> Store(c), kind |-> k, key |-> Held(c, k)]}

\* LoadValidatorAddress; output ends here when only the address is asked for.
AfterAddress(j) ==
  IF j.op = "output" /\ "network" \notin j.asks THEN "ok" ELSE "nodeID"

LoadAddress(c) ==
  /\ job[c].pc = "address"
  /\ job' = [job EXCEPT ![c].told = @ \cup Tell(c, "validator"),
                        ![c].pc = AfterAddress(job[c])]
  /\ UNCHANGED <<genesis, made, keys>>

\* Mutant: the last store is not the end.
LoadNodeID_PastEnd(c) ==
  /\ job[c].pc = "nodeID"
  /\ job' = [job EXCEPT ![c].told = @ \cup Tell(c, "network"),
                        ![c].at = @ + 1, ![c].pc = "manager"]
  /\ UNCHANGED <<genesis, made, keys>>

\* LoadNodeID ends the round of a store; init goes on with the next one.
LoadNodeID(c) ==
  /\ job[c].pc = "nodeID"
  /\ LET last == job[c].at = Len(job[c].list)
     IN  job' = [job EXCEPT ![c].told = @ \cup Tell(c, "network"),
                            ![c].at = IF last THEN @ ELSE @ + 1,
                            ![c].pc = IF last THEN "ok" ELSE "manager"]
  /\ UNCHANGED <<genesis, made, keys>>

-----------------------------------------------------------------------------
(* server *)

\* Mutant: an unset part of a range stays unset.
InitPeerLimits_Unset(f) ==
  IF f.in # Unset \/ f.out # Unset
  THEN [max |-> f.in + f.out, in |-> f.in, out |-> f.out]
  ELSE [max |-> f.max, in |-> DefaultIn, out |-> DefaultOut]

\* initPeerLimits: a range wins, an unset part of it gets the default; a
\* maximum alone is shared out; without any flag the maximum stays unset.
InitPeerLimits(f) ==
  LET Or(limit, default) == IF limit = Unset THEN default ELSE limit
      in == Or(f.in, DefaultIn)
      out == Or(f.out, DefaultOut)
      dialled == f.max \div DialShare
  IN  IF f.in # Unset \/ f.out # Unset
      THEN [max |-> in + out, in |-> in, out |-> out]
      ELSE IF f.max # Unset
      THEN [max |-> f.max, in |-> f.max - dialled, out |-> dialled]
      ELSE [max |-> Unset, in |-> DefaultIn, out |-> DefaultOut]

\* Every address that was given parses, or one does not.
InitAddresses == BOOLEAN

\* initRawParams needs a genesis file that it can read, and then the addresses.
InitRawParams == IF genesis \in Nets THEN InitAddresses ELSE {FALSE}

\* runPreRun of server.
ServerPreRun(c, s, flags) ==
  /\ job[c].op = "none"
  /\ \E ok \in InitRawParams :
       job' = [job EXCEPT ![c] =
         IF ok
         THEN [Idle EXCEPT !.op = "server", !.list = <<s>>, !.at = 1,
                           !.net = genesis, !.flags = flags,
                           !.limits = InitPeerLimits(flags), !.pc = "manager"]
         ELSE [Idle EXCEPT !.op = "server", !.pc = "failed"]]
  /\ UNCHANGED <<genesis, made, keys>>

\* setupSecretsManager makes the directories as init does.
SetupSecretsManager(c) ==
  /\ job[c].op = "server" /\ job[c].pc = "manager"
  /\ made' = made \cup {Store(c)}
  /\ Goto(c, "libp2p")
  /\ UNCHANGED <<genesis, keys>>

\* The network takes its key from the store; without one it makes one, or it
\* fails (Fail).
StartNetwork(c) ==
  /\ job[c].pc = "libp2p"
  /\ IF Held(c, "network") = NoKey THEN NewKey(c, "network") ELSE UNCHANGED keys
  /\ job' = [job EXCEPT ![c].pc = "application",
                        ![c].told = {[store |-> Store(c), kind |-> "network",
                                      key |-> keys'[Store(c)]["network"]]}]
  /\ UNCHANGED <<genesis, made>>

\* Mutant: an endpoint without a key.
ValidatorSecret_Any(c) == TRUE

\* The application's endpoint needs the validator key, which nobody makes here.
ValidatorSecret(c) == Held(c, "validator") # NoKey

StartApplication(c) ==
  /\ job[c].pc = "application"
  /\ ValidatorSecret(c)
  /\ job' = [job EXCEPT ![c].pc = "running",
                        ![c].told = @ \cup Tell(c, "validator")]
  /\ UNCHANGED <<genesis, made, keys>>

StopServer(c) ==
  /\ job[c].pc = "running"
  /\ Exit(c, "ok")
  /\ UNCHANGED <<genesis, made, keys>>

-----------------------------------------------------------------------------
Begin(c) ==
  \/ \E net \in Nets : GenesisPreRun(c, net)
  \/ \E list \in StoreLists, asks \in SUBSET Kinds : InitPreRun(c, list, asks)
  \/ \E s \in Stores, asks \in (SUBSET Kinds) \ {{}} : OutputPreRun(c, s, asks)
  \/ \E s \in Stores, flags \in PeerFlags : ServerPreRun(c, s, flags)

Step(c) ==
  \/ Begin(c)
  \/ OpenGenesis(c)
  \/ WriteGenesis(c)
  \/ EndGenesis(c)
  \/ InitManager(c)
  \/ OutputManager(c)
  \/ InitValidatorKey(c)
  \/ InitNetworkingKey(c)
  \/ LoadAddress(c)
  \/ LoadNodeID(c)
  \/ SetupSecretsManager(c)
  \/ StartNetwork(c)
  \/ StartApplication(c)
  \/ StopServer(c)
  \/ Fail(c)

Next == \E c \in Cmds : Step(c)

Spec == Init /\ [][Next]_vars

-----------------------------------------------------------------------------
(* Properties. *)

Done(c, op) == job[c].op = op /\ job[c].pc = "ok"

\* What `secrets init` reports is done is done, and stays so: every store that
\* it went through holds the keys that it was asked for, they are of its own
\* making, and it has shown them, whatever other commands ran meanwhile
\* (secrets/init/secrets_init.go runCommand).
InitDelivers ==
  \A c \in Cmds : Done(c, "init") =>
    \A i \in 1 .. Len(job[c].list), k \in job[c].asks :
      LET s == job[c].list[i]
      IN  keys[s][k] = c /\ [store |-> s, kind |-> k, key |-> c] \in job[c].told

\* An init that failed stopped where it failed: the stores before are complete,
\* those after have no key of it (the return in runCommand's loop).
FailureStopsThere ==
  \A c \in Cmds : job[c].op = "init" /\ job[c].pc = "failed" =>
    \A i \in 1 .. Len(job[c].list), k \in Kinds :
      LET s == job[c].list[i]
      IN  /\ i > job[c].at => keys[s][k] # c
          /\ i < job[c].at /\ k \in job[c].asks => keys[s][k] = c

\* A node has one identity: whatever init shows, output shows or a server
\* starts with for a store, at any time and in any order, is the same key.
\* Genesis files and peers name nodes by it.
OneIdentity ==
  \A c, d \in Cmds : \A t \in job[c].told, u \in job[d].told :
    t.store = u.store /\ t.kind = u.kind => t.key = u.key

\* An output that is asked for keys that were there when it began shows all
\* that it was asked for, and nothing else (initSecrets and getResult of
\* secrets/output).
OutputShows ==
  \A c \in Cmds : Done(c, "output") /\ job[c].had =>
    {t.kind : t \in job[c].told} = job[c].asks

\* Whoever ends well has got what the command is for: init and output.
CommandsDeliver == InitDelivers /\ OutputShows

\* A running node has all that it needs: both keys, as its store holds them, and
\* a network that was in the genesis file.  That the keys were made in several
\* attempts, by init or by a server that failed, does not matter.
StartedWhole ==
  \A c \in Cmds : job[c].pc = "running" =>
    /\ job[c].net \in Nets
    /\ \A k \in Kinds : Held(c, k) # NoKey /\ Tell(c, k) \subseteq job[c].told

\* A running node is of the network that the genesis file is of, unless two
\* genesis commands overlapped: only commands that began without a file touch one
\* (genesis/params.go validateFlags, "Check if the genesis file already exists"),
\* whether they end well, fail or are killed.
RunsOnFile ==
  \A c \in Cmds : job[c].pc = "running" /\ job[c].net # genesis =>
    \E g, h \in Cmds :
      /\ g # h /\ job[g].op = "genesis" /\ job[h].op = "genesis"
      /\ job[g].wrote /\ ~job[g].had
      /\ job[h].wrote /\ ~job[h].had

Sound(limit) == limit = Unset \/ limit >= 0

\* The limits that a node starts with are those it was given: the parts add up
\* to a given maximum, a given part is kept, and unless a flag was negative no
\* part is unset and most of a given maximum is for those who dial this node
\* (command/server/init.go initPeerLimits).
LimitsHonoured ==
  \A c \in Cmds : job[c].op = "server" /\ job[c].pc \in Busy \cup {"running"} =>
    LET f == job[c].flags
        l == job[c].limits
    IN  /\ f.max # Unset => l.in + l.out = f.max
        /\ f.in # Unset => l.in = f.in
        /\ f.out # Unset => l.out = f.out
        /\ l.max # Unset => l.max = l.in + l.out
        /\ Sound(f.max) /\ Sound(f.in) /\ Sound(f.out) =>
             /\ l.in >= 0 /\ l.out >= 0
             /\ f.max # Unset => l.out <= l.in

===============================================================================
