-------------------------- MODULE ProvisioningProofs --------------------------
(***************************************************************************)
(* What the commands promise, for any number of commands, stores and       *)
(* networks.  OneIdentity is not inductive: Kept says why it holds, that a *)
(* store still holds every key that anyone was ever shown of it.  Placed   *)
(* is needed for the types: a command that works is at one of its stores.  *)
(* Course and FileCourse say how far each command has come, which the      *)
(* other promises follow from.                                             *)
(***************************************************************************)
EXTENDS Provisioning, SequenceTheorems, TLAPS

Jobs == [op : Ops, pc : Ended \cup Busy \cup {"running"},
         list : Seq(Stores), at : Nat, asks : SUBSET Kinds,
         net : Nets \cup {NoFile}, flags : Limits, limits : Limits,
         told : SUBSET Shown, had : BOOLEAN, wrote : BOOLEAN]

Working == (Busy \ {"checked", "opened", "written"}) \cup {"running"}

Fits(j) == j.at <= Len(j.list) /\ (j.pc \in Working => j.at >= 1)

Placed == \A c \in Cmds : Fits(job[c])

Kept ==
  \A c \in Cmds : \A t \in job[c].told : keys[t.store][t.kind] = t.key

Inv == TypeOK /\ Placed

-----------------------------------------------------------------------------
(* Data. *)

LEMMA IdleJob == Idle \in Jobs /\ Fits(Idle)
<1>1. <<>> \in Seq(Stores) /\ Len(<<>>) = 0
  OBVIOUS
<1> QED BY <1>1, StoresAssumption DEF Idle, Jobs, Fits, Working, Ops, Ended, Busy,
        NoLimits, Limits, Unset

LEMMA LimitsTyped ==
  ASSUME NEW f \in PeerFlags PROVE f \in Limits /\ InitPeerLimits(f) \in Limits
<1>1. f \in Limits
  BY PeersAssumption
<1>2. f.max \in Int /\ f.in \in Int /\ f.out \in Int
  BY <1>1 DEF Limits
<1>3. f.max \div DialShare \in Int
  BY <1>2, PeersAssumption
<1>4. InitPeerLimits(f) \in Limits
  BY <1>2, <1>3, PeersAssumption DEF InitPeerLimits, Limits, Unset
<1> QED BY <1>1, <1>4

LEMMA ListTyped ==
  ASSUME NEW list \in StoreLists PROVE list \in Seq(Stores) /\ Len(list) >= 1
<1>1. CASE \E s \in Stores : list = <<s>>
  BY <1>1
<1>2. CASE \E n \in 2 .. NStores : list = [i \in 1 .. n |-> i]
  <2>1. PICK n \in 2 .. NStores : list = [i \in 1 .. n |-> i]
    BY <1>2
  <2>2. n \in Nat /\ n >= 2 /\ n <= NStores
    BY <2>1, StoresAssumption
  <2>3. \A i \in 1 .. n : i \in Stores
    BY <2>2, StoresAssumption DEF Stores
  <2>4. list \in [1 .. n -> Stores]
    BY <2>1, <2>3
  <2> QED BY <2>2, <2>4
<1> QED BY <1>1, <1>2 DEF StoreLists

LEMMA StoreTyped ==
  ASSUME Inv, NEW c \in Cmds, job[c].pc \in Working
  PROVE  /\ job[c] \in Jobs
         /\ Store(c) \in Stores
         /\ \A k \in Kinds : Held(c, k) \in Keys
<1>1. job[c] \in Jobs /\ Fits(job[c])
  BY DEF Inv, TypeOK, Jobs, Placed
<1>2. job[c].at \in 1 .. Len(job[c].list) /\ job[c].list \in Seq(Stores)
  BY <1>1 DEF Jobs, Fits
<1>3. Store(c) \in Stores
  BY <1>2 DEF Store
<1> QED BY <1>1, <1>3 DEF Inv, TypeOK, Held

LEMMA TellTyped ==
  ASSUME Inv, NEW c \in Cmds, job[c].pc \in Working, NEW k \in Kinds
  PROVE  /\ Tell(c, k) \in SUBSET Shown
         /\ \A t \in Tell(c, k) : keys[t.store][t.kind] = t.key
<1>1. Store(c) \in Stores /\ Held(c, k) \in Keys
  BY StoreTyped
<1> QED BY <1>1, CommandsAssumption DEF Tell, Held, Shown, Keys

-----------------------------------------------------------------------------
(* A step of a command changes its own job and, at most, adds a key. *)

\* What every step does to the files, whoever takes it.
Change(c) ==
  /\ genesis' \in Files
  /\ made' \subseteq Stores
  /\ keys' \in [Stores -> [Kinds -> Keys]]
  /\ \A s \in Stores, k \in Kinds :
       keys[s][k] # NoKey => keys'[s][k] = keys[s][k]
  /\ \E j \in Jobs :
       /\ job' = [job EXCEPT ![c] = j]
       /\ Fits(j)
       /\ \A t \in j.told : t \in job[c].told \/ keys'[t.store][t.kind] = t.key

LEMMA GotoChange ==
  ASSUME Inv, NEW c \in Cmds, NEW pc \in Ended \cup Busy \cup {"running"},
         pc \in Working => job[c].pc \in Working,
         Goto(c, pc), genesis' \in Files, UNCHANGED keys, made' \subseteq Stores
  PROVE  Change(c)
<1> DEFINE j == [job[c] EXCEPT !.pc = pc]
<1>1. job[c] \in Jobs /\ Fits(job[c])
  BY DEF Inv, TypeOK, Jobs, Placed
<1>2. j \in Jobs /\ Fits(j) /\ j.told = job[c].told
  BY <1>1 DEF Jobs, Fits
<1>3. job' = [job EXCEPT ![c] = j]
  BY DEF Goto
<1> QED BY <1>2, <1>3 DEF Change, Inv, TypeOK

LEMMA ExitChange ==
  ASSUME Inv, NEW c \in Cmds, NEW pc \in {"ok", "failed"},
         Exit(c, pc), genesis' \in Files, UNCHANGED <<made, keys>>
  PROVE  Change(c)
<1> DEFINE j == [job[c] EXCEPT !.pc = pc, !.net = NoFile,
                               !.flags = NoLimits, !.limits = NoLimits]
<1>1. job[c] \in Jobs /\ Fits(job[c])
  BY DEF Inv, TypeOK, Jobs, Placed
<1>2. NoLimits \in Limits
  BY DEF NoLimits, Limits, Unset
<1>3. j \in Jobs /\ Fits(j) /\ j.told = job[c].told
  BY <1>1, <1>2 DEF Jobs, Fits, Working, Busy, Ended
<1>4. job' = [job EXCEPT ![c] = j]
  BY DEF Exit
<1> QED BY <1>3, <1>4 DEF Change, Inv, TypeOK

LEMMA OpenChange ==
  ASSUME Inv, NEW c \in Cmds, OpenGenesis(c)
  PROVE  Change(c)
<1> DEFINE j == [job[c] EXCEPT !.pc = "opened", !.wrote = TRUE]
<1>1. job[c] \in Jobs /\ Fits(job[c])
  BY DEF Inv, TypeOK, Jobs, Placed
<1>2. j \in Jobs /\ Fits(j) /\ j.told = job[c].told
  BY <1>1 DEF Jobs, Fits, Working, Busy
<1>3. job' = [job EXCEPT ![c] = j]
  BY DEF OpenGenesis
<1>4. genesis' \in Files /\ UNCHANGED <<made, keys>>
  BY DEF OpenGenesis, Files
<1> HIDE DEF j
<1> QED BY <1>2, <1>3, <1>4 DEF Change, Inv, TypeOK

\* A new key goes where there was none.
LEMMA NewKeyAdds ==
  ASSUME Inv, NEW c \in Cmds, job[c].pc \in Working, NEW k \in Kinds,
         NewKey(c, k) \/ UNCHANGED keys
  PROVE  /\ keys' \in [Stores -> [Kinds -> Keys]]
         /\ \A s \in Stores, l \in Kinds : keys[s][l] # NoKey => keys'[s][l] = keys[s][l]
         /\ NewKey(c, k) => keys'[Store(c)][k] = c
<1>1. Store(c) \in Stores
  BY StoreTyped
<1>2. keys \in [Stores -> [Kinds -> Keys]] /\ c \in Keys
  BY DEF Inv, TypeOK, Keys
<1> QED BY <1>1, <1>2 DEF NewKey, Refuses

LEMMA KeyChange ==
  ASSUME Inv, NEW c \in Cmds, job[c].pc \in Working, NEW k \in Kinds,
         NewKey(c, k) \/ UNCHANGED keys,
         Goto(c, "newNetwork") \/ Goto(c, "address"), UNCHANGED <<genesis, made>>
  PROVE  Change(c)
<1>1. PICK pc \in {"newNetwork", "address"} : Goto(c, pc)
  OBVIOUS
<1> DEFINE j == [job[c] EXCEPT !.pc = pc]
<1>2. job[c] \in Jobs /\ Fits(job[c])
  BY DEF Inv, TypeOK, Jobs, Placed
<1>3. j \in Jobs /\ Fits(j) /\ j.told = job[c].told
  BY <1>2 DEF Jobs, Fits, Busy
<1>4. job' = [job EXCEPT ![c] = j]
  BY <1>1 DEF Goto
<1>5. genesis' \in Files /\ made' \subseteq Stores
  BY DEF Inv, TypeOK
<1> HIDE DEF j
<1> QED BY <1>3, <1>4, <1>5, NewKeyAdds DEF Change

\* A command that begins has its own job of a kind, at its first store.
LEMMA BeginChange ==
  ASSUME Inv, NEW c \in Cmds, Begin(c) PROVE Change(c)
<1> SUFFICES ASSUME NEW j \in Jobs, Fits(j), j.told = {}, job' = [job EXCEPT ![c] = j]
             PROVE  Change(c)
  <2>0. UNCHANGED <<genesis, made, keys>>
    BY DEF Begin, GenesisPreRun, InitPreRun, OutputPreRun, ServerPreRun
  <2> SUFFICES \E j \in Jobs : Fits(j) /\ j.told = {} /\ job' = [job EXCEPT ![c] = j]
    OBVIOUS
  <2> USE IdleJob DEF Jobs, Fits
  <2>1. Idle.told = {} /\ Idle.at = 0
    BY DEF Idle
  <2>2. ASSUME NEW net \in Nets, GenesisPreRun(c, net)
        PROVE  \E j \in Jobs : Fits(j) /\ j.told = {} /\ job' = [job EXCEPT ![c] = j]
    <3> DEFINE j == [Idle EXCEPT !.op = "genesis", !.had = genesis # NoFile,
                      !.net = IF VerifyGenesisExistence THEN net ELSE NoFile,
                      !.pc = IF VerifyGenesisExistence THEN "checked" ELSE "failed"]
    <3>1. j \in Jobs /\ Fits(j) /\ j.told = {}
      BY <2>1 DEF Ops, Ended, Busy, Working
    <3> QED BY <2>2, <3>1 DEF GenesisPreRun
  <2>3. ASSUME NEW list \in StoreLists, NEW asks \in SUBSET Kinds, InitPreRun(c, list, asks)
        PROVE  \E j \in Jobs : Fits(j) /\ j.told = {} /\ job' = [job EXCEPT ![c] = j]
    <3> DEFINE j == [Idle EXCEPT !.op = "init", !.list = list, !.at = 1,
                                 !.asks = asks, !.pc = "manager"]
    <3>1. list \in Seq(Stores) /\ Len(list) >= 1
      BY ListTyped
    <3>2. j \in Jobs
      BY <3>1 DEF Ops, Busy
    <3>3. j.at = 1 /\ j.list = list /\ j.told = {}
      BY <2>1
    <3>4. Fits(j)
      BY <3>1, <3>3
    <3> HIDE DEF j
    <3> QED BY <2>3, <3>2, <3>3, <3>4 DEF InitPreRun, j
  <2>4. ASSUME NEW s \in Stores, NEW asks \in (SUBSET Kinds) \ {{}}, OutputPreRun(c, s, asks)
        PROVE  \E j \in Jobs : Fits(j) /\ j.told = {} /\ job' = [job EXCEPT ![c] = j]
    <3> DEFINE j == [Idle EXCEPT !.op = "output", !.list = <<s>>, !.at = 1,
                                 !.asks = asks, !.had = Whole(s), !.pc = "manager"]
    <3>1. <<s>> \in Seq(Stores) /\ Len(<<s>>) = 1
      OBVIOUS
    <3>2. Whole(s) \in BOOLEAN
      BY DEF Whole
    <3>3. j \in Jobs
      BY <3>1, <3>2 DEF Ops, Busy
    <3>4. j.at = 1 /\ j.list = <<s>> /\ j.told = {}
      BY <2>1
    <3>5. Fits(j)
      BY <3>1, <3>4
    <3> HIDE DEF j
    <3> QED BY <2>4, <3>3, <3>4, <3>5 DEF OutputPreRun, j
  <2>5. ASSUME NEW s \in Stores, NEW flags \in PeerFlags, ServerPreRun(c, s, flags)
        PROVE  \E j \in Jobs : Fits(j) /\ j.told = {} /\ job' = [job EXCEPT ![c] = j]
    <3> DEFINE started == [Idle EXCEPT !.op = "server", !.list = <<s>>, !.at = 1,
                                 !.net = genesis, !.flags = flags,
                                 !.limits = InitPeerLimits(flags), !.pc = "manager"]
               failed == [Idle EXCEPT !.op = "server", !.pc = "failed"]
    <3>1. <<s>> \in Seq(Stores) /\ Len(<<s>>) = 1
      OBVIOUS
    <3>2. InitPeerLimits(flags) \in Limits /\ flags \in Limits
      BY LimitsTyped
    <3>3. ASSUME genesis \in Nets
          PROVE  started \in Jobs /\ Fits(started) /\ started.told = {}
      <4>1. started \in Jobs
        BY <3>1, <3>2, <3>3 DEF Ops, Busy
      <4>2. started.at = 1 /\ started.list = <<s>> /\ started.told = {}
        BY <2>1
      <4> QED BY <4>1, <4>2, <3>1
    <3>4. failed \in Jobs /\ Fits(failed) /\ failed.told = {}
      <4>1. failed \in Jobs
        BY DEF Ops, Ended
      <4>2. failed.at = 0 /\ failed.list = Idle.list /\ failed.told = {} /\ failed.pc = "failed"
        BY <2>1
      <4>3. "failed" \notin Working
        BY DEF Working, Busy
      <4> QED BY <4>1, <4>2, <4>3, <2>1
    <3>5. \/ genesis \in Nets /\ job' = [job EXCEPT ![c] = started]
          \/ job' = [job EXCEPT ![c] = failed]
      BY <2>5 DEF ServerPreRun, InitRawParams
    <3> QED BY <3>3, <3>4, <3>5
  <2> QED BY <2>2, <2>3, <2>4, <2>5 DEF Begin
<1>1. UNCHANGED <<genesis, made, keys>>
  BY DEF Begin, GenesisPreRun, InitPreRun, OutputPreRun, ServerPreRun
<1> QED BY <1>1 DEF Change, Inv, TypeOK

\* What a command is shown of a key, the store holds.
LEMMA LoadChange ==
  ASSUME Inv, NEW c \in Cmds, job[c].pc \in Working,
         LoadAddress(c) \/ LoadNodeID(c) \/ StartApplication(c)
  PROVE  Change(c)
<1> SUFFICES \E j \in Jobs : /\ Fits(j)
                            /\ job' = [job EXCEPT ![c] = j]
                            /\ \A t \in j.told : t \in job[c].told \/ keys[t.store][t.kind] = t.key
  BY DEF Change, Inv, TypeOK, LoadAddress, LoadNodeID, StartApplication
<1>1. job[c] \in Jobs /\ Fits(job[c])
  BY DEF Inv, TypeOK, Jobs, Placed
<1>2. \A k \in Kinds : /\ Tell(c, k) \in SUBSET Shown
                      /\ \A t \in Tell(c, k) : keys[t.store][t.kind] = t.key
  BY TellTyped
<1>3. "validator" \in Kinds /\ "network" \in Kinds
  BY DEF Kinds
<1>4. CASE LoadAddress(c)
  <2> DEFINE j == [job[c] EXCEPT !.told = @ \cup Tell(c, "validator"),
                                 !.pc = AfterAddress(job[c])]
  <2>1. AfterAddress(job[c]) \in {"ok", "nodeID"}
    BY DEF AfterAddress
  <2>2. j \in Jobs /\ j.told = job[c].told \cup Tell(c, "validator")
    BY <1>1, <1>2, <1>3, <2>1 DEF Jobs, Ended, Busy
  <2>3. Fits(j)
    BY <1>1, <2>1 DEF Fits, Jobs
  <2>4. job' = [job EXCEPT ![c] = j]
    BY <1>4 DEF LoadAddress
  <2> QED BY <1>2, <1>3, <2>2, <2>3, <2>4
<1>5. CASE LoadNodeID(c)
  <2> DEFINE last == job[c].at = Len(job[c].list)
             j == [job[c] EXCEPT !.told = @ \cup Tell(c, "network"),
                                 !.at = IF last THEN @ ELSE @ + 1,
                                 !.pc = IF last THEN "ok" ELSE "manager"]
  <2>1. job[c].at \in Nat /\ Len(job[c].list) \in Nat /\ job[c].at <= Len(job[c].list)
    BY <1>1 DEF Jobs, Fits
  <2>2. j \in Jobs /\ j.told = job[c].told \cup Tell(c, "network")
    <3>1. CASE last
      BY <1>1, <1>2, <1>3, <2>1, <3>1 DEF Jobs, Ended
    <3>2. CASE ~last
      <4>1. job[c].at + 1 \in Nat
        BY <2>1
      <4>2. j = [job[c] EXCEPT !.told = @ \cup Tell(c, "network"),
                               !.at = job[c].at + 1, !.pc = "manager"]
        BY <3>2
      <4> HIDE DEF j
      <4> QED BY <1>1, <1>2, <1>3, <4>1, <4>2 DEF Jobs, Busy
    <3> QED BY <3>1, <3>2
  <2>3. Fits(j)
    <3>1. /\ j.list = job[c].list
          /\ j.at = IF last THEN job[c].at ELSE job[c].at + 1
          /\ j.pc = IF last THEN "ok" ELSE "manager"
      BY <1>1 DEF Jobs
    <3>2. "ok" \notin Working
      BY DEF Working, Busy
    <3> QED BY <2>1, <3>1, <3>2 DEF Fits
  <2>4. job' = [job EXCEPT ![c] = j]
    BY <1>5 DEF LoadNodeID
  <2> QED BY <1>2, <1>3, <2>2, <2>3, <2>4
<1>6. CASE StartApplication(c)
  <2> DEFINE j == [job[c] EXCEPT !.told = @ \cup Tell(c, "validator"), !.pc = "running"]
  <2>1. j \in Jobs /\ j.told = job[c].told \cup Tell(c, "validator")
    BY <1>1, <1>2, <1>3 DEF Jobs
  <2>2. Fits(j)
    BY <1>1 DEF Fits, Jobs
  <2>3. job' = [job EXCEPT ![c] = j]
    BY <1>6 DEF StartApplication
  <2> QED BY <1>2, <1>3, <2>1, <2>2, <2>3
<1> QED BY <1>4, <1>5, <1>6

\* The network starts with the key that the store holds then.
LEMMA NetworkChange ==
  ASSUME Inv, NEW c \in Cmds, StartNetwork(c) PROVE Change(c)
<1> DEFINE t == [store |-> Store(c), kind |-> "network", key |-> keys'[Store(c)]["network"]]
           j == [job[c] EXCEPT !.pc = "application", !.told = {t}]
<1>1. job[c].pc \in Working
  BY DEF StartNetwork, Working, Busy
<1>2. job[c] \in Jobs /\ Fits(job[c])
  BY DEF Inv, TypeOK, Jobs, Placed
<1>3. Store(c) \in Stores /\ Held(c, "network") \in Keys /\ "network" \in Kinds
  BY <1>1, StoreTyped DEF Kinds
<1>4. /\ keys' \in [Stores -> [Kinds -> Keys]]
      /\ \A s \in Stores, k \in Kinds : keys[s][k] # NoKey => keys'[s][k] = keys[s][k]
      /\ NewKey(c, "network") => keys'[Store(c)]["network"] = c
  BY <1>1, <1>3, NewKeyAdds DEF StartNetwork
<1>5. keys'[Store(c)]["network"] \in Cmds
  <2>1. CASE Held(c, "network") = NoKey
    BY <2>1, <1>4 DEF StartNetwork
  <2>2. CASE Held(c, "network") # NoKey
    BY <2>2, <1>3 DEF StartNetwork, Held, Keys
  <2> QED BY <2>1, <2>2
<1>6. t \in Shown
  BY <1>3, <1>5 DEF Shown
<1>7. j \in Jobs /\ j.told = {t}
  BY <1>2, <1>6 DEF Jobs, Busy
<1>8. Fits(j)
  BY <1>1, <1>2 DEF Fits, Jobs
<1>9. job' = [job EXCEPT ![c] = j]
  BY DEF StartNetwork
<1>10. keys'[t.store][t.kind] = t.key
  OBVIOUS
<1>11. genesis' \in Files /\ made' \subseteq Stores
  BY DEF StartNetwork, Inv, TypeOK
<1> HIDE DEF t, j
<1> QED BY <1>4, <1>7, <1>8, <1>9, <1>10, <1>11 DEF Change

LEMMA StepChange ==
  ASSUME Inv, NEW c \in Cmds, Step(c) PROVE Change(c)
<1> USE DEF Ended, Busy, Working
<1>0. genesis \in Files /\ made \subseteq Stores
  BY DEF Inv, TypeOK
<1>1. CASE Begin(c)
  BY <1>1, BeginChange
<1>2. CASE OpenGenesis(c) \/ WriteGenesis(c)
  <2>1. job[c] \in Jobs
    BY DEF Inv, TypeOK, Jobs
  <2>2. WriteGenesis(c) => genesis' \in Files
    BY <2>1 DEF WriteGenesis, Jobs, Files
  <2>3. WriteGenesis(c) => Change(c)
    BY <1>0, <2>2, GotoChange DEF WriteGenesis
  <2> QED BY <1>2, <2>3, OpenChange
<1>3. CASE InitManager(c) \/ SetupSecretsManager(c)
  <2>1. job[c].pc \in Working
    BY <1>3 DEF InitManager, SetupSecretsManager
  <2>2. made' \subseteq Stores
    BY <1>0, <1>3, <2>1, StoreTyped DEF InitManager, SetupSecretsManager
  <2> QED BY <1>0, <1>3, <2>1, <2>2, GotoChange DEF InitManager, SetupSecretsManager
<1>4. CASE OutputManager(c)
  <2>1. job[c].pc \in Working /\ UNCHANGED <<genesis, made, keys>>
    BY <1>4 DEF OutputManager
  <2>2. Goto(c, "address") \/ Goto(c, "nodeID")
    BY <1>4 DEF OutputManager
  <2> QED BY <1>0, <2>1, <2>2, GotoChange
<1>5. CASE InitValidatorKey(c)
  <2>1. job[c].pc \in Working
    BY <1>5 DEF InitValidatorKey
  <2> QED BY <1>5, <2>1, KeyChange DEF InitValidatorKey, InitKey, Kinds
<1>6. CASE InitNetworkingKey(c)
  <2>1. job[c].pc \in Working
    BY <1>6 DEF InitNetworkingKey
  <2> QED BY <1>6, <2>1, KeyChange DEF InitNetworkingKey, InitKey, Kinds
<1>7. CASE LoadAddress(c) \/ LoadNodeID(c) \/ StartApplication(c)
  <2>1. job[c].pc \in Working
    BY <1>7 DEF LoadAddress, LoadNodeID, StartApplication
  <2> QED BY <1>7, <2>1, LoadChange
<1>8. CASE StartNetwork(c)
  BY <1>8, NetworkChange
<1>9. CASE EndGenesis(c) \/ StopServer(c) \/ Fail(c)
  BY <1>0, <1>9, ExitChange DEF EndGenesis, StopServer, Fail
<1> QED BY <1>1, <1>2, <1>3, <1>4, <1>5, <1>6, <1>7, <1>8, <1>9 DEF Step

\* Whatever changes like that keeps the types, and what was shown.
LEMMA ChangeKeeps ==
  ASSUME Inv, NEW c \in Cmds, Change(c)
  PROVE  Inv' /\ (Kept => Kept')
<1>1. PICK j \in Jobs : /\ job' = [job EXCEPT ![c] = j]
                       /\ Fits(j)
                       /\ \A t \in j.told : \/ t \in job[c].told
                                           \/ keys'[t.store][t.kind] = t.key
  BY DEF Change
<1>2. job \in [Cmds -> Jobs] /\ \A d \in Cmds : Fits(job[d])
  BY DEF Inv, TypeOK, Placed, Jobs
<1>3. job' \in [Cmds -> Jobs] /\ \A d \in Cmds : job'[d] = IF d = c THEN j ELSE job[d]
  BY <1>1, <1>2
<1>4. \A d \in Cmds : Fits(job'[d])
  BY <1>1, <1>2, <1>3
<1>5. Inv'
  <2>1. \A d \in Cmds : job'[d].at <= Len(job'[d].list)
    BY <1>4 DEF Fits
  <2> QED BY <1>3, <1>4, <2>1 DEF Change, Inv, TypeOK, Placed, Jobs
<1>6. ASSUME Kept PROVE Kept'
  <2> SUFFICES ASSUME NEW d \in Cmds, NEW t \in job'[d].told
               PROVE  keys'[t.store][t.kind] = t.key
    BY DEF Kept
  <2>1. CASE t \in job[d].told
    <3>1. t.store \in Stores /\ t.kind \in Kinds /\ t.key # NoKey
      BY <1>2, <2>1, CommandsAssumption DEF Jobs, Shown
    <3>2. keys[t.store][t.kind] = t.key
      BY <1>6, <2>1 DEF Kept
    <3> QED BY <3>1, <3>2 DEF Change
  <2>2. CASE t \notin job[d].told
    BY <1>1, <1>3, <2>2
  <2> QED BY <2>1, <2>2
<1> QED BY <1>5, <1>6

-----------------------------------------------------------------------------
LEMMA InvStarts == Init => Inv
<1> SUFFICES ASSUME Init PROVE Inv
  OBVIOUS
<1>1. job \in [Cmds -> Jobs] /\ \A c \in Cmds : Fits(job[c])
  BY IdleJob DEF Init
<1>2. keys \in [Stores -> [Kinds -> Keys]]
  BY DEF Init, Keys
<1>3. genesis \in Files /\ made \subseteq Stores
  BY DEF Init, Files
<1> QED BY <1>1, <1>2, <1>3 DEF Inv, TypeOK, Placed, Jobs, Fits

LEMMA InvHolds == Spec => []Inv
<1>1. Inv /\ [Next]_vars => Inv'
  <2> SUFFICES ASSUME Inv, [Next]_vars PROVE Inv'
    OBVIOUS
  <2>1. CASE Next
    BY <2>1, StepChange, ChangeKeeps DEF Next
  <2>2. CASE UNCHANGED vars
    BY <2>2 DEF vars, Inv, TypeOK, Placed, Fits
  <2> QED BY <2>1, <2>2
<1> QED BY InvStarts, <1>1, PTL DEF Spec

\* The types of Provisioning's state hold in every behaviour: no command works
\* at a store beyond its list.
THEOREM TypeCorrect == Spec => []TypeOK
BY InvHolds, PTL DEF Inv

\* A node has one identity, whatever commands ran, overlapped and failed: all
\* that init, output or a server ever show of a store's key is the same key.
THEOREM IdentityIsOne == Spec => []OneIdentity
<1>1. Init => Kept
  BY DEF Init, Idle, Kept
<1>2. Inv /\ Kept /\ [Next]_vars => Kept'
  <2> SUFFICES ASSUME Inv, Kept, [Next]_vars PROVE Kept'
    OBVIOUS
  <2>1. CASE Next
    BY <2>1, StepChange, ChangeKeeps DEF Next
  <2>2. CASE UNCHANGED vars
    BY <2>2 DEF vars, Kept
  <2> QED BY <2>1, <2>2
<1>3. Kept => OneIdentity
  BY DEF Kept, OneIdentity
<1> QED BY <1>1, <1>2, <1>3, InvHolds, PTL DEF Spec


-----------------------------------------------------------------------------
(* How far a command has come. *)

\* A command that has not begun has made no key, and each kind has its stages.
Stages(c) ==
  /\ job[c].op = "none" => job[c].pc = "idle" /\ \A s \in Stores, k \in Kinds : keys[s][k] # c
  /\ job[c].op = "genesis" => job[c].pc \in {"checked", "opened", "written", "ok", "failed"}
  /\ job[c].op = "init" =>
       job[c].pc \in {"manager", "newValidator", "newNetwork", "address", "nodeID", "ok", "failed"}
  /\ job[c].op = "output" => job[c].pc \in {"manager", "address", "nodeID", "ok", "failed"}
  /\ job[c].op = "server" =>
       job[c].pc \in {"manager", "libp2p", "application", "running", "ok", "failed"}

\* What a command has shown of its i-th store.
Told(c, i, k) ==
  [store |-> job[c].list[i], kind |-> k, key |-> keys[job[c].list[i]][k]] \in job[c].told

\* The i-th store of an init holds a key of its making.
Made(c, i, k) == keys[job[c].list[i]][k] = c

\* The stores before are done, those after untouched.
InitBase(c) ==
  job[c].op = "init" =>
    /\ job[c].at \in 1 .. Len(job[c].list)
    /\ \A i, l \in 1 .. Len(job[c].list) : job[c].list[i] = job[c].list[l] => i = l
    /\ \A i \in 1 .. Len(job[c].list), k \in Kinds : i > job[c].at => ~Made(c, i, k)
    /\ \A i \in 1 .. Len(job[c].list), k \in job[c].asks :
         i < job[c].at => Made(c, i, k) /\ Told(c, i, k)

\* What an init has done of the store it is at.
InitHere(c) ==
  job[c].op = "init" =>
    /\ job[c].pc \in {"newNetwork", "address", "nodeID", "ok"} /\ "validator" \in job[c].asks
       => Made(c, job[c].at, "validator")
    /\ job[c].pc \in {"address", "nodeID", "ok"} /\ "network" \in job[c].asks
       => Made(c, job[c].at, "network")
    /\ job[c].pc \in {"nodeID", "ok"} /\ "validator" \in job[c].asks
       => Told(c, job[c].at, "validator")
    /\ job[c].pc = "ok" =>
         /\ job[c].at = Len(job[c].list)
         /\ "network" \in job[c].asks => Told(c, job[c].at, "network")

\* The kinds of the keys that were shown.
KindsOf(told) == {t.kind : t \in told}

OutputCourse(c) ==
  job[c].op = "output" =>
    /\ Len(job[c].list) = 1 /\ job[c].at = 1 /\ job[c].asks # {}
    /\ job[c].had => Whole(Store(c))
    /\ job[c].pc \in {"manager", "address"} => job[c].told = {}
    /\ job[c].pc = "address" => "validator" \in job[c].asks
    /\ job[c].pc = "nodeID" =>
         /\ "network" \in job[c].asks
         /\ job[c].had => KindsOf(job[c].told) = job[c].asks \cap {"validator"}
    /\ job[c].pc = "ok" /\ job[c].had => KindsOf(job[c].told) = job[c].asks

ServerCourse(c) ==
  job[c].op = "server" /\ job[c].pc \in {"manager", "libp2p", "application", "running"} =>
    /\ job[c].net \in Nets
    /\ job[c].flags \in PeerFlags /\ job[c].limits = InitPeerLimits(job[c].flags)
    /\ job[c].pc \in {"application", "running"} =>
         Held(c, "network") # NoKey /\ Told(c, job[c].at, "network")
    /\ job[c].pc = "running" =>
         Held(c, "validator") # NoKey /\ Told(c, job[c].at, "validator")

\* The command opened the genesis file to write it, having found none.
Wrote(c) == job[c].op = "genesis" /\ job[c].wrote /\ ~job[c].had

\* A genesis command that is about to open the file found none: if there is one
\* by now, another has opened it.  One that is about to write it finds it empty,
\* or another has opened it too.  If a server's file was replaced, two have.
FileCourse(c) ==
  /\ job[c].op = "genesis" /\ job[c].pc = "checked" =>
       /\ ~job[c].had /\ ~job[c].wrote /\ job[c].net \in Nets
       /\ genesis # NoFile => \E h \in Cmds : Wrote(h)
  /\ job[c].op = "genesis" /\ job[c].pc = "opened" =>
       /\ Wrote(c) /\ job[c].net \in Nets
       /\ genesis = EmptyFile \/ \E h \in Cmds : h # c /\ Wrote(h)
  /\ job[c].op = "server" /\ job[c].pc \in {"manager", "libp2p", "application", "running"} =>
       genesis # NoFile /\ (job[c].net # genesis => \E g, h \in Cmds : g # h /\ Wrote(g) /\ Wrote(h))

Course(c) == Stages(c) /\ InitBase(c) /\ InitHere(c) /\ OutputCourse(c) /\ ServerCourse(c)

CourseInv == Inv /\ \A c \in Cmds : Course(c) /\ FileCourse(c)

\* What a step does to the keys, and what it leaves to the others.
Grown(c) ==
  \A s \in Stores, k \in Kinds :
    keys'[s][k] = keys[s][k] \/ (keys[s][k] = NoKey /\ keys'[s][k] = c)

LEMMA StepGrows ==
  ASSUME Inv, NEW c \in Cmds, Step(c)
  PROVE  Grown(c) /\ \A d \in Cmds \ {c} : job'[d] = job[d]
<1>1. \A d \in Cmds \ {c} : job'[d] = job[d]
  <2>1. Change(c)
    BY StepChange
  <2> QED BY <2>1 DEF Change, Inv, TypeOK
<1>2. ASSUME NEW k \in Kinds, job[c].pc \in Working, NewKey(c, k) PROVE Grown(c)
  <2>1. Store(c) \in Stores /\ keys \in [Stores -> [Kinds -> Keys]]
    BY <1>2, StoreTyped DEF Inv, TypeOK
  <2> QED BY <1>2, <2>1 DEF NewKey, Refuses, Grown
<1>3. ASSUME UNCHANGED keys PROVE Grown(c)
  BY <1>3 DEF Grown
<1>4. Grown(c)
  <2>1. CASE InitValidatorKey(c) \/ InitNetworkingKey(c) \/ StartNetwork(c)
    <3>1. job[c].pc \in Working
      BY <2>1 DEF InitValidatorKey, InitNetworkingKey, StartNetwork, Working, Busy
    <3> QED BY <1>2, <1>3, <2>1, <3>1
            DEF InitValidatorKey, InitNetworkingKey, StartNetwork, InitKey, Kinds
  <2>2. CASE Begin(c)
    BY <1>3, <2>2 DEF Begin, GenesisPreRun, InitPreRun, OutputPreRun, ServerPreRun
  <2> QED BY <1>3, <2>1, <2>2 DEF Step, OpenGenesis, WriteGenesis, EndGenesis, InitManager, OutputManager,
          LoadAddress, LoadNodeID, SetupSecretsManager, StartApplication, StopServer, Fail
<1> QED BY <1>1, <1>4

\* The types that the stages speak of.
LEMMA JobTyped ==
  ASSUME Inv, NEW c \in Cmds
  PROVE  /\ job[c] \in Jobs /\ Fits(job[c])
         /\ \A i \in 1 .. Len(job[c].list) : job[c].list[i] \in Stores
         /\ \A t \in job[c].told : t \in Shown /\ t.key # NoKey
<1>1. job[c] \in Jobs /\ Fits(job[c])
  BY DEF Inv, TypeOK, Jobs, Placed
<1> QED BY <1>1, CommandsAssumption DEF Jobs, Shown

\* A step of c leaves how far the others have come.
LEMMA OthersCourse ==
  ASSUME Inv, NEW c \in Cmds, Step(c), NEW d \in Cmds \ {c}, Course(d)
  PROVE  Course(d)'
<1>1. job'[d] = job[d] /\ Grown(c)
  BY StepGrows
<1>2. \A s \in Stores, k \in Kinds :
        /\ keys'[s][k] = d <=> keys[s][k] = d
        /\ keys[s][k] # NoKey => keys'[s][k] = keys[s][k]
  BY <1>1, CommandsAssumption DEF Grown
<1>3. /\ \A i \in 1 .. Len(job[d].list) : job[d].list[i] \in Stores
      /\ \A t \in job[d].told : t.key # NoKey
      /\ job[d].asks \subseteq Kinds
  BY JobTyped DEF Jobs
<1>4. \A i \in 1 .. Len(job[d].list), k \in Kinds :
        /\ Made(d, i, k)' <=> Made(d, i, k)
        /\ Told(d, i, k) => Told(d, i, k)'
  <2> SUFFICES ASSUME NEW i \in 1 .. Len(job[d].list), NEW k \in Kinds
               PROVE  /\ Made(d, i, k)' <=> Made(d, i, k)
                      /\ Told(d, i, k) => Told(d, i, k)'
    OBVIOUS
  <2>1. job[d].list[i] \in Stores
    BY <1>3
  <2>2. Told(d, i, k) => keys[job[d].list[i]][k] # NoKey
    BY <1>3 DEF Told
  <2> QED BY <1>1, <1>2, <2>1, <2>2 DEF Made, Told
<1>5. "validator" \in Kinds /\ "network" \in Kinds
  BY DEF Kinds
<1>6. Stages(d)'
  BY <1>1, <1>2 DEF Course, Stages
<1>7. InitBase(d)'
  BY <1>1, <1>3, <1>4 DEF Course, InitBase
<1>8. InitHere(d)'
  BY <1>1, <1>4, <1>5 DEF Course, InitHere, InitBase
<1>9. job[d].op = "output" => OutputCourse(d)'
  <2> SUFFICES ASSUME job[d].op = "output" PROVE OutputCourse(d)'
    OBVIOUS
  <2>1. Store(d) \in Stores /\ Store(d)' = Store(d)
    BY <1>1, <1>3 DEF Course, OutputCourse, Store
  <2>2. Whole(Store(d)) => Whole(Store(d))'
    BY <1>2, <2>1 DEF Whole
  <2> QED BY <1>1, <2>2 DEF Course, OutputCourse
<1>10. OutputCourse(d)'
  BY <1>1, <1>9 DEF OutputCourse
<1>11. ServerCourse(d)'
  <2> SUFFICES ASSUME job[d].op = "server",
                      job[d].pc \in {"manager", "libp2p", "application", "running"}
               PROVE  ServerCourse(d)'
    BY <1>1 DEF ServerCourse
  <2>1. job[d].at \in 1 .. Len(job[d].list)
    BY JobTyped DEF Fits, Working, Busy, Jobs
  <2>2. Store(d) \in Stores /\ Store(d)' = Store(d)
    BY <1>1, <1>3, <2>1 DEF Store
  <2>3. \A k \in Kinds : Held(d, k) # NoKey => Held(d, k)' # NoKey
    BY <1>2, <2>2 DEF Held
  <2> QED BY <1>1, <1>4, <1>5, <2>1, <2>3 DEF Course, ServerCourse
<1> QED BY <1>6, <1>7, <1>8, <1>10, <1>11 DEF Course


-----------------------------------------------------------------------------
(* A step of a command takes its own course further. *)

\* The fields that Goto and Exit leave.
Rest(c) ==
  /\ job'[c].op = job[c].op /\ job'[c].list = job[c].list /\ job'[c].at = job[c].at
  /\ job'[c].asks = job[c].asks /\ job'[c].told = job[c].told /\ job'[c].had = job[c].had
  /\ job'[c].wrote = job[c].wrote

LEMMA GotoFields ==
  ASSUME Inv, NEW c \in Cmds, NEW pc, Goto(c, pc)
  PROVE  /\ job'[c].pc = pc /\ Rest(c) /\ job'[c].net = job[c].net
         /\ job'[c].flags = job[c].flags /\ job'[c].limits = job[c].limits
<1>1. job[c] \in Jobs /\ job'[c] = [job[c] EXCEPT !.pc = pc]
  BY JobTyped DEF Goto, Inv, TypeOK
<1> QED BY <1>1 DEF Jobs, Rest

LEMMA ExitFields ==
  ASSUME Inv, NEW c \in Cmds, NEW pc, Exit(c, pc)
  PROVE  job'[c].pc = pc /\ Rest(c)
<1>1. /\ job[c] \in Jobs
      /\ job'[c] = [job[c] EXCEPT !.pc = pc, !.net = NoFile,
                                  !.flags = NoLimits, !.limits = NoLimits]
  BY JobTyped DEF Exit, Inv, TypeOK
<1> QED BY <1>1 DEF Jobs, Rest

LEMMA ListDistinct ==
  ASSUME NEW list \in StoreLists
  PROVE  \A i, l \in 1 .. Len(list) : list[i] = list[l] => i = l
<1>1. CASE \E s \in Stores : list = <<s>>
  BY <1>1
<1>2. CASE \E n \in 2 .. NStores : list = [i \in 1 .. n |-> i]
  <2>1. PICK n \in 2 .. NStores : list = [i \in 1 .. n |-> i]
    BY <1>2
  <2>2. n \in Nat
    BY <2>1, StoresAssumption
  <2>3. Len(list) = n
    BY <2>1, <2>2
  <2> QED BY <2>1, <2>3
<1> QED BY <1>1, <1>2 DEF StoreLists

\* New keys of c are in the store where it is.
GrownHere(c) ==
  \A s \in Stores, k \in Kinds :
    \/ keys'[s][k] = keys[s][k]
    \/ keys[s][k] = NoKey /\ keys'[s][k] = c /\ s = Store(c)

\* What an init has made and shown stays, and what it has not come to as well.
LEMMA BaseKept ==
  ASSUME Inv, NEW c \in Cmds, InitBase(c), GrownHere(c),
         job'[c].op = job[c].op, job'[c].list = job[c].list, job'[c].at = job[c].at,
         job'[c].asks = job[c].asks, job[c].told \subseteq job'[c].told
  PROVE  /\ InitBase(c)'
         /\ \A i \in 1 .. Len(job[c].list), k \in Kinds :
              (Made(c, i, k) => Made(c, i, k)') /\ (Told(c, i, k) => Told(c, i, k)')
<1>1. /\ \A i \in 1 .. Len(job[c].list) : job[c].list[i] \in Stores
      /\ \A t \in job[c].told : t.key # NoKey
      /\ job[c].asks \subseteq Kinds
  BY JobTyped DEF Jobs
<1>2. \A s \in Stores, k \in Kinds : /\ keys[s][k] # NoKey => keys'[s][k] = keys[s][k]
                                     /\ s # Store(c) => keys'[s][k] = keys[s][k]
  BY DEF GrownHere
<1>3. \A i \in 1 .. Len(job[c].list), k \in Kinds :
        (Made(c, i, k) => Made(c, i, k)') /\ (Told(c, i, k) => Told(c, i, k)')
  <2> SUFFICES ASSUME NEW i \in 1 .. Len(job[c].list), NEW k \in Kinds
               PROVE  (Made(c, i, k) => Made(c, i, k)') /\ (Told(c, i, k) => Told(c, i, k)')
    OBVIOUS
  <2>1. job[c].list[i] \in Stores
    BY <1>1
  <2>2. Told(c, i, k) => keys[job[c].list[i]][k] # NoKey
    BY <1>1 DEF Told
  <2> QED BY <1>2, <2>1, <2>2, CommandsAssumption DEF Made, Told
<1>4. InitBase(c)'
  <2> SUFFICES ASSUME job[c].op = "init" PROVE InitBase(c)'
    BY DEF InitBase
  <2>1. ASSUME NEW i \in 1 .. Len(job[c].list), NEW k \in Kinds, i > job[c].at
        PROVE  ~Made(c, i, k)'
    <3>1. /\ job[c].at \in 1 .. Len(job[c].list) /\ ~Made(c, i, k)
          /\ job[c].list[i] = job[c].list[job[c].at] => i = job[c].at
      BY <2>1 DEF InitBase
    <3>2. job[c].at \in Nat /\ i # job[c].at
      BY <2>1, JobTyped DEF Jobs
    <3>3. job[c].list[i] # Store(c)
      BY <3>1, <3>2 DEF Store
    <3> QED BY <1>1, <1>2, <3>1, <3>3 DEF Made
  <2> QED BY <1>1, <1>3, <2>1 DEF InitBase
<1> QED BY <1>3, <1>4

LEMMA CourseBegins ==
  ASSUME Inv, NEW c \in Cmds, Course(c), Begin(c)
  PROVE  Course(c)'
<1>1. UNCHANGED keys /\ job[c].op = "none"
  BY DEF Begin, GenesisPreRun, InitPreRun, OutputPreRun, ServerPreRun
<1>2. \A s \in Stores, k \in Kinds : keys'[s][k] # c
  BY <1>1 DEF Course, Stages
<1>3. job \in [Cmds -> Jobs]
  BY DEF Inv, TypeOK, Jobs
<1>4. ASSUME NEW net \in Nets, GenesisPreRun(c, net) PROVE Course(c)'
  <2>1. job'[c].op = "genesis" /\ job'[c].pc \in {"checked", "failed"}
    BY <1>3, <1>4 DEF GenesisPreRun, Idle
  <2> QED BY <2>1 DEF Course, Stages, InitBase, InitHere, OutputCourse, ServerCourse
<1>5. ASSUME NEW list \in StoreLists, NEW asks \in SUBSET Kinds, InitPreRun(c, list, asks)
      PROVE  Course(c)'
  <2>1. /\ job'[c].op = "init" /\ job'[c].pc = "manager" /\ job'[c].list = list
        /\ job'[c].at = 1 /\ job'[c].asks = asks
    BY <1>3, <1>5 DEF InitPreRun, Idle
  <2>2. list \in Seq(Stores) /\ Len(list) >= 1
    BY ListTyped
  <2>3. 1 \in 1 .. Len(list) /\ \A i \in 1 .. Len(list) : list[i] \in Stores /\ ~(i < 1)
    BY <2>2
  <2>4. InitBase(c)'
    BY <1>2, <2>1, <2>3, ListDistinct DEF InitBase, Made
  <2> QED BY <2>1, <2>4 DEF Course, Stages, InitHere, OutputCourse, ServerCourse
<1>6. ASSUME NEW s \in Stores, NEW asks \in (SUBSET Kinds) \ {{}}, OutputPreRun(c, s, asks)
      PROVE  Course(c)'
  <2>1. /\ job'[c].op = "output" /\ job'[c].pc = "manager" /\ job'[c].list = <<s>>
        /\ job'[c].at = 1 /\ job'[c].asks = asks /\ job'[c].told = {}
        /\ job'[c].had = Whole(s)
    BY <1>3, <1>6 DEF OutputPreRun, Idle
  <2>2. Store(c)' = s /\ Len(<<s>>) = 1
    BY <2>1 DEF Store
  <2>3. Whole(s)' <=> Whole(s)
    BY <1>1 DEF Whole
  <2>4. OutputCourse(c)'
    BY <2>1, <2>2, <2>3 DEF OutputCourse
  <2> QED BY <2>1, <2>4 DEF Course, Stages, InitBase, InitHere, ServerCourse
<1>7. ASSUME NEW s \in Stores, NEW flags \in PeerFlags, ServerPreRun(c, s, flags)
      PROVE  Course(c)'
  <2>1. PICK ok \in InitRawParams :
          job' = [job EXCEPT ![c] =
            IF ok
            THEN [Idle EXCEPT !.op = "server", !.list = <<s>>, !.at = 1,
                              !.net = genesis, !.flags = flags,
                              !.limits = InitPeerLimits(flags), !.pc = "manager"]
            ELSE [Idle EXCEPT !.op = "server", !.pc = "failed"]]
    BY <1>7 DEF ServerPreRun
  <2>2. CASE ok
    <3>1. /\ job'[c].op = "server" /\ job'[c].pc = "manager" /\ job'[c].net = genesis
          /\ job'[c].flags = flags /\ job'[c].limits = InitPeerLimits(flags)
      BY <1>3, <2>1, <2>2 DEF Idle
    <3>2. genesis \in Nets
      BY <2>2 DEF InitRawParams
    <3> QED BY <3>1, <3>2 DEF Course, Stages, InitBase, InitHere, OutputCourse, ServerCourse
  <2>3. CASE ~ok
    <3>1. job'[c].op = "server" /\ job'[c].pc = "failed"
      BY <1>3, <2>1, <2>3 DEF Idle
    <3> QED BY <3>1 DEF Course, Stages, InitBase, InitHere, OutputCourse, ServerCourse
  <2> QED BY <2>2, <2>3
<1> QED BY <1>4, <1>5, <1>6, <1>7 DEF Begin


\* The directories are there: on to the keys.
LEMMA CourseManagers ==
  ASSUME Inv, NEW c \in Cmds, Course(c),
         InitManager(c) \/ OutputManager(c) \/ SetupSecretsManager(c)
  PROVE  Course(c)'
<1>1. UNCHANGED keys /\ GrownHere(c)
  BY DEF InitManager, OutputManager, SetupSecretsManager, GrownHere
<1>2. PICK pc : Goto(c, pc) /\ \/ job[c].op = "init" /\ pc = "newValidator"
                               \/ /\ job[c].op = "output"
                                  /\ pc = IF "validator" \in job[c].asks THEN "address" ELSE "nodeID"
                               \/ job[c].op = "server" /\ pc = "libp2p"
  BY DEF InitManager, OutputManager, SetupSecretsManager
<1>3. /\ job'[c].pc = pc /\ Rest(c) /\ job'[c].net = job[c].net
      /\ job'[c].flags = job[c].flags /\ job'[c].limits = job[c].limits
  BY <1>2, GotoFields
<1>4. job[c].pc = "manager"
  BY DEF InitManager, OutputManager, SetupSecretsManager
<1>5. InitBase(c)'
  BY <1>1, <1>3, BaseKept DEF Rest, Course
<1>6. CASE job[c].op = "output"
  <2>1. (Whole(Store(c)) => Whole(Store(c))') /\ job[c].asks \subseteq Kinds
    BY <1>1, <1>3, JobTyped DEF Rest, Store, Whole, Jobs
  <2>2. OutputCourse(c)'
    <3>1. job[c].told = {} /\ job[c].asks # {} /\ job'[c].told = {}
      BY <1>3, <1>4, <1>6 DEF Rest, Course, OutputCourse
    <3>2. CASE "validator" \in job[c].asks
      BY <1>2, <1>3, <1>6, <2>1, <3>1, <3>2 DEF Rest, Course, OutputCourse
    <3>3. CASE "validator" \notin job[c].asks
      <4>1. "network" \in job[c].asks /\ job[c].asks \cap {"validator"} = {}
        BY <2>1, <3>1, <3>3 DEF Kinds
      <4>2. pc = "nodeID"
        BY <1>2, <1>6, <3>3
      <4>3. KindsOf(job'[c].told) = {}
        BY <3>1 DEF KindsOf
      <4> QED BY <1>3, <1>6, <2>1, <3>1, <4>1, <4>2, <4>3 DEF Rest, Course, OutputCourse
    <3> QED BY <3>2, <3>3
  <2> QED BY <1>2, <1>3, <1>5, <1>6, <2>2 DEF Rest, Course, Stages, InitHere, ServerCourse
<1>7. CASE job[c].op = "init"
  BY <1>2, <1>3, <1>5, <1>7 DEF Rest, Course, Stages, InitHere, OutputCourse, ServerCourse
<1>8. CASE job[c].op = "server"
  BY <1>2, <1>3, <1>4, <1>5, <1>8 DEF Rest, Course, Stages, InitHere, OutputCourse, ServerCourse
<1> QED BY <1>2, <1>6, <1>7, <1>8

\* A key that is asked for is made.
LEMMA CourseKeys ==
  ASSUME Inv, NEW c \in Cmds, Course(c), InitValidatorKey(c) \/ InitNetworkingKey(c)
  PROVE  Course(c)'
<1>1. job[c].op = "init" /\ job[c].pc \in {"newValidator", "newNetwork"} \cap Working
  <2>1. job[c].pc \in {"newValidator", "newNetwork"}
    BY DEF InitValidatorKey, InitNetworkingKey
  <2>2. job[c].op \in Ops
    BY JobTyped DEF Jobs
  <2> QED BY <2>1, <2>2 DEF Ops, Course, Stages, Working, Busy
<1>2. Store(c) \in Stores /\ keys \in [Stores -> [Kinds -> Keys]]
  BY <1>1, StoreTyped DEF Inv, TypeOK
<1>3. PICK k \in Kinds, pc \in {"newNetwork", "address"} :
        /\ InitKey(c, k) /\ Goto(c, pc)
        /\ \/ job[c].pc = "newValidator" /\ k = "validator" /\ pc = "newNetwork"
           \/ job[c].pc = "newNetwork" /\ k = "network" /\ pc = "address"
  BY DEF InitValidatorKey, InitNetworkingKey, Kinds
<1>4. GrownHere(c) /\ (k \in job[c].asks => Made(c, job[c].at, k)')
  <2>1. job'[c].list = job[c].list /\ job'[c].at = job[c].at
    BY <1>3, GotoFields DEF Rest
  <2>2. CASE k \in job[c].asks
    <3>1. keys[Store(c)][k] = NoKey /\ keys' = [keys EXCEPT ![Store(c)][k] = c]
      BY <1>3, <2>2 DEF InitKey, NewKey, Refuses
    <3>2. GrownHere(c)
      BY <1>2, <3>1 DEF GrownHere
    <3>3. keys'[Store(c)][k] = c
      BY <1>2, <3>1
    <3> QED BY <2>1, <3>2, <3>3 DEF Made, Store
  <2>3. CASE k \notin job[c].asks
    BY <1>3, <2>3 DEF InitKey, GrownHere
  <2> QED BY <2>2, <2>3
<1>5. job'[c].pc = pc /\ Rest(c)
  BY <1>3, GotoFields
<1>6. /\ InitBase(c)'
      /\ \A i \in 1 .. Len(job[c].list), l \in Kinds : Made(c, i, l) => Made(c, i, l)'
  BY <1>4, <1>5, BaseKept DEF Rest, Course
<1>7. InitHere(c)'
  <2>1. job[c].at \in 1 .. Len(job[c].list) /\ "validator" \in Kinds
    BY <1>1 DEF Course, InitBase, Kinds
  <2>2. Made(c, job[c].at, "validator") => Made(c, job[c].at, "validator")'
    BY <1>5, <1>6, <2>1 DEF Made, Rest
  <2>3. /\ job'[c].pc \in {"newNetwork", "address"} /\ job'[c].at = job[c].at
        /\ job'[c].asks = job[c].asks
        /\ "validator" \in job[c].asks => Made(c, job[c].at, "validator")'
        /\ job'[c].pc = "address" /\ "network" \in job[c].asks => Made(c, job[c].at, "network")'
    BY <1>1, <1>3, <1>4, <1>5, <2>2 DEF Rest, Course, InitHere
  <2> QED BY <2>3 DEF InitHere, Made
<1> QED BY <1>1, <1>3, <1>5, <1>6, <1>7 DEF Rest, Course, Stages, OutputCourse, ServerCourse

\* A genesis command opens its file and writes it.
LEMMA CourseGenesis ==
  ASSUME Inv, NEW c \in Cmds, Course(c), OpenGenesis(c) \/ WriteGenesis(c)
  PROVE  Course(c)'
<1>1. job'[c].op = "genesis" /\ job'[c].pc \in {"opened", "written"}
  <2>1. job \in [Cmds -> Jobs]
    BY DEF Inv, TypeOK, Jobs
  <2> QED BY <2>1 DEF OpenGenesis, WriteGenesis, Goto, Jobs
<1> QED BY <1>1 DEF Course, Stages, InitBase, InitHere, OutputCourse, ServerCourse

\* Commands that end.
LEMMA CourseExits ==
  ASSUME Inv, NEW c \in Cmds, Course(c), EndGenesis(c) \/ StopServer(c) \/ Fail(c)
  PROVE  Course(c)'
<1>1. UNCHANGED keys /\ GrownHere(c)
  BY DEF EndGenesis, StopServer, Fail, GrownHere
<1>2. PICK pc \in {"ok", "failed"} :
        /\ Exit(c, pc)
        /\ pc = "ok" => job[c].op = "genesis" \/ job[c].pc = "running"
        /\ job[c].pc # "idle"
  BY DEF EndGenesis, StopServer, Fail, Busy
<1>3. job'[c].pc = pc /\ Rest(c)
  BY <1>2, ExitFields
<1>4. InitBase(c)'
  BY <1>1, <1>3, BaseKept DEF Rest, Course
<1>5. pc = "ok" => job[c].op \in {"genesis", "server"}
  <2>1. job[c].op \in Ops
    BY JobTyped DEF Jobs
  <2> QED BY <1>2, <2>1 DEF Ops, Course, Stages
<1>6. Whole(Store(c)) => Whole(Store(c))'
  BY <1>1, <1>3 DEF Rest, Store, Whole
<1>7. OutputCourse(c)'
  BY <1>3, <1>5, <1>6 DEF Rest, Course, OutputCourse
<1>8. job[c].op # "none"
  BY <1>2 DEF Course, Stages
<1> QED BY <1>3, <1>4, <1>5, <1>7, <1>8 DEF Rest, Course, Stages, InitHere, ServerCourse


\* What is shown of the store where a command is.
LEMMA TellsHeld ==
  ASSUME NEW c, NEW k, Held(c, k) # NoKey
  PROVE  Tell(c, k) = {[store |-> Store(c), kind |-> k, key |-> Held(c, k)]}
BY DEF Tell

\* The kinds that an output has shown once it loads another key.
LEMMA ShownOne ==
  ASSUME NEW c, NEW k \in Kinds, Held(c, k) # NoKey, NEW told
  PROVE  KindsOf(told \cup Tell(c, k)) = KindsOf(told) \cup {k}
<1> DEFINE u == [store |-> Store(c), kind |-> k, key |-> Held(c, k)]
<1>1. Tell(c, k) = {u} /\ u.kind = k
  BY TellsHeld
<1> HIDE DEF u
<1>2. KindsOf(told \cup {u}) = KindsOf(told) \cup {u.kind}
  BY DEF KindsOf
<1> QED BY <1>1, <1>2

LEMMA CourseAddress ==
  ASSUME Inv, NEW c \in Cmds, Course(c), LoadAddress(c)
  PROVE  Course(c)'
<1>1. GrownHere(c) /\ UNCHANGED keys /\ job[c].pc = "address" /\ "validator" \in Kinds
  BY DEF LoadAddress, GrownHere, Kinds
<1>2. job[c] \in Jobs
  BY JobTyped
<1>3. /\ job'[c].op = job[c].op /\ job'[c].list = job[c].list /\ job'[c].at = job[c].at
      /\ job'[c].asks = job[c].asks /\ job'[c].had = job[c].had
      /\ job'[c].told = job[c].told \cup Tell(c, "validator")
      /\ job'[c].pc = AfterAddress(job[c])
  <2>1. job'[c] = [job[c] EXCEPT !.told = @ \cup Tell(c, "validator"), !.pc = AfterAddress(job[c])]
    BY DEF LoadAddress, Inv, TypeOK
  <2> QED BY <1>2, <2>1 DEF Jobs
<1>4. job[c].op \in {"init", "output"}
  BY <1>1, <1>2 DEF Course, Stages, Jobs, Ops
<1>5. /\ InitBase(c)'
      /\ \A i \in 1 .. Len(job[c].list), l \in Kinds : Made(c, i, l) => Made(c, i, l)'
  BY <1>1, <1>3, BaseKept DEF Course
<1>6. CASE job[c].op = "init"
  <2>1. job'[c].pc = "nodeID" /\ job[c].at \in 1 .. Len(job[c].list)
    BY <1>3, <1>6 DEF AfterAddress, Course, InitBase
  <2>2. \A l \in Kinds : Made(c, job[c].at, l) => Made(c, job[c].at, l)'
    BY <1>3, <1>5, <2>1 DEF Made
  <2>3. "validator" \in job[c].asks => Told(c, job[c].at, "validator")'
    <3>1. SUFFICES ASSUME "validator" \in job[c].asks PROVE Told(c, job[c].at, "validator")'
      OBVIOUS
    <3>2. Held(c, "validator") = c
      BY <1>1, <1>6, <3>1 DEF Course, InitHere, Made, Held, Store
    <3>3. [store |-> Store(c), kind |-> "validator", key |-> Held(c, "validator")] \in job'[c].told
      BY <1>3, <3>2, CommandsAssumption, TellsHeld
    <3> QED BY <1>1, <1>3, <3>3 DEF Told, Held, Store
  <2>4. InitHere(c)'
    BY <1>1, <1>3, <1>6, <2>1, <2>2, <2>3 DEF Course, InitHere, Kinds, Made, Told
  <2> QED BY <1>3, <1>5, <1>6, <2>1, <2>4 DEF Course, Stages, OutputCourse, ServerCourse
<1>7. CASE job[c].op = "output"
  <2>1. (Whole(Store(c)) => Whole(Store(c))') /\ (Whole(Store(c)) => Held(c, "validator") # NoKey)
    BY <1>1, <1>3 DEF Store, Whole, Held
  <2>2. /\ job[c].told = {} /\ "validator" \in job[c].asks /\ job[c].asks \subseteq Kinds
        /\ job[c].had => Whole(Store(c))
    BY <1>1, <1>2, <1>7 DEF Course, OutputCourse, Jobs
  <2>3. job[c].had => KindsOf(job'[c].told) = {"validator"}
    <3>1. SUFFICES ASSUME job[c].had PROVE KindsOf(job'[c].told) = {"validator"}
      OBVIOUS
    <3>2. KindsOf(job'[c].told) = KindsOf(job[c].told) \cup {"validator"}
      BY <1>1, <1>3, <2>1, <2>2, <3>1, ShownOne
    <3>3. KindsOf(job[c].told) = {}
      BY <2>2 DEF KindsOf
    <3> QED BY <3>2, <3>3
  <2>4. job'[c].pc = IF "network" \in job[c].asks THEN "nodeID" ELSE "ok"
    BY <1>3, <1>7 DEF AfterAddress
  <2>5. "network" \notin job[c].asks => job[c].asks = {"validator"}
    BY <2>2 DEF Kinds
  <2>6. job[c].asks \cap {"validator"} = {"validator"}
    BY <2>2
  <2>7. OutputCourse(c)'
    BY <1>3, <1>7, <2>1, <2>2, <2>3, <2>4, <2>5, <2>6 DEF Course, OutputCourse
  <2> QED BY <1>3, <1>5, <1>7, <2>4, <2>7 DEF Course, Stages, InitHere, ServerCourse
<1> QED BY <1>4, <1>6, <1>7


LEMMA CourseNodeID ==
  ASSUME Inv, NEW c \in Cmds, Course(c), LoadNodeID(c)
  PROVE  Course(c)'
<1> DEFINE last == job[c].at = Len(job[c].list)
<1>1. GrownHere(c) /\ UNCHANGED keys /\ job[c].pc = "nodeID" /\ "network" \in Kinds
  BY DEF LoadNodeID, GrownHere, Kinds
<1>2. job[c] \in Jobs
  BY JobTyped
<1>3. /\ job'[c].op = job[c].op /\ job'[c].list = job[c].list
      /\ job'[c].asks = job[c].asks /\ job'[c].had = job[c].had
      /\ job'[c].told = job[c].told \cup Tell(c, "network")
      /\ job'[c].at = IF last THEN job[c].at ELSE job[c].at + 1
      /\ job'[c].pc = IF last THEN "ok" ELSE "manager"
  <2>1. job'[c] = [job[c] EXCEPT !.told = @ \cup Tell(c, "network"),
                                 !.at = IF last THEN @ ELSE @ + 1,
                                 !.pc = IF last THEN "ok" ELSE "manager"]
    BY DEF LoadNodeID, Inv, TypeOK
  <2> QED BY <1>2, <2>1 DEF Jobs
<1>4. job[c].op \in {"init", "output"}
  BY <1>1, <1>2 DEF Course, Stages, Jobs, Ops
<1>5. CASE job[c].op = "init"
  <2>1. /\ job[c].at \in 1 .. Len(job[c].list) /\ job[c].at \in Nat /\ Len(job[c].list) \in Nat
        /\ job[c].asks \subseteq Kinds
    BY <1>2, <1>5 DEF Course, InitBase, Jobs
  <2>2. \A i \in 1 .. Len(job[c].list), k \in Kinds :
          /\ Made(c, i, k)' <=> Made(c, i, k)
          /\ Told(c, i, k) => Told(c, i, k)'
    BY <1>1, <1>3 DEF Made, Told
  <2>3. \A k \in job[c].asks : Made(c, job[c].at, k)
    BY <1>1, <1>5, <2>1 DEF Course, InitHere, Kinds
  <2>4. "network" \in job[c].asks =>
          [store |-> Store(c), kind |-> "network", key |-> Held(c, "network")] \in job'[c].told
    <3>1. SUFFICES ASSUME "network" \in job[c].asks
                   PROVE  [store |-> Store(c), kind |-> "network", key |-> Held(c, "network")]
                            \in job'[c].told
      OBVIOUS
    <3>2. Held(c, "network") = c
      BY <2>3, <3>1 DEF Made, Held, Store
    <3> QED BY <1>3, <3>2, CommandsAssumption, TellsHeld
  <2>5. \A k \in job[c].asks :
          [store |-> Store(c), kind |-> k, key |-> Held(c, k)] \in job'[c].told
    <3>1. "validator" \in job[c].asks =>
            [store |-> Store(c), kind |-> "validator", key |-> Held(c, "validator")] \in job'[c].told
      BY <1>1, <1>3, <1>5 DEF Course, InitHere, Told, Held, Store
    <3> QED BY <2>1, <2>4, <3>1 DEF Kinds
  <2>6. \A i \in 1 .. Len(job[c].list), k \in job[c].asks :
          i <= job[c].at => Made(c, i, k)' /\ Told(c, i, k)'
    <3> SUFFICES ASSUME NEW i \in 1 .. Len(job[c].list), NEW k \in job[c].asks, i <= job[c].at
                 PROVE  Made(c, i, k)' /\ Told(c, i, k)'
      OBVIOUS
    <3>1. CASE i = job[c].at
      BY <1>1, <1>3, <2>1, <2>2, <2>3, <2>5, <3>1 DEF Told, Held, Store
    <3>2. CASE i # job[c].at
      <4>1. i < job[c].at
        BY <2>1, <3>2
      <4> QED BY <1>5, <2>1, <2>2, <4>1 DEF Course, InitBase
    <3> QED BY <3>1, <3>2
  <2>7. InitBase(c)'
    <3>1. job'[c].at \in 1 .. Len(job[c].list)
      BY <1>3, <2>1
    <3>2. \A i \in 1 .. Len(job[c].list), k \in Kinds : i > job'[c].at => ~Made(c, i, k)'
      <4>1. \A i \in 1 .. Len(job[c].list) : i > job'[c].at => i > job[c].at
        BY <1>3, <2>1
      <4> QED BY <1>5, <2>2, <4>1 DEF Course, InitBase
    <3>3. \A i \in 1 .. Len(job[c].list) : i < job'[c].at => i <= job[c].at
      BY <1>3, <2>1
    <3>4. \A i, l \in 1 .. Len(job[c].list) : job[c].list[i] = job[c].list[l] => i = l
      BY <1>5 DEF Course, InitBase
    <3> QED BY <1>3, <2>6, <3>1, <3>2, <3>3, <3>4 DEF InitBase
  <2>8. InitHere(c)'
    <3>1. CASE last
      <4>1. \A k \in job[c].asks : Made(c, job[c].at, k)' /\ Told(c, job[c].at, k)'
        <5>1. job'[c].at = job[c].at /\ job[c].at <= job[c].at
          BY <1>3, <2>1, <3>1
        <5> QED BY <2>1, <2>6, <5>1 DEF Made, Told
      <4>2. job'[c].at = Len(job'[c].list) /\ job'[c].at = job[c].at
        BY <1>3, <3>1
      <4> QED BY <1>3, <4>1, <4>2 DEF InitHere, Made, Told
    <3>2. CASE ~last
      BY <1>3, <3>2 DEF InitHere
    <3> QED BY <3>1, <3>2
  <2> QED BY <1>3, <1>5, <2>7, <2>8 DEF Course, Stages, OutputCourse, ServerCourse
<1>6. CASE job[c].op = "output"
  <2>1. /\ last /\ "network" \in job[c].asks /\ job[c].asks \subseteq Kinds
        /\ job[c].had => Whole(Store(c)) /\ KindsOf(job[c].told) = job[c].asks \cap {"validator"}
    BY <1>1, <1>2, <1>6 DEF Course, OutputCourse, Jobs
  <2>2. (Whole(Store(c)) => Whole(Store(c))') /\ (Whole(Store(c)) => Held(c, "network") # NoKey)
    BY <1>1, <1>3, <2>1 DEF Store, Whole, Held
  <2>3. job[c].had => KindsOf(job'[c].told) = job[c].asks
    <3>1. SUFFICES ASSUME job[c].had PROVE KindsOf(job'[c].told) = job[c].asks
      OBVIOUS
    <3>2. KindsOf(job'[c].told) = KindsOf(job[c].told) \cup {"network"}
      BY <1>1, <1>3, <2>1, <2>2, <3>1, ShownOne
    <3>3. (job[c].asks \cap {"validator"}) \cup {"network"} = job[c].asks
      BY <2>1 DEF Kinds
    <3> QED BY <2>1, <3>1, <3>2, <3>3
  <2>4. OutputCourse(c)'
    BY <1>3, <1>6, <2>1, <2>2, <2>3 DEF Course, OutputCourse
  <2> QED BY <1>3, <1>6, <2>1, <2>4 DEF Course, Stages, InitBase, InitHere, ServerCourse
<1> QED BY <1>4, <1>5, <1>6

\* A server takes its keys from its store.
LEMMA CourseServer ==
  ASSUME Inv, NEW c \in Cmds, Course(c), StartNetwork(c) \/ StartApplication(c)
  PROVE  Course(c)'
<1>1. job[c] \in Jobs /\ job[c].op = "server" /\ job[c].pc \in Working
  <2>1. job[c].pc \in {"libp2p", "application"}
    BY DEF StartNetwork, StartApplication
  <2> QED BY <2>1, JobTyped DEF Jobs, Ops, Course, Stages, Working, Busy
<1>2. Store(c) \in Stores /\ keys \in [Stores -> [Kinds -> Keys]]
      /\ "network" \in Kinds /\ "validator" \in Kinds
  BY <1>1, StoreTyped DEF Inv, TypeOK, Kinds
<1>3. SUFFICES Stages(c)' /\ ServerCourse(c)' /\ job'[c].op = "server"
  BY DEF Course, InitBase, InitHere, OutputCourse
<1>4. CASE StartNetwork(c)
  <2> DEFINE t == [store |-> Store(c), kind |-> "network", key |-> keys'[Store(c)]["network"]]
  <2>1. /\ job'[c].op = "server" /\ job'[c].pc = "application"
        /\ job'[c].list = job[c].list /\ job'[c].at = job[c].at /\ job'[c].told = {t}
        /\ job'[c].net = job[c].net /\ job'[c].flags = job[c].flags
        /\ job'[c].limits = job[c].limits
    <3>1. job'[c] = [job[c] EXCEPT !.pc = "application", !.told = {t}]
      BY <1>4 DEF StartNetwork, Inv, TypeOK
    <3> QED BY <1>1, <3>1 DEF Jobs
  <2>2. keys'[Store(c)]["network"] # NoKey
    <3>1. CASE Held(c, "network") = NoKey
      BY <1>2, <1>4, <3>1, CommandsAssumption DEF StartNetwork, NewKey
    <3>2. CASE Held(c, "network") # NoKey
      BY <1>4, <3>2 DEF StartNetwork, Held
    <3> QED BY <3>1, <3>2
  <2>3. Store(c)' = Store(c)
    BY <2>1 DEF Store
  <2>4. Held(c, "network")' # NoKey /\ Told(c, job[c].at, "network")'
    BY <2>1, <2>2, <2>3 DEF Held, Told, Store
  <2>5. job[c].pc = "libp2p"
    BY <1>4 DEF StartNetwork
  <2>6. ServerCourse(c)'
    BY <1>1, <2>1, <2>4, <2>5 DEF Course, ServerCourse, Told
  <2> QED BY <2>1, <2>6 DEF Stages
<1>5. CASE StartApplication(c)
  <2>1. /\ job'[c].op = "server" /\ job'[c].pc = "running"
        /\ job'[c].list = job[c].list /\ job'[c].at = job[c].at
        /\ job'[c].told = job[c].told \cup Tell(c, "validator")
        /\ job'[c].net = job[c].net /\ job'[c].flags = job[c].flags
        /\ job'[c].limits = job[c].limits
    <3>1. job'[c] = [job[c] EXCEPT !.told = @ \cup Tell(c, "validator"), !.pc = "running"]
      BY <1>5 DEF StartApplication, Inv, TypeOK
    <3> QED BY <1>1, <3>1 DEF Jobs
  <2>2. /\ UNCHANGED keys /\ Store(c)' = Store(c) /\ Held(c, "validator") # NoKey
        /\ job[c].pc = "application"
    BY <1>5, <2>1 DEF StartApplication, ValidatorSecret, Store
  <2>3. \A k \in Kinds : Held(c, k)' = Held(c, k) /\ (Told(c, job[c].at, k) => Told(c, job[c].at, k)')
    BY <2>1, <2>2 DEF Held, Told
  <2>4. Told(c, job[c].at, "validator")'
    <3>1. [store |-> Store(c), kind |-> "validator", key |-> Held(c, "validator")] \in job'[c].told
      BY <2>1, <2>2, TellsHeld
    <3> QED BY <2>1, <2>2, <3>1 DEF Told, Held, Store
  <2>5. ServerCourse(c)'
    BY <1>1, <1>2, <2>1, <2>2, <2>3, <2>4 DEF Course, ServerCourse, Told
  <2> QED BY <2>1, <2>5 DEF Stages
<1> QED BY <1>4, <1>5

LEMMA OwnCourse ==
  ASSUME Inv, NEW c \in Cmds, Course(c), Step(c)
  PROVE  Course(c)'
BY CourseBegins, CourseGenesis, CourseManagers, CourseKeys, CourseExits, CourseAddress, CourseNodeID,
   CourseServer DEF Step


-----------------------------------------------------------------------------
(* The genesis file. *)

Serving == {"manager", "libp2p", "application", "running"}

\* What a step leaves of a command that has begun.
LEMMA KeepsHistory ==
  ASSUME Inv, NEW c \in Cmds, Step(c), job[c].op # "none"
  PROVE  /\ job'[c].op = job[c].op /\ job'[c].had = job[c].had
         /\ job'[c].wrote = job[c].wrote \/ job'[c].wrote
<1>1. job \in [Cmds -> Jobs] /\ job[c] \in Jobs
  BY JobTyped DEF Inv, TypeOK, Jobs
<1>2. ~Begin(c)
  BY DEF Begin, GenesisPreRun, InitPreRun, OutputPreRun, ServerPreRun
<1>3. CASE OpenGenesis(c)
  <2>1. job'[c] = [job[c] EXCEPT !.pc = "opened", !.wrote = TRUE]
    BY <1>1, <1>3 DEF OpenGenesis
  <2> QED BY <1>1, <2>1 DEF Jobs
<1>4. CASE \E pc : Goto(c, pc)
  BY <1>4, GotoFields DEF Rest
<1>5. CASE \E pc : Exit(c, pc)
  BY <1>5, ExitFields DEF Rest
<1>6. CASE LoadAddress(c)
  <2>1. job'[c] = [job[c] EXCEPT !.told = @ \cup Tell(c, "validator"),
                                 !.pc = AfterAddress(job[c])]
    BY <1>1, <1>6 DEF LoadAddress
  <2> QED BY <1>1, <2>1 DEF Jobs
<1>7. CASE LoadNodeID(c)
  <2> DEFINE last == job[c].at = Len(job[c].list)
  <2>1. job'[c] = [job[c] EXCEPT !.told = @ \cup Tell(c, "network"),
                                 !.at = IF last THEN @ ELSE @ + 1,
                                 !.pc = IF last THEN "ok" ELSE "manager"]
    BY <1>1, <1>7 DEF LoadNodeID
  <2> QED BY <1>1, <2>1 DEF Jobs
<1>8. CASE StartNetwork(c)
  <2> DEFINE t == [store |-> Store(c), kind |-> "network", key |-> keys'[Store(c)]["network"]]
  <2>1. job'[c] = [job[c] EXCEPT !.pc = "application", !.told = {t}]
    BY <1>1, <1>8 DEF StartNetwork
  <2> QED BY <1>1, <2>1 DEF Jobs
<1>9. CASE StartApplication(c)
  <2>1. job'[c] = [job[c] EXCEPT !.told = @ \cup Tell(c, "validator"), !.pc = "running"]
    BY <1>1, <1>9 DEF StartApplication
  <2> QED BY <1>1, <2>1 DEF Jobs
<1>10. CASE WriteGenesis(c) \/ InitManager(c) \/ OutputManager(c) \/ SetupSecretsManager(c)
            \/ InitValidatorKey(c) \/ InitNetworkingKey(c)
  BY <1>4, <1>10 DEF WriteGenesis, InitManager, OutputManager, SetupSecretsManager,
     InitValidatorKey, InitNetworkingKey
<1>11. CASE EndGenesis(c) \/ StopServer(c) \/ Fail(c)
  BY <1>5, <1>11 DEF EndGenesis, StopServer, Fail
<1> QED BY <1>2, <1>3, <1>6, <1>7, <1>8, <1>9, <1>10, <1>11 DEF Step

\* Who has opened the file has done so.
LEMMA WroteStays ==
  ASSUME Inv, NEW c \in Cmds, Step(c), NEW h \in Cmds, Wrote(h)
  PROVE  Wrote(h)'
<1>1. CASE h = c
  BY <1>1, KeepsHistory DEF Wrote
<1>2. CASE h # c
  BY <1>2, StepGrows DEF Wrote
<1> QED BY <1>1, <1>2

\* What a genesis command does to the file: it truncates and it writes.
Opens(c) ==
  /\ job[c].op = "genesis" /\ job[c].pc = "checked"
  /\ genesis' = EmptyFile /\ job'[c].pc = "opened"
  /\ job'[c].net \in Nets /\ Wrote(c)'

Writes(c) ==
  /\ job[c].op = "genesis" /\ job[c].pc = "opened"
  /\ genesis' # NoFile /\ job'[c].pc = "written"

Prepares(c) ==
  job'[c].op = "genesis" /\ job'[c].pc = "checked" =>
    genesis' = NoFile /\ ~job'[c].had /\ ~job'[c].wrote /\ job'[c].net \in Nets

Serves(c) ==
  job'[c].op = "server" /\ job'[c].pc \in Serving =>
    /\ genesis' = genesis
    /\ \/ genesis # NoFile /\ job'[c].net = genesis
       \/ job[c].op = "server" /\ job[c].pc \in Serving /\ job'[c].net = job[c].net

\* Only `genesis` touches the file; a server that begins reads it.
LEMMA FileMoves ==
  ASSUME Inv, NEW c \in Cmds, Course(c), FileCourse(c), Step(c)
  PROVE  /\ genesis' = genesis \/ Opens(c) \/ Writes(c)
         /\ job'[c].op = "genesis" /\ job'[c].pc = "opened" => Opens(c)
         /\ Prepares(c) /\ Serves(c)
<1> DEFINE Goal == /\ genesis' = genesis \/ Opens(c) \/ Writes(c)
                   /\ job'[c].op = "genesis" /\ job'[c].pc = "opened" => Opens(c)
                   /\ Prepares(c) /\ Serves(c)
<1> SUFFICES Goal
  OBVIOUS
<1> USE DEF Prepares, Serves
<1>1. job \in [Cmds -> Jobs] /\ job[c] \in Jobs
  BY JobTyped DEF Inv, TypeOK, Jobs
<1>2. ASSUME NEW net \in Nets, GenesisPreRun(c, net) PROVE Goal
  <2>1. /\ genesis' = genesis /\ job'[c].op = "genesis"
        /\ job'[c].pc \in {"checked", "failed"} /\ ~job'[c].wrote
        /\ job'[c].pc = "checked" => genesis = NoFile /\ job'[c].net = net /\ ~job'[c].had
    BY <1>1, <1>2 DEF GenesisPreRun, VerifyGenesisExistence, Idle
  <2> QED BY <2>1
<1>3. ASSUME NEW list \in StoreLists, NEW asks \in SUBSET Kinds, InitPreRun(c, list, asks)
      PROVE  Goal
  <2>1. genesis' = genesis /\ job'[c].op = "init"
    BY <1>1, <1>3 DEF InitPreRun, Idle
  <2> QED BY <2>1
<1>4. ASSUME NEW s \in Stores, NEW asks \in (SUBSET Kinds) \ {{}}, OutputPreRun(c, s, asks)
      PROVE  Goal
  <2>1. genesis' = genesis /\ job'[c].op = "output"
    BY <1>1, <1>4 DEF OutputPreRun, Idle
  <2> QED BY <2>1
<1>5. ASSUME NEW s \in Stores, NEW flags \in PeerFlags, ServerPreRun(c, s, flags) PROVE Goal
  <2>1. PICK ok \in InitRawParams :
          job' = [job EXCEPT ![c] =
            IF ok
            THEN [Idle EXCEPT !.op = "server", !.list = <<s>>, !.at = 1,
                              !.net = genesis, !.flags = flags,
                              !.limits = InitPeerLimits(flags), !.pc = "manager"]
            ELSE [Idle EXCEPT !.op = "server", !.pc = "failed"]]
    BY <1>5 DEF ServerPreRun
  <2>2. genesis' = genesis
    BY <1>5 DEF ServerPreRun
  <2>3. CASE ok
    <3>1. job'[c].op = "server" /\ job'[c].net = genesis
      BY <1>1, <2>1, <2>3 DEF Idle
    <3>2. genesis # NoFile
      BY <2>1, <2>3, NetsAssumption DEF InitRawParams
    <3> QED BY <2>2, <3>1, <3>2
  <2>4. CASE ~ok
    <3>1. job'[c].op = "server" /\ job'[c].pc = "failed"
      BY <1>1, <2>1, <2>4 DEF Idle
    <3> QED BY <2>2, <3>1 DEF Serving
  <2> QED BY <2>3, <2>4
<1>6. CASE OpenGenesis(c)
  <2>1. /\ job[c].op = "genesis" /\ job[c].pc = "checked" /\ ~job[c].had
        /\ job[c].net \in Nets /\ genesis' = EmptyFile
        /\ job'[c] = [job[c] EXCEPT !.pc = "opened", !.wrote = TRUE]
    BY <1>1, <1>6 DEF OpenGenesis, FileCourse
  <2>2. /\ job'[c].pc = "opened" /\ job'[c].op = "genesis" /\ ~job'[c].had /\ job'[c].wrote
        /\ job'[c].net = job[c].net
    BY <1>1, <2>1 DEF Jobs
  <2> QED BY <2>1, <2>2 DEF Opens, Wrote
<1>12. CASE WriteGenesis(c)
  <2>1. /\ job[c].op = "genesis" /\ job[c].pc = "opened" /\ job[c].net \in Nets
        /\ genesis' \in {job[c].net, MixedFile} /\ Goto(c, "written")
    BY <1>12 DEF WriteGenesis, FileCourse
  <2>2. job'[c].pc = "written" /\ job'[c].op = "genesis"
    BY <2>1, GotoFields DEF Rest
  <2>3. genesis' # NoFile
    BY <2>1, NetsAssumption
  <2> QED BY <2>1, <2>2, <2>3 DEF Writes
<1>7. CASE EndGenesis(c) \/ StopServer(c) \/ Fail(c)
  <2>1. genesis' = genesis /\ job'[c].pc \in {"ok", "failed"}
    BY <1>7, ExitFields DEF EndGenesis, StopServer, Fail
  <2> QED BY <2>1 DEF Serving
<1>8. ASSUME NEW pc, Goto(c, pc), genesis' = genesis, job[c].op # "genesis",
             job[c].pc \in Serving \/ job[c].op # "server"
      PROVE  Goal
  BY <1>8, GotoFields DEF Rest
<1>9. CASE \/ InitManager(c) \/ OutputManager(c) \/ SetupSecretsManager(c)
           \/ InitValidatorKey(c) \/ InitNetworkingKey(c)
  <2>1. /\ genesis' = genesis /\ \E pc : Goto(c, pc)
        /\ job[c].pc \in {"manager", "newValidator", "newNetwork"}
    BY <1>9 DEF InitManager, OutputManager, SetupSecretsManager, InitValidatorKey,
       InitNetworkingKey
  <2>2. job[c].op # "genesis" /\ (job[c].pc \in Serving \/ job[c].op # "server")
    BY <2>1 DEF Course, Stages, Serving
  <2> QED BY <1>8, <2>1, <2>2
<1>10. CASE \/ LoadAddress(c) \/ LoadNodeID(c) \/ StartNetwork(c) \/ StartApplication(c)
  <2>1. genesis' = genesis /\ job[c].pc \in {"address", "nodeID", "libp2p", "application"}
    BY <1>10 DEF LoadAddress, LoadNodeID, StartNetwork, StartApplication
  <2>2. job'[c].op = job[c].op /\ job'[c].net = job[c].net
    <3>1. CASE LoadAddress(c)
      <4>1. job'[c] = [job[c] EXCEPT !.told = @ \cup Tell(c, "validator"),
                                     !.pc = AfterAddress(job[c])]
        BY <1>1, <3>1 DEF LoadAddress
      <4> QED BY <1>1, <4>1 DEF Jobs
    <3>2. CASE LoadNodeID(c)
      <4> DEFINE last == job[c].at = Len(job[c].list)
      <4>1. job'[c] = [job[c] EXCEPT !.told = @ \cup Tell(c, "network"),
                                     !.at = IF last THEN @ ELSE @ + 1,
                                     !.pc = IF last THEN "ok" ELSE "manager"]
        BY <1>1, <3>2 DEF LoadNodeID
      <4> QED BY <1>1, <4>1 DEF Jobs
    <3>3. CASE StartNetwork(c)
      <4> DEFINE t == [store |-> Store(c), kind |-> "network", key |-> keys'[Store(c)]["network"]]
      <4>1. job'[c] = [job[c] EXCEPT !.pc = "application", !.told = {t}]
        BY <1>1, <3>3 DEF StartNetwork
      <4> QED BY <1>1, <4>1 DEF Jobs
    <3>4. CASE StartApplication(c)
      <4>1. job'[c] = [job[c] EXCEPT !.told = @ \cup Tell(c, "validator"), !.pc = "running"]
        BY <1>1, <3>4 DEF StartApplication
      <4> QED BY <1>1, <4>1 DEF Jobs
    <3> QED BY <1>10, <3>1, <3>2, <3>3, <3>4
  <2>3. job[c].op # "genesis" /\ (job[c].pc \in Serving \/ job[c].op # "server")
    BY <2>1 DEF Course, Stages, Serving
  <2> QED BY <2>1, <2>2, <2>3
<1> QED BY <1>2, <1>3, <1>4, <1>5, <1>6, <1>7, <1>9, <1>10, <1>12 DEF Step, Begin

LEMMA FileStep ==
  ASSUME Inv, \A d \in Cmds : Course(d) /\ FileCourse(d), NEW c \in Cmds, Step(c)
  PROVE  \A d \in Cmds : FileCourse(d)'
<1>1. \A h \in Cmds : Wrote(h) => Wrote(h)'
  BY WroteStays
<1>2. \A d \in Cmds \ {c} : job'[d] = job[d]
  BY StepGrows
<1>3. /\ genesis' = genesis \/ Opens(c) \/ Writes(c)
      /\ job'[c].op = "genesis" /\ job'[c].pc = "opened" => Opens(c)
      /\ Prepares(c) /\ Serves(c)
  BY FileMoves
<1>4. (\E g, h \in Cmds : g # h /\ Wrote(g) /\ Wrote(h))
      => (\E g, h \in Cmds : g # h /\ Wrote(g)' /\ Wrote(h)')
  BY <1>1
<1>5. FileCourse(c)'
  <2>1. job'[c].op = "genesis" /\ job'[c].pc = "opened" =>
          genesis' = EmptyFile /\ Wrote(c)' /\ job'[c].net \in Nets
    BY <1>3 DEF Opens
  <2>2. job'[c].op = "server" /\ job'[c].pc \in Serving =>
          /\ genesis' # NoFile
          /\ job'[c].net # genesis' => \E g, h \in Cmds : g # h /\ Wrote(g)' /\ Wrote(h)'
    BY <1>3, <1>4 DEF Serves, FileCourse, Serving
  <2> QED BY <1>3, <2>1, <2>2 DEF Prepares, FileCourse, Serving
<1>6. ASSUME NEW d \in Cmds \ {c} PROVE FileCourse(d)'
  <2>0. job'[d] = job[d] /\ FileCourse(d)
    BY <1>2
  <2>1. CASE genesis' = genesis
    <3>1. (\E h \in Cmds : Wrote(h)) => (\E h \in Cmds : Wrote(h)')
      BY <1>1
    <3>2. (\E h \in Cmds : h # d /\ Wrote(h)) => (\E h \in Cmds : h # d /\ Wrote(h)')
      BY <1>1
    <3> QED BY <1>1, <1>4, <2>0, <2>1, <3>1, <3>2 DEF FileCourse
  <2>2. ASSUME Opens(c) \/ Writes(c), Wrote(c)', genesis' # NoFile,
               job[d].op = "server" /\ job[d].pc \in Serving /\ job[d].net # genesis'
                 => \E g, h \in Cmds : g # h /\ Wrote(g)' /\ Wrote(h)'
        PROVE  FileCourse(d)'
    <3>1. (\E h \in Cmds : Wrote(h)') /\ (\E h \in Cmds : h # d /\ Wrote(h)')
      BY <2>2
    <3> QED BY <1>1, <2>0, <2>2, <3>1 DEF FileCourse, Serving
  <2>3. CASE Opens(c)
    <3>1. Wrote(c)' /\ genesis' # NoFile /\ ~Wrote(c)
      BY <2>3, NetsAssumption DEF Opens, FileCourse, Wrote
    <3>2. genesis # NoFile => \E g, h \in Cmds : g # h /\ Wrote(g)' /\ Wrote(h)'
      <4> SUFFICES ASSUME genesis # NoFile
                   PROVE  \E h \in Cmds : h # c /\ Wrote(h)'
        BY <3>1
      <4>1. PICK h \in Cmds : Wrote(h)
        BY <2>3 DEF Opens, FileCourse
      <4> QED BY <1>1, <3>1, <4>1
    <3>3. job[d].op = "server" /\ job[d].pc \in Serving => genesis # NoFile
      BY <2>0 DEF FileCourse, Serving
    <3> QED BY <2>2, <2>3, <3>1, <3>2, <3>3
  <2>4. CASE Writes(c)
    <3>1. Wrote(c)' /\ genesis' # NoFile
      BY <1>1, <2>4 DEF Writes, FileCourse
    <3>2. ASSUME job[d].op = "server", job[d].pc \in Serving
          PROVE  job[d].net # genesis' => \E g, h \in Cmds : g # h /\ Wrote(g)' /\ Wrote(h)'
      <4>1. CASE job[d].net # genesis
        BY <1>4, <2>0, <3>2, <4>1 DEF FileCourse, Serving
      <4>2. CASE job[d].net = genesis
        <5>1. job[d].net \in Nets
          BY <3>2 DEF Course, ServerCourse, Serving
        <5>2. PICK h \in Cmds : h # c /\ Wrote(h)
          BY <2>4, <4>2, <5>1, NetsAssumption DEF Writes, FileCourse
        <5> QED BY <1>1, <3>1, <5>2
      <4> QED BY <4>1, <4>2
    <3> QED BY <2>2, <2>4, <3>1, <3>2
  <2> QED BY <1>3, <2>1, <2>3, <2>4
<1> QED BY <1>5, <1>6


-----------------------------------------------------------------------------
LEMMA CourseHolds == Spec => []CourseInv
<1>1. Init => CourseInv
  <2> SUFFICES ASSUME Init PROVE CourseInv
    OBVIOUS
  <2>1. Inv
    BY InvStarts
  <2>2. ASSUME NEW c \in Cmds PROVE Course(c) /\ FileCourse(c)
    <3>1. /\ job[c].op = "none" /\ job[c].pc = "idle"
          /\ \A s \in Stores, k \in Kinds : keys[s][k] # c
      BY CommandsAssumption DEF Init, Idle
    <3> QED BY <3>1 DEF Course, Stages, InitBase, InitHere, OutputCourse, ServerCourse, FileCourse
  <2> QED BY <2>1, <2>2 DEF CourseInv
<1>2. CourseInv /\ [Next]_vars => CourseInv'
  <2> SUFFICES ASSUME CourseInv, [Next]_vars PROVE CourseInv'
    OBVIOUS
  <2>1. CASE Next
    <3>1. PICK c \in Cmds : Step(c)
      BY <2>1 DEF Next
    <3>2. Inv'
      BY <3>1, StepChange, ChangeKeeps DEF CourseInv
    <3>3. \A d \in Cmds : Course(d)'
      BY <3>1, OwnCourse, OthersCourse DEF CourseInv
    <3>4. \A d \in Cmds : FileCourse(d)'
      BY <3>1, FileStep DEF CourseInv
    <3> QED BY <3>2, <3>3, <3>4 DEF CourseInv
  <2>2. CASE UNCHANGED vars
    <3>1. genesis' = genesis /\ made' = made /\ keys' = keys /\ job' = job
      BY <2>2 DEF vars
    <3>2. Inv'
      BY <3>1 DEF CourseInv, Inv, TypeOK, Placed, Fits
    <3>3. ASSUME NEW d \in Cmds PROVE Course(d)' /\ FileCourse(d)'
      <4>1. Course(d) /\ FileCourse(d)
        BY DEF CourseInv
      <4>2. /\ \A i, k : Made(d, i, k)' = Made(d, i, k) /\ Told(d, i, k)' = Told(d, i, k)
            /\ \A k : Held(d, k)' = Held(d, k)
            /\ Store(d)' = Store(d)
        BY <3>1 DEF Made, Told, Held, Store
      <4>3. Whole(Store(d))' = Whole(Store(d))
        BY <3>1, <4>2 DEF Whole
      <4>4. \A g : Wrote(g)' = Wrote(g)
        BY <3>1 DEF Wrote
      <4>5. Stages(d)'
        BY <3>1, <4>1 DEF Course, Stages
      <4>6. InitBase(d)'
        BY <3>1, <4>1, <4>2 DEF Course, InitBase
      <4>7. InitHere(d)'
        BY <3>1, <4>1, <4>2 DEF Course, InitHere
      <4>8. OutputCourse(d)'
        BY <3>1, <4>1, <4>3 DEF Course, OutputCourse
      <4>9. ServerCourse(d)'
        BY <3>1, <4>1, <4>2 DEF Course, ServerCourse
      <4>10. FileCourse(d)'
        BY <3>1, <4>1, <4>4 DEF FileCourse
      <4> QED BY <4>5, <4>6, <4>7, <4>8, <4>9, <4>10 DEF Course
    <3> QED BY <3>2, <3>3 DEF CourseInv
  <2> QED BY <2>1, <2>2
<1> QED BY <1>1, <1>2, PTL DEF Spec

\* An init and an output that ended well have done what they are for, whatever
\* other commands ran, failed or were killed between any two of their steps.
THEOREM CommandsDo == Spec => []CommandsDeliver
<1>1. CourseInv => InitDelivers
  <2> SUFFICES ASSUME CourseInv, NEW c \in Cmds, Done(c, "init"),
                      NEW i \in 1 .. Len(job[c].list), NEW k \in job[c].asks
               PROVE  Made(c, i, k) /\ Told(c, i, k)
    BY DEF InitDelivers, Made, Told
  <2>1. job[c].op = "init" /\ job[c].pc = "ok" /\ InitBase(c) /\ InitHere(c)
    BY DEF Done, CourseInv, Course
  <2>2. k \in Kinds /\ job[c].at = Len(job[c].list) /\ job[c].at \in Nat
    BY <2>1, JobTyped DEF CourseInv, Jobs, InitHere
  <2>3. CASE i = job[c].at
    BY <2>1, <2>2, <2>3 DEF InitHere, Kinds
  <2>4. CASE i # job[c].at
    <3>1. i < job[c].at
      BY <2>2, <2>4
    <3> QED BY <2>1, <3>1 DEF InitBase
  <2> QED BY <2>3, <2>4
<1>2. CourseInv => OutputShows
  BY DEF CourseInv, Course, OutputCourse, OutputShows, Done, KindsOf
<1> QED BY <1>1, <1>2, CourseHolds, PTL DEF CommandsDeliver

\* An init that failed stopped where it failed: what lies before is complete,
\* what lies after it has not touched.
THEOREM FailureStops == Spec => []FailureStopsThere
<1>1. CourseInv => FailureStopsThere
  <2> SUFFICES ASSUME CourseInv, NEW c \in Cmds, job[c].op = "init",
                      NEW i \in 1 .. Len(job[c].list), NEW k \in Kinds
               PROVE  /\ i > job[c].at => ~Made(c, i, k)
                      /\ i < job[c].at /\ k \in job[c].asks => Made(c, i, k)
    BY DEF FailureStopsThere, Made
  <2> QED BY DEF CourseInv, Course, InitBase
<1> QED BY <1>1, CourseHolds, PTL

\* A running node has both keys, as its store holds them, and a network of a
\* genesis file, however many attempts and whoever made them.
THEOREM StartsWhole == Spec => []StartedWhole
<1>1. CourseInv => StartedWhole
  <2> SUFFICES ASSUME CourseInv, NEW c \in Cmds, job[c].pc = "running"
               PROVE  /\ job[c].net \in Nets
                      /\ \A k \in Kinds : Held(c, k) # NoKey /\ Tell(c, k) \subseteq job[c].told
    BY DEF StartedWhole
  <2>1. job[c].op = "server" /\ ServerCourse(c)
    BY JobTyped DEF CourseInv, Course, Stages, Jobs, Ops
  <2>2. /\ job[c].net \in Nets
        /\ \A k \in Kinds : Held(c, k) # NoKey /\ Told(c, job[c].at, k)
    BY <2>1 DEF ServerCourse, Kinds
  <2>3. ASSUME NEW k \in Kinds PROVE Tell(c, k) \subseteq job[c].told
    <3>1. [store |-> Store(c), kind |-> k, key |-> Held(c, k)] \in job[c].told
      BY <2>2 DEF Told, Held, Store
    <3> QED BY <2>2, <3>1, TellsHeld
  <2> QED BY <2>2, <2>3
<1> QED BY <1>1, CourseHolds, PTL

\* A running node is of the network that the genesis file is of, unless two
\* genesis commands that both found none have opened it to write, whether they
\* ended well or not.
THEOREM RunsOnItsFile == Spec => []RunsOnFile
<1>1. CourseInv => RunsOnFile
  <2> SUFFICES ASSUME CourseInv, NEW c \in Cmds, job[c].pc = "running", job[c].net # genesis
               PROVE  \E g, h \in Cmds : g # h /\ Wrote(g) /\ Wrote(h)
    BY DEF RunsOnFile, Wrote
  <2>1. job[c].op = "server" /\ FileCourse(c)
    BY JobTyped DEF CourseInv, Course, Stages, Jobs, Ops
  <2> QED BY <2>1 DEF FileCourse
<1> QED BY <1>1, CourseHolds, PTL

\* What initPeerLimits makes of the flags: what the server has been promised.
Honours(f, l) ==
  /\ f.max # Unset => l.in + l.out = f.max
  /\ f.in # Unset => l.in = f.in
  /\ f.out # Unset => l.out = f.out
  /\ l.max # Unset => l.max = l.in + l.out
  /\ Sound(f.max) /\ Sound(f.in) /\ Sound(f.out) =>
       /\ l.in >= 0 /\ l.out >= 0
       /\ f.max # Unset => l.out <= l.in

\* The dialled share is a natural number and at most a half.
LEMMA ShareBound ==
  ASSUME NEW m \in Nat, NEW n \in Nat \ {0, 1}
  PROVE  m \div n >= 0 /\ m \div n <= m - (m \div n)
<1>1. /\ m \div n \in Int /\ m % n \in 0 .. (n - 1)
      /\ m = n * (m \div n) + (m % n)
  BY SMT
<1>2. m \div n >= 0
  BY SMT
<1>3. n * (m \div n) >= 2 * (m \div n)
  BY <1>1, <1>2, SMT
<1> QED BY <1>1, <1>2, <1>3, SMT

LEMMA LimitsAddUp ==
  ASSUME NEW f \in PeerFlags, NEW l, l = InitPeerLimits(f)
  PROVE  Honours(f, l)
<1>1. /\ f.max \in Int /\ f.in \in Int /\ f.out \in Int
      /\ f.max # Unset => f.in = Unset /\ f.out = Unset
  BY PeersAssumption DEF Limits
<1>2. CASE f.in # Unset \/ f.out # Unset
  <2> DEFINE in == IF f.in = Unset THEN DefaultIn ELSE f.in
             out == IF f.out = Unset THEN DefaultOut ELSE f.out
  <2>1. l = [max |-> in + out, in |-> in, out |-> out]
    BY <1>2 DEF InitPeerLimits
  <2>2. /\ in \in Int /\ (f.in # Unset => in = f.in)
        /\ out \in Int /\ (f.out # Unset => out = f.out)
    BY <1>1, PeersAssumption
  <2>3. Sound(f.in) /\ Sound(f.out) => in >= 0 /\ out >= 0
    BY <1>1, PeersAssumption DEF Sound
  <2>4. f.max = Unset
    BY <1>1, <1>2
  <2> HIDE DEF in, out
  <2> QED BY <2>1, <2>2, <2>3, <2>4 DEF Honours
<1>3. CASE f.in = Unset /\ f.out = Unset /\ f.max # Unset
  <2>1. PICK dialled \in Int :
          /\ dialled = f.max \div DialShare
          /\ l = [max |-> f.max, in |-> f.max - dialled, out |-> dialled]
    BY <1>1, <1>3, PeersAssumption DEF InitPeerLimits
  <2>2. Sound(f.max) => dialled >= 0 /\ dialled <= f.max - dialled
    <3> SUFFICES ASSUME f.max >= 0 PROVE dialled >= 0 /\ dialled <= f.max - dialled
      BY <1>3 DEF Sound
    <3> QED BY <1>1, <2>1, ShareBound, PeersAssumption
  <2> QED BY <1>1, <1>3, <2>1, <2>2 DEF Honours
<1>4. CASE f.in = Unset /\ f.out = Unset /\ f.max = Unset
  <2>1. l = [max |-> Unset, in |-> DefaultIn, out |-> DefaultOut]
    BY <1>4 DEF InitPeerLimits
  <2> QED BY <1>4, <2>1, PeersAssumption DEF Honours
<1> QED BY <1>2, <1>3, <1>4

\* A node starts within the limits that it was given.
THEOREM LimitsKept == Spec => []LimitsHonoured
<1>1. CourseInv => LimitsHonoured
  <2> SUFFICES ASSUME CourseInv, NEW c \in Cmds, job[c].op = "server",
                      job[c].pc \in Busy \cup {"running"}
               PROVE  Honours(job[c].flags, job[c].limits)
    BY DEF LimitsHonoured, Honours
  <2>1. job[c].pc \in {"manager", "libp2p", "application", "running"}
    BY DEF CourseInv, Course, Stages, Busy
  <2>2. job[c].flags \in PeerFlags /\ job[c].limits = InitPeerLimits(job[c].flags)
    BY <2>1 DEF CourseInv, Course, ServerCourse
  <2> QED BY <2>2, LimitsAddUp
<1> QED BY <1>1, CourseHolds, PTL
=============================================================================
