--------------------------- MODULE TeleSignerProofs ---------------------------
(***************************************************************************)
(* The properties of TeleSigner for every width of the word and every set  *)
(* of chain ids and keys.  The arithmetic lemmas say what a signer makes of*)
(* the V of its own chain, of another chain, and of Frontier; the inductive*)
(* invariant Answered says that the telegram is as its signer made it and  *)
(* that an answer is one that the signer asked can give.                   *)
(***************************************************************************)
EXTENDS TeleSigner, TLAPS

-----------------------------------------------------------------------------
(* The arithmetic. *)

\* What a signer recovers from the telegram of its own, sound, chain.
LEMMA OwnChain ==
  ASSUME NEW key, NEW chain \in Chains, NEW parity \in {0, 1}, Sound(chain)
  PROVE  EIP155Sender(Telegram(key, chain, parity, EIP155V(parity, chain)), chain)
           = {key}
<1> DEFINE v == EIP155V(parity, chain)
           t == Telegram(key, chain, parity, v)
<1>1. /\ Half \in Nat /\ Half >= 64
      /\ chain \in Nat /\ chain < 2 * Half
  BY WordAssumption, ChainsAssumption, SMT
<1>2. v \in Int /\ v - 2 * Signed(chain) - 35 = parity
  BY <1>1 DEF EIP155V, Abs, Signed, Sound, KeepsSign, Negative
<1>3. Protected(v)
  BY <1>1 DEF Protected, LowWord, EIP155V, Abs, Signed, Sound, KeepsSign, Negative
<1>4. t.v = v /\ t.hash = HashOf(chain) /\ t.key = key /\ t.parity = parity
  BY DEF Telegram
<1> HIDE DEF v, t
<1>5. EIP155Sender(t, chain) = Recover(HashOf(chain), t, parity)
  BY <1>2, <1>3, <1>4 DEF EIP155Sender
<1>6. Recover(HashOf(chain), t, parity) = {key}
  BY <1>4 DEF Recover
<1> QED BY <1>5, <1>6 DEF t, v

\* No other chain's signer recovers the key: V is not of its chain, or it is
\* and the hash is not.
LEMMA OtherChain ==
  ASSUME NEW key \in Keys, NEW chain \in Chains, NEW other \in Chains,
         NEW parity \in {0, 1}, other # chain
  PROVE  key \notin
           EIP155Sender(Telegram(key, chain, parity, EIP155V(parity, chain)), other)
<1> DEFINE v == EIP155V(parity, chain)
           t == Telegram(key, chain, parity, v)
<1>1. /\ Half \in Nat /\ Half >= 64
      /\ chain \in Nat /\ chain < 2 * Half
      /\ other \in Nat /\ other < 2 * Half
  BY WordAssumption, ChainsAssumption, SMT
<1>2. key \notin {"stranger", "error"}
  BY KeysAssumption
<1>3. t.v = v /\ t.hash = HashOf(chain) /\ t.key = key /\ t.parity = parity
  BY DEF Telegram
<1>4. chain = 0 => v - 27 \notin {0, 1}
  BY <1>1 DEF EIP155V, Abs, Signed
<1> HIDE DEF v, t
<1>5. key \notin FrontierSender(t)
  BY <1>1, <1>2, <1>3, <1>4 DEF FrontierSender, Recover, HashOf
<1>6. ASSUME NEW p PROVE key \notin Recover(HashOf(other), t, p)
  BY <1>2, <1>3 DEF Recover, HashOf
<1>7. key \notin EIP155Sender(t, other)
  BY <1>5, <1>6 DEF EIP155Sender
<1> QED BY <1>7 DEF t, v

\* The signer of another chain refuses V, when both ids are sound and positive.
LEMMA OtherChainFails ==
  ASSUME NEW key, NEW chain \in Chains, NEW other \in Chains,
         NEW parity \in {0, 1}, other # chain,
         Sound(chain), chain < Half, other < Half
  PROVE  EIP155Sender(Telegram(key, chain, parity, EIP155V(parity, chain)), other)
           = {"error"}
<1> DEFINE v == EIP155V(parity, chain)
           t == Telegram(key, chain, parity, v)
<1>1. /\ Half \in Nat /\ Half >= 64
      /\ chain \in Nat /\ chain < 2 * Half
      /\ other \in Nat /\ other < 2 * Half
  BY WordAssumption, ChainsAssumption, SMT
<1>2. v - 2 * Signed(other) - 35 \notin {0, 1}
  BY <1>1 DEF EIP155V, Abs, Signed
<1>3. Protected(v)
  BY <1>1 DEF Protected, LowWord, EIP155V, Abs, Signed, Sound, KeepsSign, Negative
<1>4. t.v = v
  BY DEF Telegram
<1> HIDE DEF v, t
<1>5. EIP155Sender(t, other) = {"error"}
  BY <1>2, <1>3, <1>4 DEF EIP155Sender, Recover
<1> QED BY <1>5 DEF t, v

\* Every signer takes a Frontier telegram for one.
LEMMA FrontierTelegram ==
  ASSUME NEW key, NEW chain, NEW parity \in {0, 1}
  PROVE  EIP155Sender(Telegram(key, 0, parity, FrontierV(parity)), chain) = {key}
<1> DEFINE v == FrontierV(parity)
           t == Telegram(key, 0, parity, v)
<1>1. v \in {27, 28} /\ v - 27 = parity
  BY DEF FrontierV
<1>2. ~Protected(v)
  BY <1>1, WordAssumption DEF Protected, LowWord
<1>3. t.v = v /\ t.hash = HashOf(0) /\ t.key = key /\ t.parity = parity
  BY DEF Telegram
<1> HIDE DEF v, t
<1>4. EIP155Sender(t, chain) = Recover(HashOf(0), t, parity)
  BY <1>1, <1>2, <1>3 DEF EIP155Sender, FrontierSender
<1>5. Recover(HashOf(0), t, parity) = {key}
  BY <1>3 DEF Recover
<1> QED BY <1>4, <1>5 DEF t, v

\* What a signer takes for the provider of a response of its own chain.
LEMMA OwnProvider ==
  ASSUME NEW key, NEW chain \in Chains, NEW parity \in {0, 1}, KeepsSign(chain)
  PROVE  EIP155Provider(Telegram(key, chain, parity, EIP155V(parity, chain)), chain)
           = {key}
<1> DEFINE v == EIP155V(parity, chain)
           t == Telegram(key, chain, parity, v)
<1>1. /\ Half \in Nat /\ Half >= 64
      /\ chain \in Nat /\ chain < 2 * Half
  BY WordAssumption, ChainsAssumption, SMT
<1>2. v - 2 * Signed(chain) - 35 = parity
  BY <1>1 DEF EIP155V, Abs, Signed, KeepsSign, Negative
<1>3. t.v = v /\ t.key = key /\ t.parity = parity
  BY DEF Telegram
<1> HIDE DEF v, t
<1>4. EIP155Provider(t, chain) = Recover(t.hash, t, parity)
  BY <1>2, <1>3 DEF EIP155Provider
<1>5. Recover(t.hash, t, parity) = {key}
  BY <1>3 DEF Recover
<1> QED BY <1>4, <1>5 DEF t, v

\* The first telegram of a chain that is not sound is not recovered to its key:
\* its V is taken for one of before EIP155, or has lost its sign.
LEMMA UnsoundChain ==
  ASSUME NEW key \in Keys, NEW chain \in Chains, ~Sound(chain)
  PROVE  key \notin EIP155Sender(Telegram(key, chain, 0, EIP155V(0, chain)), chain)
<1> DEFINE v == EIP155V(0, chain)
           t == Telegram(key, chain, 0, v)
<1>1. /\ Half \in Nat /\ Half >= 64
      /\ chain \in Nat /\ chain < 2 * Half
  BY WordAssumption, ChainsAssumption, SMT
<1>2. chain # 0
  BY <1>1 DEF Sound, KeepsSign, Negative
<1>3. Protected(v) => v - 2 * Signed(chain) - 35 \notin {0, 1}
  BY <1>1 DEF Protected, LowWord, EIP155V, Abs, Signed, Sound, KeepsSign, Negative
<1>4. t.v = v /\ t.hash = HashOf(chain) /\ t.key = key /\ t.parity = 0
  BY DEF Telegram
<1>5. key \notin {"stranger", "error"}
  BY KeysAssumption
<1> HIDE DEF v, t
<1>6. Protected(v) => key \notin EIP155Sender(t, chain)
  BY <1>3, <1>4, <1>5 DEF EIP155Sender, Recover
<1>7. ~Protected(v) => key \notin EIP155Sender(t, chain)
  BY <1>2, <1>4, <1>5 DEF EIP155Sender, FrontierSender, Recover, HashOf
<1> QED BY <1>6, <1>7 DEF t, v

\* The first response of a chain whose V loses its sign has no provider.
LEMMA LostProvider ==
  ASSUME NEW key \in Keys, NEW chain \in Chains, ~KeepsSign(chain)
  PROVE  EIP155Provider(Telegram(key, chain, 0, EIP155V(0, chain)), chain)
           = {"error"}
<1> DEFINE v == EIP155V(0, chain)
           t == Telegram(key, chain, 0, v)
<1>1. /\ Half \in Nat /\ Half >= 64
      /\ chain \in Nat /\ chain < 2 * Half
  BY WordAssumption, ChainsAssumption, SMT
<1>2. v - 2 * Signed(chain) - 35 \notin {0, 1}
  BY <1>1 DEF EIP155V, Abs, Signed, KeepsSign, Negative
<1>3. t.v = v
  BY DEF Telegram
<1> HIDE DEF v, t
<1>4. EIP155Provider(t, chain) = {"error"}
  BY <1>2, <1>3 DEF EIP155Provider, Recover
<1> QED BY <1>4 DEF t, v

\* Sound and KeepsSign leave out nothing: a chain id is sound exactly if Sender
\* recovers every telegram that its own signer makes, whatever the parity of the
\* signature, and keeps its sign exactly if Provider recovers every response.
THEOREM SoundIsExact ==
  ASSUME NEW key \in Keys, NEW chain \in Chains
  PROVE  /\ Sound(chain) <=>
              \A parity \in {0, 1} :
                EIP155Sender(Telegram(key, chain, parity, EIP155V(parity, chain)), chain)
                  = {key}
         /\ KeepsSign(chain) <=>
              \A parity \in {0, 1} :
                EIP155Provider(Telegram(key, chain, parity, EIP155V(parity, chain)), chain)
                  = {key}
<1>1. Sound(chain) =>
        \A parity \in {0, 1} :
          EIP155Sender(Telegram(key, chain, parity, EIP155V(parity, chain)), chain) = {key}
  BY OwnChain
<1>2. KeepsSign(chain) =>
        \A parity \in {0, 1} :
          EIP155Provider(Telegram(key, chain, parity, EIP155V(parity, chain)), chain) = {key}
  BY OwnProvider
<1>3. ~Sound(chain) =>
        EIP155Sender(Telegram(key, chain, 0, EIP155V(0, chain)), chain) # {key}
  BY UnsoundChain
<1>4. ~KeepsSign(chain) =>
        EIP155Provider(Telegram(key, chain, 0, EIP155V(0, chain)), chain) # {key}
  BY LostProvider, KeysAssumption
<1> QED BY <1>1, <1>2, <1>3, <1>4

-----------------------------------------------------------------------------
(* The inductive invariant. *)

MadeBy(key, signer, chain, parity, v) ==
  /\ tele = Telegram(key, chain, parity, v)
  /\ made = [signer |-> signer, key |-> key, chain |-> chain]

\* The telegram is as one of the signers makes it.
FrontierMade ==
  \E key \in Keys, parity \in {0, 1} :
    MadeBy(key, "frontier", 0, parity, FrontierV(parity))

EIP155Made ==
  \E key \in Keys, chain \in Chains, parity \in {0, 1} :
    MadeBy(key, "eip155", chain, parity, EIP155V(parity, chain))

\* The answer is one that the signer asked can give of this telegram.
SenderGave ==
  \E chain \in Chains : \E who \in EIP155Sender(tele, chain) :
    from = [role |-> "sender", chain |-> chain, who |-> who]

ProviderGave ==
  \E chain \in Chains : \E who \in EIP155Provider(tele, chain) :
    from = [role |-> "provider", chain |-> chain, who |-> who]

Answered ==
  /\ \/ tele = NoTele /\ made = Unsigned
     \/ FrontierMade
     \/ EIP155Made
  /\ \/ from = Nobody
     \/ tele # NoTele /\ (SenderGave \/ ProviderGave)

LEMMA InitAnswered == Init => Answered
  BY DEF Init, Answered

LEMMA NextAnswered == Answered /\ [Next]_vars => Answered'
<1> SUFFICES ASSUME Answered, [Next]_vars PROVE Answered'
  OBVIOUS
<1>1. ASSUME NEW key \in Keys, SignFrontier(key) PROVE Answered'
  <2>1. from = Nobody /\ from' = Nobody
    BY <1>1 DEF SignFrontier, Answered
  <2>2. FrontierMade'
    BY <1>1 DEF SignFrontier, FrontierMade, MadeBy
  <2> QED BY <2>1, <2>2 DEF Answered
<1>2. ASSUME NEW key \in Keys, NEW chain \in Chains, SignEIP155(key, chain)
      PROVE  Answered'
  <2>1. from = Nobody /\ from' = Nobody
    BY <1>2 DEF SignEIP155, Answered
  <2>2. EIP155Made'
    BY <1>2 DEF SignEIP155, EIP155Made, MadeBy
  <2> QED BY <2>1, <2>2 DEF Answered
<1>3. ASSUME NEW chain \in Chains, Sender(chain) PROVE Answered'
  <2>1. tele # NoTele /\ tele' = tele /\ made' = made
    BY <1>3 DEF Sender
  <2>2. PICK who \in EIP155Sender(tele, chain) :
          from' = [role |-> "sender", chain |-> chain, who |-> who]
    BY <1>3 DEF Sender
  <2>3. SenderGave'
    BY <2>1, <2>2 DEF SenderGave
  <2>4. (FrontierMade \/ EIP155Made)'
    BY <2>1 DEF Answered, FrontierMade, EIP155Made, MadeBy
  <2> QED BY <2>1, <2>3, <2>4 DEF Answered
<1>4. ASSUME NEW chain \in Chains, Provider(chain) PROVE Answered'
  <2>1. tele # NoTele /\ tele' = tele /\ made' = made
    BY <1>4 DEF Provider
  <2>2. PICK who \in EIP155Provider(tele, chain) :
          from' = [role |-> "provider", chain |-> chain, who |-> who]
    BY <1>4 DEF Provider
  <2>3. ProviderGave'
    BY <2>1, <2>2 DEF ProviderGave
  <2>4. (FrontierMade \/ EIP155Made)'
    BY <2>1 DEF Answered, FrontierMade, EIP155Made, MadeBy
  <2> QED BY <2>1, <2>3, <2>4 DEF Answered
<1>5. CASE UNCHANGED vars
  BY <1>5 DEF vars, Answered, FrontierMade, EIP155Made, MadeBy,
              SenderGave, ProviderGave
<1> QED BY <1>1, <1>2, <1>3, <1>4, <1>5 DEF Next

LEMMA AlwaysAnswered == Spec => []Answered
  BY InitAnswered, NextAnswered, PTL DEF Spec

-----------------------------------------------------------------------------
(* What an answer about a telegram of an EIP155 signer is. *)

LEMMA SenderAnswer ==
  ASSUME Answered, Asked("sender")
  PROVE  \E key \in Keys, chain \in Chains, parity \in {0, 1} :
           /\ made.key = key /\ made.chain = chain
           /\ from.chain \in Chains
           /\ from.who \in EIP155Sender(Telegram(key, chain, parity,
                                          EIP155V(parity, chain)), from.chain)
<1>1. PICK key \in Keys, chain \in Chains, parity \in {0, 1} :
        MadeBy(key, "eip155", chain, parity, EIP155V(parity, chain))
  BY DEF Answered, Asked, Unsigned, FrontierMade, EIP155Made, MadeBy
<1>2. SenderGave
  BY DEF Answered, Asked, Nobody, ProviderGave
<1>3. from.chain \in Chains /\ from.who \in EIP155Sender(tele, from.chain)
  BY <1>2 DEF SenderGave
<1> QED BY <1>1, <1>3 DEF MadeBy

\* A signer recovers the key of a telegram of its own sound chain, at every
\* width of the word: the round trip of SignTele and Sender.
THEOREM OwnTelegrams == Spec => []SenderIsSigner
<1>1. Answered => SenderIsSigner
  BY SenderAnswer, OwnChain DEF SenderIsSigner
<1> QED BY <1>1, AlwaysAnswered, PTL

\* Sender of another positive chain id fails.
THEOREM Mismatches == Spec => []MismatchIsError
<1>1. Answered => MismatchIsError
  BY SenderAnswer, OtherChainFails DEF MismatchIsError
<1> QED BY <1>1, AlwaysAnswered, PTL

\* No other chain's signer credits the signer, whatever both ids are: what
\* EIP155 puts the chain id in the hash for.
THEOREM NoReplay == Spec => []ReplayRejected
<1>1. Answered => ReplayRejected
  BY SenderAnswer, OtherChain DEF ReplayRejected
<1> QED BY <1>1, AlwaysAnswered, PTL

\* Telegrams of before EIP155 keep their signer on every chain.
THEOREM FrontierTelegrams == Spec => []FrontierAccepted
<1>1. ASSUME Answered, from.role = "sender", made.signer = "frontier"
      PROVE  from.who = made.key
  <2>1. PICK key \in Keys, parity \in {0, 1} :
          MadeBy(key, "frontier", 0, parity, FrontierV(parity))
    BY <1>1 DEF Answered, Unsigned, FrontierMade, EIP155Made, MadeBy
  <2>2. SenderGave
    BY <1>1 DEF Answered, Nobody, ProviderGave
  <2>3. from.who \in EIP155Sender(tele, from.chain)
    BY <2>2 DEF SenderGave
  <2> QED BY <2>1, <2>3, FrontierTelegram DEF MadeBy
<1>2. Answered => FrontierAccepted
  BY <1>1 DEF FrontierAccepted
<1> QED BY <1>2, AlwaysAnswered, PTL

\* Provider recovers the key of a response of its own chain, whenever V keeps
\* its sign.
THEOREM OwnResponses == Spec => []ProviderIsSigner
<1>1. ASSUME Answered, Asked("provider"), from.chain = made.chain,
             KeepsSign(made.chain)
      PROVE  from.who = made.key
  <2>1. PICK key \in Keys, chain \in Chains, parity \in {0, 1} :
          MadeBy(key, "eip155", chain, parity, EIP155V(parity, chain))
    BY <1>1 DEF Answered, Asked, Unsigned, FrontierMade, EIP155Made, MadeBy
  <2>2. ProviderGave
    BY <1>1 DEF Answered, Asked, Nobody, SenderGave
  <2>3. from.who \in EIP155Provider(tele, from.chain)
    BY <2>2 DEF ProviderGave
  <2> QED BY <1>1, <2>1, <2>3, OwnProvider DEF MadeBy
<1>2. Answered => ProviderIsSigner
  BY <1>1 DEF ProviderIsSigner
<1> QED BY <1>2, AlwaysAnswered, PTL
=============================================================================
