------------------------------ MODULE TeleSigner ------------------------------
(***************************************************************************)
(* Signing a telegram and recovering who signed it (telepool/telesigner.go)*)
(* with the Frontier and the EIP155 signer, and the provider of a response.*)
(* The arithmetic of V is the code's: the chain id is an unsigned word     *)
(* that is converted to a signed one, V is a big integer that travels as   *)
(* the bytes of its absolute value, and its low word decides whether it is *)
(* "protected".  Keys and hashes are ideal: a signature is recovered to    *)
(* its key from the signed hash and parity, and to a stranger, or not at   *)
(* all, from another.  One telegram stands for all, and the fields that    *)
(* its hash covers besides the chain id are left out.                      *)
(***************************************************************************)
EXTENDS Integers

CONSTANTS
  Half,        \* 2^63: half of the values of the machine's word
  Chains,      \* chain ids that signers are made with
  Keys

ASSUME WordAssumption == Half \in Nat /\ Half >= 64
ASSUME ChainsAssumption == Chains \subseteq 0 .. 2 * Half - 1
ASSUME KeysAssumption == Keys \cap {"stranger", "error"} = {}

VARIABLES
  tele,        \* the telegram: V, and what its signature was made of
  made,        \* history: which signer made it, with which key and chain id
  from         \* what Sender or Provider returned, and to whom

vars == <<tele, made, from>>

-----------------------------------------------------------------------------
(* The arithmetic. *)

Abs(n) == IF n < 0 THEN -n ELSE n

\* int64(chainID)
Signed(chain) == IF chain < Half THEN chain ELSE chain - 2 * Half

\* CalculateV; Bytes drops the sign.
FrontierV(parity) == parity + 27
EIP155V(parity, chain) == Abs(parity + 35 + 2 * Signed(chain))

\* bigV.Uint64(): V never reaches two words more.
LowWord(v) == IF v < 2 * Half THEN v ELSE v - 2 * Half

Protected_Above28(v) == LowWord(v) > 28
Protected_Never27(v) == LowWord(v) # 28
Protected(v) == LowWord(v) \notin {27, 28}

\* calcTeleHash: a chain id of zero is left out of the hash.
HashOf_NoChain(chain) == 0
HashOf(chain) == chain

\* encodeSignature and Ecrecover: all the outcomes they can have.
Recover(hash, t, parity) ==
  IF parity \notin {0, 1} THEN {"error"}
  ELSE IF hash = t.hash /\ parity = t.parity THEN {t.key}
  ELSE {"stranger", "error"}

FrontierSender(t) == Recover(HashOf(0), t, t.v - 27)

EIP155Sender_AnyChain(t, chain) ==
  IF Protected(t.v) THEN Recover(HashOf(chain), t, (t.v - 35) % 2)
  ELSE FrontierSender(t)
EIP155Sender(t, chain) ==
  IF Protected(t.v)
  THEN Recover(HashOf(chain), t, t.v - 2 * Signed(chain) - 35)
  ELSE FrontierSender(t)

\* The response carries the hash that its provider signed, and its V is
\* always taken for an EIP155 one.
EIP155Provider_Checked(t, chain) ==
  IF Protected(t.v) THEN Recover(t.hash, t, t.v - 2 * Signed(chain) - 35)
  ELSE FrontierSender(t)
EIP155Provider(t, chain) == Recover(t.hash, t, t.v - 2 * Signed(chain) - 35)

-----------------------------------------------------------------------------
NoTele == [key |-> "none"]
Unsigned == [signer |-> "none"]
Nobody == [role |-> "none"]

Init == tele = NoTele /\ made = Unsigned /\ from = Nobody

Telegram(key, chain, parity, v) ==
  [key |-> key, hash |-> HashOf(chain), parity |-> parity, v |-> v]

\* SignTele of the two signers.
SignFrontier(key) ==
  /\ tele = NoTele
  /\ \E parity \in {0, 1} : tele' = Telegram(key, 0, parity, FrontierV(parity))
  /\ made' = [signer |-> "frontier", key |-> key, chain |-> 0]
  /\ UNCHANGED from

SignEIP155(key, chain) ==
  /\ tele = NoTele
  /\ \E parity \in {0, 1} :
       tele' = Telegram(key, chain, parity, EIP155V(parity, chain))
  /\ made' = [signer |-> "eip155", key |-> key, chain |-> chain]
  /\ UNCHANGED from

Sender(chain) ==
  /\ tele # NoTele /\ from = Nobody
  /\ \E who \in EIP155Sender(tele, chain) :
       from' = [role |-> "sender", chain |-> chain, who |-> who]
  /\ UNCHANGED <<tele, made>>

Provider(chain) ==
  /\ tele # NoTele /\ from = Nobody
  /\ \E who \in EIP155Provider(tele, chain) :
       from' = [role |-> "provider", chain |-> chain, who |-> who]
  /\ UNCHANGED <<tele, made>>

Next ==
  \/ \E key \in Keys :
       SignFrontier(key) \/ \E chain \in Chains : SignEIP155(key, chain)
  \/ \E chain \in Chains : Sender(chain) \/ Provider(chain)

Spec == Init /\ [][Next]_vars

-----------------------------------------------------------------------------
(* Properties. *)

\* A network id of at least 2^63 is the negative number Negative(chain) of
\* the genesis file.  These ids keep the sign of V, the others lose it.
Negative(chain) == 2 * Half - chain
KeepsSign(chain) == chain < Half \/ Negative(chain) <= 17

\* Sender takes V of two ids for one of before EIP155: V is 27 or 28 for -4,
\* and its low word is for 2^63 - 4.
Sound(chain) == KeepsSign(chain) /\ Negative(chain) # 4 /\ chain # Half - 4

Asked(role) == from.role = role /\ made.signer = "eip155"

\* A telegram that a signer of some chain signed is recovered to its key by a
\* signer of the same chain, and never fails (what the tests of Sender check
\* for small ids): for every sound id up to the last that the word holds.
SenderIsSigner ==
  Asked("sender") /\ from.chain = made.chain /\ Sound(made.chain)
  => from.who = made.key

\* "There should be an error for mismatched chain IDs" (telesigner_test.go):
\* for sound chain ids that are not negative.
MismatchIsError ==
  Asked("sender") /\ from.chain # made.chain
    /\ Sound(made.chain) /\ made.chain < Half /\ from.chain < Half
  => from.who = "error"

\* A telegram signed for one chain is never credited to its signer on another:
\* not by the collisions of V, nor as a telegram of before EIP155.
ReplayRejected ==
  Asked("sender") /\ from.chain # made.chain => from.who # made.key

\* Frontier telegrams are accepted on every chain.
FrontierAccepted ==
  from.role = "sender" /\ made.signer = "frontier" => from.who = made.key

\* The provider of a response is its signer also for 2^63 - 4 and -4: Provider
\* has no telegrams of before EIP155 to tell apart.
ProviderIsSigner ==
  Asked("provider") /\ from.chain = made.chain /\ KeepsSign(made.chain)
  => from.who = made.key
=============================================================================
