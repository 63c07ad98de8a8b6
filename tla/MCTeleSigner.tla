----------------------------- MODULE MCTeleSigner -----------------------------
(* A word of seven bits for TLC, and signers of every chain id it holds. *)
EXTENDS TeleSigner

CONSTANTS k1, k2

AllChains == 0 .. 2 * Half - 1
=============================================================================
