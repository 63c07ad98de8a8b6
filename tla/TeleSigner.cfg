\* A word of seven bits, every chain id.  A telegram is signed once and asked
\* about once: then nothing is left to do.
SPECIFICATION Spec
CONSTANTS
  k1 = k1
  k2 = k2
  Half = 64
  Chains <- AllChains
  Keys = {k1, k2}
INVARIANTS SenderIsSigner MismatchIsError ReplayRejected FrontierAccepted ProviderIsSigner
CHECK_DEADLOCK FALSE
