\* Three commands over two stores; one of five peers is dialled.
CONSTANTS
  Cmds = {c1, c2, c3}
  NStores = 2
  Nets = {netA, netB}
  NoFile = NoFile
  EmptyFile = EmptyFile
  MixedFile = MixedFile
  NoKey = NoKey
  PeerFlags <- FlagsGiven
  DefaultIn = 32
  DefaultOut = 8
  DialShare = 5
SYMMETRY Symmetry
SPECIFICATION Spec
INVARIANTS
  TypeOK
  CommandsDeliver
  FailureStopsThere
  OneIdentity
  StartedWhole
  RunsOnFile
  LimitsHonoured
CHECK_DEADLOCK FALSE
