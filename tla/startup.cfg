CONSTANTS
  MaxStops = 3
  MaxResets = 1
SPECIFICATION FairSpec
INVARIANTS TypeOK CertHasItsKey UntoldOnlyIfCut
PROPERTIES CertIsKept ComesUp
CHECK_DEADLOCK FALSE
