SPECIFICATION FairSpec
CONSTANTS
  r1 = r1 r2 = r2
  Requests = {r1, r2}
  MaxSignals = 2
INVARIANTS ExitExplained
PROPERTY AlwaysEnds
