SPECIFICATION FairSpec
CONSTANTS
  a = a b = b c = c s = s root = root inner = inner empty = empty
  oa = oa ob = ob o0 = o0 wa = wa wb = wb ws = ws Nil = Nil Torn = Torn Root = root
  Requests = {"r1", "r2"}
  Mutators = {a, c, s}
  Chains = {root, inner, empty}
  Elements <- NestedElements
  Leaves <- NestedLeaves
  Returns <- NestedReturns
  Objects = {o0, oa}
  Warnings = {wa, ws}
  Prepared <- NestedPrepared
INVARIANTS TypeOK WarningsKept ObjectThreaded OneLateCall
PROPERTIES ReviewSpec SharedObjectsUntouched Termination
