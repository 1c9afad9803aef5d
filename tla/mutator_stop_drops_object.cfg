SPECIFICATION Spec
CONSTANTS
  a = a b = b c = c s = s root = root inner = inner empty = empty
  oa = oa ob = ob o0 = o0 wa = wa wb = wb ws = ws Nil = Nil Torn = Torn Root = root
  Requests = {"r1"}
  Mutators = {a, b}
  Chains = {root}
  Elements <- FlatElements
  Leaves <- FlatLeaves
  Returns <- FlatReturns
  Objects = {o0, oa, ob}
  Warnings = {wa, wb}
  Prepared <- FlatPrepared
INVARIANT StoppedObjectKept
