SPECIFICATION FairSpec
CONSTANTS
  a = a b = b s = s root = root inner = inner empty = empty
  ma = ma mb = mb wa = wa wb = wb ws = ws Torn = Torn NoMessage = NoMessage
  Requests = {"r1", "r2"}
  Validators = {a, b, s}
  Chains = {root, inner, empty}
  Root = root
  Elements <- MCElements
  Leaves <- MCLeaves
  Messages = {ma, mb}
  Warnings = {wa, wb, ws}
  Returns <- MCReturns
  Prepared <- MCPrepared
INVARIANTS TypeOK AllowedOnlyIfAllValid DenialKept WarningsKept
PROPERTIES ReviewSpec SharedVerdictsUntouched Termination
