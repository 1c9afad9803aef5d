SPECIFICATION MetricsSpec
CONSTANTS
  r1 = r1 r2 = r2 mw = mw vw = vw uw = uw
  n1 = n1 n2 = n2 n3 = n3 own = own Default = Default None = None User = User
  Recorders = {n1, n2, n3}
  Registries = {Default, own}
  Given <- MCGiven
  UserNames <- MCUserNames
  Reviews = {r1, r2}
  Webhooks = {mw, vw, uw}
  Kind <- MCKind
  Rec <- MCRec
  MaxWarnings = 2
SYMMETRY ReviewSymmetry
INVARIANTS ScrapeConsistent
