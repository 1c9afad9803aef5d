SPECIFICATION FairSpec
CONSTANTS
  u1 = u1 u2 = u2 old = old new = new list = list bad = bad same = same changed = changed
  k1 = k1 k2 = k2 m1 = m1 w1 = w1 NoRaw = NoRaw
  UIDs = {u1, u2}
  Raws = {NoRaw, old, new, list, bad}
  Decodes <- MCDecodes
  Names = {k1, k2}
  MaxBytes = 2
  Requests <- MCRequests
  Webhooks <- MCWebhooks
  Docs = {same, changed}
  Messages = {m1}
  Warnings <- MCWarnings
INVARIANTS TypeOK ResponseTable RightObject BodyLimitExact
PROPERTIES ServiceSpec Answered
