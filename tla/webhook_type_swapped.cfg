SPECIFICATION Spec
CONSTANTS
  r1 = r1 mh = mh vh = vh cluster = cluster
  Requests = {r1}
  Handlers = {mh, vh}
  Kind <- MCKind
  UserValues = {cluster}
  MaxSpans = 4
INVARIANT WebhookTypeTraced
