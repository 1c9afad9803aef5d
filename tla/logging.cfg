SPECIFICATION Spec
CONSTANTS
  r1 = r1 r2 = r2 mh = mh vh = vh prod = prod none = none one = one Absent = Absent
  Requests = {r1, r2}
  Hooks = {mh, vh}
  Keys <- MCKeys
  Values = {r1, r2, mh, vh, prod, none, one}
  Base <- MCBase
  Depth = 2
  Own <- MCOwn
INVARIANTS TypeOK LinesAreTheirOwn
PROPERTY AttachedMapsFixed
