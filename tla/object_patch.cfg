SPECIFICATION Spec
CONSTANTS
  v = v zero = zero null = null none = none static = static dynamic = dynamic
  Fields = {"unknown", "omitted", "always", "pointer"}
  Class <- MCClass
  Values = {v, zero}
  Zero = zero
  Null = null
  None = none
  Webhooks = {static, dynamic}
  Type <- MCType
  MaxChanges = 2
INVARIANTS PatchApplies StoredIsMeant OthersUntouched Settles
