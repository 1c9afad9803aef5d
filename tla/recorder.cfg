SPECIFICATION FairSpec
CONSTANTS
  n1 = n1 n2 = n2 n3 = n3 n4 = n4 n5 = n5 own = own Default = Default None = None User = User
  Recorders = {n1, n2, n3, n4, n5}
  Registries = {Default, own}
  Given <- MCGiven
  UserNames <- MCUserNames
INVARIANTS TypeOK ReadyOwnsAll
PROPERTY SomeoneWins
