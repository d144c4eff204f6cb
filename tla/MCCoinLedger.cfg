SPECIFICATION Spec
CONSTANTS
  h1 = h1
  h2 = h2
  alice = alice
  Nil = Nil
  Handlers <- MCHandlers
  Users <- MCUsers
  Changes <- MCChanges
  Unit = 3
  MaxQuantity = 3
  MaxRows = 3
  MaxRounded = 2
INVARIANT TableKeepsLedger
PROPERTIES
  RefusedOnlyIfShort
  ProfileIsRepaired
