SPECIFICATION Spec
CONSTANTS
  h1 = h1
  h2 = h2
  alice = alice
  None = None
  Handlers <- MCHandlers
  Names <- MCNames
  TokenLimit = 3
INVARIANTS
  ExchangedOnce
  OneSessionPerLogin
PROPERTIES
  LoggedOutIsSpent
  CallsAreAnswered
