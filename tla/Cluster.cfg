SPECIFICATION FairSpec
CONSTANTS
  c1 = c1
  c2 = c2
  Clients = {c1, c2}
  NoClient = NoClient
  MAX_CLIENTS_NUMBER = 3
  Operations = 2
INVARIANTS
  ForgottenOnlyIfHit
  StaleOnlyAfterReset
PROPERTIES
  GoneAreClosed
\* With nothing typed in and nobody there the server waits for ever.
CHECK_DEADLOCK FALSE
