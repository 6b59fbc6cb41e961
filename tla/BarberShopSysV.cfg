SPECIFICATION FairSpec
CONSTANTS
  c1 = c1
  c2 = c2
  NoPid = NoPid
  Clients = {c1, c2}
  MaxChairs = 1
  Cuts = 2
  BarberMayQuit = TRUE
PROPERTIES
  ImplementsShopUntilQuit
  AllServedOrQuit
  QuitUnblocksClients
\* Clients in sigsuspend when the barber quits wait for ever.
CHECK_DEADLOCK FALSE
