SPECIFICATION FairSpec
CONSTANTS
  c1 = c1
  c2 = c2
  NoPid = NoPid
  Clients = {c1, c2}
  MaxChairs = 1
  Cuts = 2
  Interruptible = {c1}
  BarberMayQuit = FALSE
PROPERTIES
  OthersServed
CHECK_DEADLOCK FALSE
