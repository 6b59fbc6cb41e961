SPECIFICATION FairSpec
CONSTANTS
  c1 = c1
  c2 = c2
  c3 = c3
  NoPid = NoPid
  Clients = {c1, c2, c3}
  MaxChairs = 1
  Cuts = 1
  Interruptible = {c1}
  BarberMayQuit = TRUE
INVARIANTS
  IInv
  CutsClientsOnly
PROPERTIES
  OnlyLockHoldersHarm
  AllServed
\* An interrupted process leaves the others blocked.
CHECK_DEADLOCK FALSE
