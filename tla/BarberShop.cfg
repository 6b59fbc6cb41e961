\* Two chairs and a client who comes back before the barber has called the next
\* one: the room gets full, and the ring goes round.
SPECIFICATION Spec
CONSTANTS
  c1 = c1
  c2 = c2
  c3 = c3
  NoPid = NoPid
  Clients = {c1, c2, c3}
  MaxChairs = 2
  Cuts = 2
  Interruptible = {}
  BarberMayQuit = FALSE
INVARIANTS
  QueueExclusion
  DozeNeverBlocks
  VisitAccounted
PROPERTIES
  ImplementsSleepingBarber
