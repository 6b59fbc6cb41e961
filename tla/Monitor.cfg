SPECIFICATION FairSpec
CONSTANTS
  r1 = r1
  r2 = r2
  w1 = w1
  w2 = w2
  NoThread = NoThread
  Readers = {r1, r2}
  Writers = {w1, w2}
  reader_reads_number = 2
  writer_writes_number = 1
INVARIANTS
  CountersExact
  SomebodyWillBroadcast
PROPERTIES
  ImplementsReadersWriters
  WritersPreferred
  ReadersFinish
