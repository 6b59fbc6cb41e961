SPECIFICATION Spec
CONSTANTS
  r1 = r1
  w1 = w1
  NoThread = NoThread
  Readers = {r1}
  Writers = {w1}
  reader_reads_number = 1
  writer_writes_number = 1
INVARIANTS
  WritesOnlyTheArray
