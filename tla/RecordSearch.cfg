SPECIFICATION FairSpec
CONSTANTS
  Versions = {1, 2, 3}
  threads_number = 2
  number_of_records = 2
  FileRecords = 3
  NoThread = NoThread
INVARIANTS
  BatchesAreWhole
  ReportedOnce
PROPERTIES
  Ends
