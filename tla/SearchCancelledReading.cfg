SPECIFICATION Spec
CONSTANTS
  Versions = {2}
  threads_number = 2
  number_of_records = 1
  FileRecords = 2
  NoThread = NoThread
INVARIANT
  NotCancelledWhileReading
CHECK_DEADLOCK FALSE
