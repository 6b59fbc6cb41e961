\* Three children of whom two are let through; three signals; three lines of up
\* to four programs; two clients of each message queue server and two names of
\* queues; three threads, batches of two records and a file of three.
CONSTANTS
    Children = {1, 2, 3}
    child_requests_number = 2
    None = 0
    MaxSignals = 3
    MaxPrograms = 4
    MaxLines = 3
    Clients = {c1, c2}
    Msqid = msqid
    SharedQueue = shared
    Names = {n1, n2}
    threads_number = 3
    number_of_records = 2
    FileRecords = 3
SPECIFICATION ProcessesSpec
INVARIANTS CountsAddUp EndsMeet OneMessage
PROPERTIES ParentExits EveryWaitEnds ServerEndEndsClients AnsweredOrStopped RunsToTheEnd
\* Every program ends, or is left waiting as the properties say.
CHECK_DEADLOCK FALSE
