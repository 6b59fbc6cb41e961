\* Four list nodes, five contacts with equal names and surnames among them, files
\* of up to four records with three different first bytes, and two users of two
\* characters of a locked file; two pids and five chairs, the fewest the barber takes.
CONSTANTS
    Nodes = {1, 2, 3, 4}
    Contacts = {1, 2, 3, 4, 5}
    Null = 0
    Bytes = {1, 2, 3}
    MaxRecords = 4
    Users = {u1, u2}
    Chars = {1, 2}
    Clients = {c1, c2}
    NoPid = NoPid
    MaxChairs = 5
SPECIFICATION LibrariesSpec
INVARIANTS NobodyLost EverybodyFound SortsInPlace LocksHold
PROPERTIES TreeLosesNobody ImplementsWaitingRoom
\* A user may leave the menu, and a freed or corrupted list is not followed.
CHECK_DEADLOCK FALSE
