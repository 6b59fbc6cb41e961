---------------------------- MODULE LibraryProofs ----------------------------
(***************************************************************************)
(* Proofs about three parts without a schedule of their own: the ring      *)
(* buffer of the barber shop, my_queue.c, under any sequence of calls      *)
(* (MyQueueCalls), the file locks of cw02/zad3 (FileLocks), whose names    *)
(* have no prefix here, and the sorting of records of cw02/zad1            *)
(* (RecordSort).                                                           *)
(*                                                                         *)
(* The ring buffer is a bounded FIFO queue, for every capacity and every   *)
(* set of clients.  LocksHold is inductive together with the types, for    *)
(* any users and any characters: a look that found nothing found nobody,   *)
(* every lock set later is noted in since by everyone who has looked at    *)
(* that character, and a write lock leaves F_GETLK nothing else to find.   *)
(***************************************************************************)
EXTENDS LibraryParts, MyQueueLemmas, TLAPS

(***************************************************************************)
(* The ring buffer                                                         *)
(***************************************************************************)

\* head and tail stay inside tab, whatever the sequence of calls.
THEOREM QueueTypeCorrect == QueueSpec => []QueueTypeOK
<1>1. QueueInit => QueueTypeOK
  BY MaxChairsAssumption DEF QueueInit, QueueTypeOK, InitQueue, Queues, Slots, Pids
<1>2. QueueTypeOK /\ [QueueNext]_queueVars => QueueTypeOK'
  <2> SUFFICES ASSUME QueueTypeOK, [QueueNext]_queueVars PROVE QueueTypeOK'
    OBVIOUS
  <2>1. CASE PopCall
    BY <2>1, PopType DEF QueueTypeOK, PopCall
  <2>2. ASSUME NEW x \in Clients, PushCall(x) PROVE QueueTypeOK'
    BY <2>2, PushType DEF QueueTypeOK, PushCall
  <2>3. CASE UNCHANGED queueVars
    BY <2>3 DEF QueueTypeOK, queueVars
  <2> QED
    BY <2>1, <2>2, <2>3 DEF QueueNext
<1> QED
  BY <1>1, <1>2, PTL DEF QueueSpec

\* Only clients wait, so pop returns -1 only when the room is empty.
THEOREM OnlyClientsWait == QueueSpec => []WaitingAreClients
<1>1. QueueInit => WaitingAreClients
  BY DEF QueueInit, WaitingAreClients, InitQueue, Length, Contents
<1>2. QueueTypeOK /\ WaitingAreClients /\ [QueueNext]_queueVars => WaitingAreClients'
  BY PopKeepsClients, PushKeepsClients
     DEF QueueTypeOK, WaitingAreClients, QueueNext, PopCall, PushCall, queueVars
<1> QED
  BY <1>1, <1>2, QueueTypeCorrect, PTL DEF QueueSpec

\* push and pop implement the bounded FIFO queue, for every capacity.
THEOREM QueueRefinement == QueueSpec => ImplementsWaitingRoom
<1>1. QueueInit => Room!Init
  BY DEF QueueInit, Room!Init, InitQueue, Length, Contents
<1>2. QueueTypeOK /\ [QueueNext]_queueVars => [Room!Next]_<<Contents(m_queue), result>>
  <2> SUFFICES ASSUME QueueTypeOK, [QueueNext]_queueVars
               PROVE  [Room!Next]_<<Contents(m_queue), result>>
    OBVIOUS
  <2>0. /\ m_queue \in Queues
        /\ Contents(m_queue) \in Seq(Pids)
        /\ Len(Contents(m_queue)) = Length(m_queue)
        /\ Length(m_queue) \in 0 .. MaxChairs
        /\ IsFull(m_queue) <=> Length(m_queue) = MaxChairs
        /\ IsEmpty(m_queue) <=> Length(m_queue) = 0
    BY ContentsType, LengthBounds DEF QueueTypeOK
  <2>1. CASE PopCall
    <3>1. CASE IsEmpty(m_queue)
      <4>1. Contents(m_queue) = << >>
        BY <2>0, <3>1, EmptySeq
      <4>2. Room!NobodyWaits
        BY <2>1, <3>1, <4>1 DEF PopCall, Pop, Popped, Room!NobodyWaits
      <4> QED
        BY <4>2 DEF Room!Next
    <3>2. CASE ~IsEmpty(m_queue)
      <4>1. Room!Call
        BY <2>0, <2>1, <3>2, PopContents DEF PopCall, Room!Call
      <4> QED
        BY <4>1 DEF Room!Next
    <3> QED
      BY <3>1, <3>2
  <2>2. ASSUME NEW x \in Clients, PushCall(x)
        PROVE  [Room!Next]_<<Contents(m_queue), result>>
    <3>1. CASE IsFull(m_queue)
      <4>1. Room!TurnedAway
        BY <2>0, <2>2, <3>1 DEF PushCall, Push, Room!TurnedAway
      <4> QED
        BY <4>1 DEF Room!Next
    <3>2. CASE ~IsFull(m_queue)
      <4>1. Len(Contents(m_queue)) < MaxChairs
        BY <2>0, <3>2, MaxChairsAssumption
      <4>2. Room!Enter(x)
        BY <2>0, <2>2, <3>2, <4>1, PushContents DEF PushCall, Room!Enter
      <4> QED
        BY <4>2 DEF Room!Next
    <3> QED
      BY <3>1, <3>2
  <2>3. CASE UNCHANGED queueVars
    BY <2>3 DEF queueVars
  <2> QED
    BY <2>1, <2>2, <2>3 DEF QueueNext
<1> QED
  BY <1>1, <1>2, QueueTypeCorrect, PTL DEF QueueSpec, ImplementsWaitingRoom, Room!Spec

(***************************************************************************)
(* The file locks                                                          *)
(***************************************************************************)
IInv == TypeOK /\ LocksHold

USE DEF Held, Types, Claims

\* What OnlyRacesShare says of one user.
Accounted(u) ==
  /\ pc[u] \in Held => \A v \in OthersOn(u) : \E claim \in since[u] : claim.user = v
  /\ Writes(u) => \A v \in OthersOn(u) :
        lock[index[u]][v] = "F_WRLCK" => [user |-> v, type |-> "F_WRLCK"] \in since[u]

LEMMA InitHolds == Init => IInv
BY DEF Init, IInv, TypeOK, LocksHold, Exclusive, OnlyRacesShare, OthersOn, Writes

\* A look for a write lock cannot overlook one: it is alone on its character.
LEMMA WriteLockIsFound ==
  ASSUME Exclusive, TypeOK, NEW c \in Chars, NEW u \in Users, NEW v \in Users, u # v,
         lock[c][v] = "F_WRLCK", NEW type, GetLock(u, c, type)
  PROVE  type = "F_WRLCK"
<1>1. Found(u, c) = {"F_WRLCK"}
  <2>1. \A w \in Users \ {v} : lock[c][w] = "F_UNLCK"
    BY DEF Exclusive
  <2>. QED BY <2>1 DEF Found
<1>. QED BY <1>1 DEF GetLock

\* Without a conflict the new lock is compatible with everybody else's.
LEMMA SetLockKeepsExclusive ==
  ASSUME IInv, NEW u \in Users, SetLock(u)
  PROVE  Exclusive'
<1>. USE DEF IInv, TypeOK
<1>1. CASE Conflict(u, index[u], pc[u])
  BY <1>1 DEF SetLock, LocksHold, Exclusive
<1>2. CASE ~Conflict(u, index[u], pc[u])
  <2>1. lock' = [lock EXCEPT ![index[u]][u] = pc[u]]
    BY <1>2 DEF SetLock
  <2>2. \A v \in Users \ {u} : /\ lock[index[u]][v] # "F_WRLCK"
                               /\ pc[u] = "F_WRLCK" => lock[index[u]][v] = "F_UNLCK"
    BY <1>2 DEF Conflict
  <2>3. \A c \in Chars, v \in Users :
           lock'[c][v] = IF c = index[u] /\ v = u THEN pc[u] ELSE lock[c][v]
    BY <2>1
  <2>. QED BY <2>2, <2>3 DEF Exclusive, LocksHold, SetLock
<1>. QED BY <1>1, <1>2

\* Whoever has looked at the character keeps the new lock in mind.
LEMMA SetLockIsNoticed ==
  ASSUME IInv, NEW u \in Users, SetLock(u)
  PROVE  OnlyRacesShare'
<1>. USE DEF IInv, TypeOK
<1>1. CASE Conflict(u, index[u], pc[u])
  BY <1>1 DEF SetLock, LocksHold, OnlyRacesShare, OthersOn, Writes
<1>2. CASE ~Conflict(u, index[u], pc[u])
  <2>1. /\ lock' = [lock EXCEPT ![index[u]][u] = pc[u]]
        /\ since' = Noticed(u, index[u], pc[u])
        /\ pc' = [pc EXCEPT ![u] = "menu"]
        /\ UNCHANGED <<index, l_type>>
    BY <1>2 DEF SetLock
  <2>2. \A c \in Chars, v \in Users :
           lock'[c][v] = IF c = index[u] /\ v = u THEN pc[u] ELSE lock[c][v]
    BY <2>1
  <2>3. ASSUME NEW w \in Users, w # u
        PROVE  /\ since[w] \subseteq since'[w]
               /\ index[w] = index[u] => [user |-> u, type |-> pc[u]] \in since'[w]
    BY <2>1, <2>3 DEF Noticed
  <2>4. ASSUME NEW w \in Users, pc'[w] \in Held, NEW v \in OthersOn(w)'
        PROVE  \E claim \in since'[w] : claim.user = v
    <3>1. w # u /\ pc[w] \in Held /\ v # w /\ v \in Users
      BY <2>1, <2>4 DEF OthersOn
    <3>2. CASE v = u /\ index[w] = index[u]
      BY <2>3, <3>1, <3>2
    <3>3. CASE ~(v = u /\ index[w] = index[u])
      <4>1. v \in OthersOn(w)
        BY <2>1, <2>2, <2>4, <3>1, <3>3 DEF OthersOn
      <4>. QED BY <2>3, <3>1, <4>1 DEF LocksHold, OnlyRacesShare
    <3>. QED BY <3>2, <3>3
  <2>5. ASSUME NEW w \in Users, Writes(w)', NEW v \in OthersOn(w)', lock'[index'[w]][v] = "F_WRLCK"
        PROVE  [user |-> v, type |-> "F_WRLCK"] \in since'[w]
    <3>1. w # u /\ Writes(w) /\ v # w /\ v \in Users
      BY <2>1, <2>5 DEF OthersOn, Writes
    <3>2. CASE v = u /\ index[w] = index[u]
      BY <2>1, <2>2, <2>3, <2>5, <3>1, <3>2
    <3>3. CASE ~(v = u /\ index[w] = index[u])
      <4>1. v \in OthersOn(w) /\ lock[index[w]][v] = "F_WRLCK"
        BY <2>1, <2>2, <2>5, <3>1, <3>3 DEF OthersOn
      <4>. QED BY <2>3, <3>1, <4>1 DEF LocksHold, OnlyRacesShare
    <3>. QED BY <3>2, <3>3
  <2>. QED BY <2>4, <2>5 DEF OnlyRacesShare
<1>. QED BY <1>1, <1>2

\* One entry of the kernel's table is replaced.
LEMMA TableStays ==
  ASSUME NEW table \in [Chars -> [Users -> Types]], NEW c \in Chars, NEW u \in Users, NEW type \in Types
  PROVE  [table EXCEPT ![c][u] = type] \in [Chars -> [Users -> Types]]
OBVIOUS

LEMMA TypesStay == IInv /\ [Next]_vars => TypeOK'
<1>. SUFFICES ASSUME IInv, [Next]_vars PROVE TypeOK'
  OBVIOUS
<1>. USE DEF IInv, TypeOK
<1>1. ASSUME NEW u \in Users, SetLock(u) PROVE TypeOK'
  <2>1. [user |-> u, type |-> pc[u]] \in Claims
    BY <1>1 DEF SetLock
  <2>2. Noticed(u, index[u], pc[u]) \in [Users -> SUBSET Claims]
    BY <2>1 DEF Noticed
  <2>3. since' \in [Users -> SUBSET Claims]
    BY <1>1, <2>2 DEF SetLock
  <2>4. pc' \in [Users -> {"menu", "getchar", "done"} \cup Held]
    BY <1>1 DEF SetLock
  <2>5. lock' \in [Chars -> [Users -> Types]]
    <3>1. lock' = lock \/ lock' = [lock EXCEPT ![index[u]][u] = pc[u]]
      BY <1>1 DEF SetLock
    <3>2. pc[u] \in Types /\ index[u] \in Chars
      BY <1>1 DEF SetLock
    <3>3. lock \in [Chars -> [Users -> Types]]
      BY DEF IInv, TypeOK
    <3>. HIDE DEF IInv, TypeOK, Held, Types, Claims
    <3>. QED BY <3>1, <3>2, <3>3, TableStays
  <2>. QED BY <1>1, <2>3, <2>4, <2>5 DEF SetLock
<1>2. ASSUME NEW u \in Users, Write(u) PROVE TypeOK'
  BY <1>2 DEF Write
<1>7. ASSUME NEW u \in Users, Exit(u) PROVE TypeOK'
  <2>1. lock' \in [Chars -> [Users -> Types]]
    BY <1>7 DEF Exit
  <2>. QED BY <1>7, <2>1 DEF Exit
<1>3. ASSUME NEW u \in Users, NEW c \in Chars, NEW type \in Held, CheckToLock(u, c, type)
      PROVE  TypeOK'
  BY <1>3 DEF CheckToLock
<1>4. ASSUME NEW u \in Users, NEW c \in Chars, Unlock(u, c) PROVE TypeOK'
  BY <1>4 DEF Unlock
<1>5. ASSUME NEW u \in Users, NEW c \in Chars, NEW option \in {3, 5, 6}, LookAt(u, c, option)
      PROVE  TypeOK'
  BY <1>5 DEF LookAt
<1>6. CASE UNCHANGED vars
  BY <1>6 DEF vars
<1>. QED BY <1>1, <1>2, <1>3, <1>4, <1>5, <1>6, <1>7 DEF Next

\* Who did nothing, and on whose character no lock was added, is still accounted for.
LEMMA AccountedStays ==
  ASSUME IInv, NEW w \in Users,
         pc'[w] = pc[w], index'[w] = index[w], l_type'[w] = l_type[w], since'[w] = since[w],
         \A v \in Users : lock'[index[w]][v] \in {lock[index[w]][v], "F_UNLCK"}
  PROVE  Accounted(w)'
<1>1. OthersOn(w)' \subseteq OthersOn(w)
  BY DEF OthersOn
<1>2. Accounted(w)
  BY DEF IInv, LocksHold, OnlyRacesShare, Accounted
<1>3. Writes(w)' => Writes(w)
  BY DEF Writes
<1>4. \A v \in Users : lock'[index'[w]][v] = "F_WRLCK" => lock[index[w]][v] = "F_WRLCK"
  OBVIOUS
<1>5. \A v \in OthersOn(w) : v \in Users
  BY DEF OthersOn
<1>. QED BY <1>1, <1>2, <1>3, <1>4, <1>5 DEF Accounted

LEMMA LocksStay == IInv /\ [Next]_vars => LocksHold'
<1>. SUFFICES ASSUME IInv, [Next]_vars PROVE LocksHold'
  OBVIOUS
<1>. USE DEF IInv, TypeOK, LocksHold
<1>1. ASSUME NEW u \in Users, SetLock(u) PROVE LocksHold'
  BY <1>1, SetLockKeepsExclusive, SetLockIsNoticed
<1>2. ASSUME NEW u \in Users, Write(u) PROVE LocksHold'
  <2>1. Exclusive'
    BY <1>2 DEF Write, Exclusive
  <2>2. ASSUME NEW w \in Users, w # u PROVE Accounted(w)'
    BY <1>2, <2>2, AccountedStays DEF Write
  <2>3. Accounted(u)'
    BY <1>2 DEF Write, Accounted, Writes
  <2>. QED BY <2>1, <2>2, <2>3 DEF OnlyRacesShare, Accounted
<1>3. ASSUME NEW u \in Users, Exit(u) PROVE LocksHold'
  <2>1. \A c \in Chars, v \in Users : lock'[c][v] = IF v = u THEN "F_UNLCK" ELSE lock[c][v]
    BY <1>3 DEF Exit
  <2>2. Exclusive'
    BY <2>1 DEF Exclusive
  <2>3. ASSUME NEW w \in Users, w # u PROVE Accounted(w)'
    BY <1>3, <2>1, <2>3, AccountedStays DEF Exit
  <2>4. Accounted(u)'
    BY <1>3 DEF Exit, Accounted, Writes
  <2>. QED BY <2>2, <2>3, <2>4 DEF OnlyRacesShare, Accounted
<1>4. ASSUME NEW u \in Users, NEW c \in Chars, NEW type \in Held, CheckToLock(u, c, type)
      PROVE  LocksHold'
  <2>1. Exclusive'
    BY <1>4 DEF CheckToLock, Exclusive
  <2>2. \A w \in Users : w # u => /\ pc'[w] = pc[w] /\ index'[w] = index[w]
                                  /\ since'[w] = since[w]
    BY <1>4 DEF CheckToLock
  <2>3. index'[u] = c /\ UNCHANGED <<lock, l_type>> /\ pc'[u] # "getchar"
    BY <1>4 DEF CheckToLock
  <2>4. pc'[u] \in Held => OthersOn(u)' = {}
    <3>1. pc'[u] \in Held => Found(u, c) = {}
      BY <1>4 DEF CheckToLock
    <3>2. Found(u, c) = {} => \A v \in Users \ {u} : lock[c][v] = "F_UNLCK"
      <4>1. \A v \in Users \ {u} : lock[c][v] \in Types
        OBVIOUS
      <4>. QED BY <4>1 DEF Found
    <3>3. OthersOn(u)' = {v \in Users \ {u} : lock[c][v] # "F_UNLCK"}
      BY <2>3 DEF OthersOn
    <3>. QED BY <3>1, <3>2, <3>3
  <2>5. ASSUME NEW w \in Users, w # u PROVE Accounted(w)'
    BY <2>2, <2>3, <2>5, AccountedStays
  <2>6. Accounted(u)'
    BY <2>3, <2>4 DEF Accounted, Writes
  <2>. QED BY <2>1, <2>5, <2>6 DEF OnlyRacesShare, Accounted
<1>5. ASSUME NEW u \in Users, NEW c \in Chars, Unlock(u, c) PROVE LocksHold'
  <2>1. \A d \in Chars, v \in Users :
           lock'[d][v] = IF d = c /\ v = u THEN "F_UNLCK" ELSE lock[d][v]
    BY <1>5 DEF Unlock
  <2>2. Exclusive'
    BY <2>1 DEF Exclusive
  <2>3. ASSUME NEW w \in Users, w # u PROVE Accounted(w)'
    BY <1>5, <2>1, <2>3, AccountedStays DEF Unlock
  <2>4. Accounted(u)'
    BY <1>5 DEF Unlock, Accounted, Writes
  <2>. QED BY <2>2, <2>3, <2>4 DEF OnlyRacesShare, Accounted
<1>6. ASSUME NEW u \in Users, NEW c \in Chars, NEW option \in {3, 5, 6}, LookAt(u, c, option)
      PROVE  LocksHold'
  <2>1. Exclusive'
    BY <1>6 DEF LookAt, Exclusive
  <2>2. \A w \in Users : w # u => /\ pc'[w] = pc[w] /\ index'[w] = index[w]
                                  /\ since'[w] = since[w] /\ l_type'[w] = l_type[w]
    BY <1>6 DEF LookAt
  <2>3. pc'[u] \in {"menu", "getchar"} /\ UNCHANGED lock
    BY <1>6 DEF LookAt
  <2>4. Writes(u)' => \A v \in OthersOn(u)' : lock'[index'[u]][v] # "F_WRLCK"
    <3>. SUFFICES ASSUME Writes(u)', NEW v \in OthersOn(u)', lock[c][v] = "F_WRLCK"
                  PROVE  FALSE
      BY <1>6, <2>3 DEF LookAt, Writes
    <3>1. GetLock(u, c, l_type'[u])
      BY <1>6 DEF LookAt
    <3>2. l_type'[u] = "F_WRLCK"
      BY <3>1, WriteLockIsFound DEF OthersOn
    <3>. QED BY <3>2 DEF Writes
  <2>5. ASSUME NEW w \in Users, w # u PROVE Accounted(w)'
    BY <2>2, <2>3, <2>5, AccountedStays
  <2>6. Accounted(u)'
    BY <2>3, <2>4 DEF Accounted
  <2>. QED BY <2>1, <2>5, <2>6 DEF OnlyRacesShare, Accounted
<1>7. CASE UNCHANGED vars
  BY <1>7 DEF vars, Exclusive, OnlyRacesShare, OthersOn, Writes
<1>. QED BY <1>1, <1>2, <1>3, <1>4, <1>5, <1>6, <1>7 DEF Next

(***************************************************************************)
(* Whatever the users do in whatever order, a write lock is its holder's   *)
(* alone, and a locked character is shared, or written, only by somebody   *)
(* who looked before the lock was there (locks.c:68-77, 213-219).          *)
(***************************************************************************)
THEOREM RacesOnly == Spec => []LocksHold
<1>1. IInv /\ [Next]_vars => IInv'
  BY TypesStay, LocksStay DEF IInv
<1>2. IInv => LocksHold
  BY DEF IInv
<1>. QED BY InitHolds, <1>1, <1>2, PTL DEF Spec

(***************************************************************************)
(* Sorting and shuffling records, for every file, every number of records  *)
(* asked for, with system calls and with the library.  SortsInPlace is     *)
(* inductive with the bounds of the loops and with what a pass carries     *)
(* along: the record before the one read next, the largest of the pass.    *)
(* loop is RecordSort's i and record its prev.                             *)
(***************************************************************************)

\* What the file may hold.
Kept == Sort!Records \cup {Sort!Garbage}

\* The file has the records asked for, so that no swap makes it longer.
WithinFile == number_of_records <= Len(generated)

\* Where the loops are: a pass is over the first last + 1 records asked for.
LoopBounds ==
  /\ sortPc = "main" => file = generated
  /\ sortPc \in {"pass", "first", "compare"} =>
       number_of_records >= 2 /\ last <= number_of_records - 1
  /\ sortPc \in {"first", "compare"} => last >= 1
  /\ sortPc = "first" => pos = 0 /\ loop = 1
  /\ sortPc = "compare" => loop \in 1 .. last + 1
  /\ sortPc = "shuffle" => loop <= number_of_records - 1

\* As long as the position does not wrap, record is the one before the one
\* read next, and no record this pass has met is larger.
Carried ==
  sortPc = "compare" =>
    /\ WithinFile \/ version = "LIB" =>
         pos = loop /\ loop <= Len(file) /\ record = Sort!At(file, loop - 1)
    /\ WithinFile => \A r \in 0 .. loop - 1 : Sort!At(file, r)[1] <= Sort!At(file, loop - 1)[1]

SortInv == Sort!TypeOK /\ LoopBounds /\ Carried /\ Sort!SortsInPlace

\* What a write leaves: a longer file if it was past the end.
LEMMA WrittenType ==
  ASSUME NEW f \in Seq(Kept), NEW p \in Nat, NEW rec \in Kept
  PROVE  /\ Sort!Written(f, p, rec) \in Seq(Kept)
         /\ p < Len(f) => Sort!Written(f, p, rec) = [f EXCEPT ![p + 1] = rec]
         /\ Sort!ReadAt(f, p) \in Kept
<1> DEFINE n == IF p < Len(f) THEN Len(f) ELSE p + 1
<1>1. n \in Nat /\ Sort!Written(f, p, rec) \in [1 .. n -> Kept]
  BY DEF Sort!Written, Kept
<1>2. Sort!Written(f, p, rec) \in Seq(Kept)
  <2> HIDE DEF n
  <2> QED BY <1>1
<1>3. ASSUME p < Len(f) PROVE Sort!Written(f, p, rec) = [f EXCEPT ![p + 1] = rec]
  BY <1>3 DEF Sort!Written
<1>4. Sort!ReadAt(f, p) \in Kept
  BY DEF Sort!ReadAt, Sort!At, Kept
<1> QED BY <1>2, <1>3, <1>4

\* swap_records, inside the file, exchanges two records.
LEMMA SwapExchanges ==
  ASSUME file \in Seq(Kept), NEW a \in Nat, NEW b \in Nat
  PROVE  /\ Sort!Swapped(a, b) \in Seq(Kept)
         /\ a < Len(file) /\ b < Len(file) =>
              /\ Len(Sort!Swapped(a, b)) = Len(file)
              /\ \A r \in 0 .. Len(file) - 1 :
                   Sort!At(Sort!Swapped(a, b), r) = IF r = b THEN Sort!At(file, a)
                                          ELSE IF r = a THEN Sort!At(file, b) ELSE Sort!At(file, r)
<1> DEFINE half == Sort!Written(file, a, Sort!ReadAt(file, b))
<1>1. Sort!ReadAt(file, a) \in Kept /\ Sort!ReadAt(file, b) \in Kept
  BY DEF Sort!ReadAt, Sort!At, Kept
<1>2. half \in Seq(Kept)
  BY <1>1, WrittenType
<1>3. Sort!Swapped(a, b) = Sort!Written(half, b, Sort!ReadAt(file, a))
  BY DEF Sort!Swapped
<1> HIDE DEF half
<1>4. Sort!Swapped(a, b) \in Seq(Kept)
  BY <1>1, <1>2, <1>3, WrittenType
<1>5. ASSUME a < Len(file), b < Len(file)
      PROVE  /\ Len(Sort!Swapped(a, b)) = Len(file)
             /\ \A r \in 0 .. Len(file) - 1 :
                  Sort!At(Sort!Swapped(a, b), r) = IF r = b THEN Sort!At(file, a)
                                         ELSE IF r = a THEN Sort!At(file, b) ELSE Sort!At(file, r)
  <2>1. half = [file EXCEPT ![a + 1] = Sort!At(file, b)]
    BY <1>1, <1>5, WrittenType DEF half, Sort!ReadAt
  <2>2. Len(half) = Len(file)
    BY <2>1
  <2>3. Sort!Swapped(a, b) = [half EXCEPT ![b + 1] = Sort!At(file, a)]
    <3> DEFINE rec == Sort!ReadAt(file, a)
    <3>1. rec \in Kept /\ b < Len(half)
      BY <1>1, <1>5, <2>2
    <3>2. rec = Sort!At(file, a)
      BY <1>5 DEF Sort!ReadAt
    <3> HIDE DEF rec
    <3>3. Sort!Written(half, b, rec) = [half EXCEPT ![b + 1] = rec]
      BY <1>2, <3>1, WrittenType
    <3> QED BY <1>3, <3>2, <3>3 DEF rec
  <2> QED BY <1>2, <1>5, <2>1, <2>2, <2>3 DEF Sort!At
<1> QED BY <1>4, <1>5

\* An exchange inside the file keeps every record.
LEMMA SwapKeeps ==
  ASSUME file \in Seq(Kept), NEW a \in Nat, NEW b \in Nat, a < Len(file), b < Len(file)
  PROVE  /\ Len(Sort!Swapped(a, b)) = Len(file)
         /\ \A r \in DOMAIN Sort!Swapped(a, b) : \E q \in DOMAIN file : Sort!Swapped(a, b)[r] = file[q]
         /\ Sort!Tags(Sort!Swapped(a, b)) = Sort!Tags(file)
<1> DEFINE f == Sort!Swapped(a, b)
<1>1. /\ f \in Seq(Kept) /\ Len(f) = Len(file)
      /\ \A r \in 0 .. Len(file) - 1 :
           Sort!At(f, r) = IF r = b THEN Sort!At(file, a) ELSE IF r = a THEN Sort!At(file, b) ELSE Sort!At(file, r)
  BY SwapExchanges
<1> HIDE DEF f
<1>2. /\ DOMAIN f = 1 .. Len(file) /\ DOMAIN file = 1 .. Len(file)
      /\ \A r \in 1 .. Len(file) :
           f[r] = IF r = b + 1 THEN file[a + 1] ELSE IF r = a + 1 THEN file[b + 1] ELSE file[r]
  <2> SUFFICES ASSUME NEW r \in 1 .. Len(file)
               PROVE  f[r] = IF r = b + 1 THEN file[a + 1]
                             ELSE IF r = a + 1 THEN file[b + 1] ELSE file[r]
    BY <1>1
  <2>1. r - 1 \in 0 .. Len(file) - 1 /\ (r - 1) + 1 = r
    OBVIOUS
  <2>2. Sort!At(f, r - 1) = IF r - 1 = b THEN Sort!At(file, a)
                            ELSE IF r - 1 = a THEN Sort!At(file, b) ELSE Sort!At(file, r - 1)
    BY <1>1, <2>1
  <2>3. (r - 1 = b <=> r = b + 1) /\ (r - 1 = a <=> r = a + 1)
    OBVIOUS
  <2>4. Sort!At(f, r - 1) = f[r] /\ Sort!At(file, r - 1) = file[r]
    BY <2>1 DEF Sort!At
  <2> QED BY <2>2, <2>3, <2>4 DEF Sort!At
<1>3. \A r \in DOMAIN f : \E q \in DOMAIN file : f[r] = file[q]
  BY <1>2
<1>4. \A q \in DOMAIN file : \E r \in DOMAIN f : f[r] = file[q]
  BY <1>2
<1>5. Sort!Tags(f) = Sort!Tags(file)
  BY <1>3, <1>4 DEF Sort!Tags
<1> QED BY <1>1, <1>3, <1>5 DEF f

\* Nothing is generated yet.
LEMMA SortInit == Sort!SortAssumption /\ Sort!Init => SortInv
BY
   DEF Sort!SortAssumption, Sort!Init, SortInv, Sort!TypeOK, LoopBounds, Carried,
       Sort!SortsInPlace, Sort!Records, Sort!Garbage, Sort!Tags, WithinFile

\* The shuffle's partner of record k is k itself (bubbleSort.c:50).
LEMMA ModSelf == \A k \in Nat : k % (k + 1) = k
OBVIOUS

\* The variables keep their types; last is counted down only while positive.
LEMMA SortTypes == Sort!SortAssumption /\ SortInv /\ [Sort!Next]_(Sort!vars) => Sort!TypeOK'
<1> SUFFICES ASSUME Sort!SortAssumption, SortInv, [Sort!Next]_(Sort!vars) PROVE Sort!TypeOK'
  OBVIOUS
<1> USE DEF Sort!SortAssumption, SortInv, Sort!TypeOK, Sort!fileVars, Sort!sortVars
<1>0. file \in Seq(Kept)
  BY DEF Kept
<1>1. CASE Sort!generate
  <2>1. PICK n \in 0 .. MaxRecords : \E bytes \in [1 .. n -> Bytes] :
               generated' = [r \in 1 .. n |-> <<bytes[r], r>>]
    BY <1>1 DEF Sort!generate
  <2>2. generated' \in Seq(Sort!Records)
    BY <2>1 DEF Sort!Records
  <2>3. file' \in Seq(Sort!Records \cup {Sort!Garbage})
    BY <1>1, <2>2 DEF Sort!generate
  <2> QED BY <1>1, <2>2, <2>3 DEF Sort!generate
<1>2. CASE Sort!main
  BY <1>2 DEF Sort!main
<1>3. CASE Sort!StartPass
  BY <1>3 DEF Sort!StartPass
<1>4. Sort!CanRead => Sort!next_record \in Kept
  BY <1>0 DEF Sort!CanRead, Sort!AtEnd, Sort!next_record, Sort!At
<1>5. CASE Sort!First
  BY <1>4, <1>5 DEF Sort!First, Sort!Advance, Kept
<1>6. CASE Sort!Compare
  <2>1. Sort!Swapped(loop - 1, loop) \in Seq(Kept)
    <3>1. loop \in 1 .. last + 1
      BY <1>6 DEF Sort!Compare, LoopBounds
    <3>2. loop - 1 \in Nat
      BY <3>1
    <3> QED BY <1>0, <3>2, SwapExchanges
  <2> QED BY <1>4, <1>6, <2>1 DEF Sort!Compare, Sort!Advance, Kept
<1>7. CASE Sort!ExitAtEnd
  BY <1>7 DEF Sort!ExitAtEnd
<1>8. CASE Sort!EndPass
  <2>1. last >= 1
    BY <1>8 DEF Sort!EndPass, LoopBounds
  <2> QED BY <1>8, <2>1 DEF Sort!EndPass
<1>9. CASE Sort!Shuffle
  <2>1. loop % (loop + 1) = loop
    BY ModSelf
  <2>2. Sort!Swapped(loop, loop) \in Seq(Kept)
    BY <1>0, SwapExchanges
  <2> QED BY <1>9, <2>1, <2>2 DEF Sort!Shuffle, Kept
<1>10. CASE UNCHANGED Sort!vars
  BY <1>10 DEF Sort!vars
<1> QED BY <1>1, <1>2, <1>3, <1>5, <1>6, <1>7, <1>8, <1>9, <1>10 DEF Sort!Next

\* Each loop starts and stays within the number of records asked for.
LEMMA SortLoops == Sort!SortAssumption /\ SortInv /\ [Sort!Next]_(Sort!vars) => LoopBounds'
<1> SUFFICES ASSUME Sort!SortAssumption, SortInv, [Sort!Next]_(Sort!vars) PROVE LoopBounds'
  OBVIOUS
<1> USE DEF Sort!SortAssumption, SortInv, Sort!TypeOK, Sort!fileVars, Sort!sortVars, LoopBounds
<1>1. CASE Sort!generate
  BY <1>1 DEF Sort!generate
<1>2. CASE Sort!main
  BY <1>2 DEF Sort!main
<1>3. CASE Sort!StartPass
  BY <1>3 DEF Sort!StartPass
<1>5. CASE Sort!First
  BY <1>5 DEF Sort!First
<1>6. CASE Sort!Compare
  BY <1>6 DEF Sort!Compare
<1>7. CASE Sort!ExitAtEnd
  BY <1>7 DEF Sort!ExitAtEnd
<1>8. CASE Sort!EndPass
  BY <1>8 DEF Sort!EndPass
<1>9. CASE Sort!Shuffle
  BY <1>9, ModSelf DEF Sort!Shuffle
<1>10. CASE UNCHANGED Sort!vars
  BY <1>10 DEF Sort!vars
<1> QED BY <1>1, <1>2, <1>3, <1>5, <1>6, <1>7, <1>8, <1>9, <1>10 DEF Sort!Next

\* A comparison: the smaller record changes places with the larger one before
\* it, so that the largest met so far goes on, and the sorted end is not touched.
LEMMA CompareStep ==
  ASSUME Sort!SortAssumption, SortInv, Sort!Compare
  PROVE  Carried' /\ Sort!SortsInPlace'
<1> DEFINE n == number_of_records
           f == Sort!Swapped(loop - 1, loop)
<1>0. /\ file \in Seq(Kept) /\ generated \in Seq(Sort!Records) /\ n \in Nat /\ n >= 2
      /\ last \in Nat /\ last <= n - 1 /\ loop \in 1 .. last /\ loop - 1 \in Nat /\ loop \in Nat /\ pos \in Nat
  BY DEF SortInv, Sort!TypeOK, LoopBounds, Kept, Sort!Compare
<1>1. /\ UNCHANGED <<generated, version, number_of_records, last, sortPc>>
      /\ loop' = loop + 1 /\ sortPc = "compare"
  BY DEF Sort!Compare
<1>2. CASE ~(WithinFile \/ version = "LIB")
  BY <1>1, <1>2 DEF Carried, Sort!SortsInPlace, WithinFile
<1>3. CASE WithinFile \/ version = "LIB"
  <2>1. /\ pos = loop /\ record = Sort!At(file, loop - 1) /\ loop < Len(file)
        /\ Len(file) = Len(generated)
        /\ \A r \in DOMAIN file : \E q \in DOMAIN generated : file[r] = generated[q]
        /\ Sort!Tags(file) = Sort!Tags(generated)
    BY <1>0, <1>1, <1>3
       DEF SortInv, Carried, Sort!SortsInPlace, Sort!Compare, Sort!CanRead, Sort!AtEnd,
           WithinFile
  <2>2. /\ Sort!next_record = Sort!At(file, loop) /\ pos' = loop'
    BY <1>0, <1>1, <2>1 DEF Sort!next_record, Sort!AtEnd, Sort!Compare, Sort!Advance
  <2>3. /\ Len(f) = Len(file)
        /\ \A r \in DOMAIN f : \E q \in DOMAIN file : f[r] = file[q]
        /\ Sort!Tags(f) = Sort!Tags(file)
        /\ \A r \in 0 .. Len(file) - 1 :
             Sort!At(f, r) = IF r = loop THEN Sort!At(file, loop - 1)
                        ELSE IF r = loop - 1 THEN Sort!At(file, loop) ELSE Sort!At(file, r)
    <3> DEFINE a == loop - 1
    <3>1. a \in Nat /\ loop \in Nat /\ a < Len(file) /\ loop < Len(file)
      BY <1>0, <2>1
    <3> HIDE DEF a
    <3>2. /\ Len(Sort!Swapped(a, loop)) = Len(file)
          /\ \A r \in DOMAIN Sort!Swapped(a, loop) : \E q \in DOMAIN file : Sort!Swapped(a, loop)[r] = file[q]
          /\ Sort!Tags(Sort!Swapped(a, loop)) = Sort!Tags(file)
      BY <1>0, <3>1, SwapKeeps
    <3>3. \A r \in 0 .. Len(file) - 1 :
            Sort!At(Sort!Swapped(a, loop), r) = IF r = loop THEN Sort!At(file, a)
                                   ELSE IF r = a THEN Sort!At(file, loop) ELSE Sort!At(file, r)
      BY <1>0, <3>1, SwapExchanges
    <3> QED BY <3>2, <3>3 DEF a
  <2>4. \/ Sort!At(file, loop)[1] < Sort!At(file, loop - 1)[1] /\ file' = f /\ record' = record
        \/ ~(Sort!At(file, loop)[1] < Sort!At(file, loop - 1)[1]) /\ file' = file /\ record' = Sort!At(file, loop)
    BY <2>1, <2>2 DEF Sort!Compare
  <2>5. /\ Len(file') = Len(generated)
        /\ \A r \in DOMAIN file' : \E q \in DOMAIN generated : file'[r] = generated[q]
        /\ Sort!Tags(file') = Sort!Tags(generated)
    <3> HIDE DEF f
    <3>1. CASE file' = f
      BY <2>1, <2>3, <3>1
    <3>2. CASE file' = file
      BY <2>1, <3>2
    <3> QED BY <2>4, <3>1, <3>2
  <2>6. record' = Sort!At(file', loop)
    BY <1>0, <2>1, <2>3, <2>4
  <2>7. ASSUME WithinFile
        PROVE  /\ \A r \in 0 .. loop : Sort!At(file', r)[1] <= Sort!At(file', loop)[1]
               /\ \A r \in 0 .. n - 1, q \in last + 1 .. n - 1 :
                    r < q => Sort!At(file', r)[1] <= Sort!At(file', q)[1]
               /\ \A r \in n .. Len(file') - 1 : Sort!At(file', r) = Sort!At(generated, r)
    <3>0. n <= Len(file)
      BY <2>1, <2>7 DEF WithinFile
    <3>1. /\ \A r \in 0 .. loop - 1 : Sort!At(file, r)[1] <= Sort!At(file, loop - 1)[1]
          /\ \A r \in 0 .. n - 1, q \in last + 1 .. n - 1 :
               r < q => Sort!At(file, r)[1] <= Sort!At(file, q)[1]
          /\ \A r \in n .. Len(file) - 1 : Sort!At(file, r) = Sort!At(generated, r)
      BY <1>1, <2>7 DEF SortInv, Carried, Sort!SortsInPlace, WithinFile
    <3>2. \A r \in 0 .. n - 1 : Sort!At(file, r)[1] \in Nat
      <4> SUFFICES ASSUME NEW r \in 0 .. n - 1 PROVE Sort!At(file, r)[1] \in Nat
        OBVIOUS
      <4>1. r + 1 \in DOMAIN file
        BY <1>0, <3>0
      <4>2. PICK q \in DOMAIN generated : file[r + 1] = generated[q]
        BY <2>1, <4>1
      <4>3. generated[q] \in Sort!Records
        BY <1>0
      <4> QED BY <4>2, <4>3 DEF Sort!At, Sort!Records, Sort!SortAssumption
    <3>3. CASE file' = f /\ Sort!At(file, loop)[1] < Sort!At(file, loop - 1)[1]
      <4> DEFINE K(r) == Sort!At(file, r)[1]
                 L(r) == Sort!At(f, r)[1]
      <4>1. \A r \in 0 .. Len(file) - 1 :
              L(r) = IF r = loop THEN K(loop - 1) ELSE IF r = loop - 1 THEN K(loop) ELSE K(r)
        BY <2>3
      <4>2. \A r \in n .. Len(file) - 1 : Sort!At(f, r) = Sort!At(file, r)
        BY <1>0, <2>3
      <4>3. /\ \A r \in 0 .. n - 1 : K(r) \in Nat
            /\ \A r \in 0 .. loop - 1 : K(r) <= K(loop - 1)
            /\ \A r \in 0 .. n - 1, q \in last + 1 .. n - 1 : r < q => K(r) <= K(q)
            /\ K(loop) < K(loop - 1)
        BY <3>1, <3>2, <3>3
      <4>4. /\ \A r \in 0 .. loop : L(r) <= L(loop)
            /\ \A r \in 0 .. n - 1, q \in last + 1 .. n - 1 : r < q => L(r) <= L(q)
        <5> HIDE DEF K, L, f
        <5>1. /\ L(loop) = K(loop - 1) /\ L(loop - 1) = K(loop)
              /\ \A r \in 0 .. n - 1 : r # loop /\ r # loop - 1 => L(r) = K(r)
              /\ loop - 1 \in 0 .. n - 1 /\ loop \in 0 .. n - 1 /\ K(loop) \in Nat /\ K(loop - 1) \in Nat
          BY <1>0, <2>1, <3>0, <4>1, <4>3
        <5>2. ASSUME NEW r \in 0 .. loop PROVE L(r) <= L(loop)
          <6>1. r \in 0 .. n - 1 /\ K(r) \in Nat
            BY <1>0, <4>3
          <6>2. CASE r \in {loop - 1, loop}
            BY <4>3, <5>1, <6>2
          <6>3. CASE r \notin {loop - 1, loop}
            <7>1. r \in 0 .. loop - 1
              BY <1>0, <6>3
            <7> QED BY <4>3, <5>1, <6>1, <6>3, <7>1
          <6> QED BY <6>2, <6>3
        <5>3. ASSUME NEW r \in 0 .. n - 1, NEW q \in last + 1 .. n - 1, r < q PROVE L(r) <= L(q)
          <6>1. q \in 0 .. n - 1 /\ q > loop
            BY <1>0
          <6>2. L(q) = K(q)
            BY <1>0, <5>1, <6>1
          <6>3. K(r) <= K(q) /\ K(loop) <= K(q) /\ K(loop - 1) <= K(q)
            BY <1>0, <4>3, <5>1, <5>3, <6>1
          <6> QED BY <5>1, <6>2, <6>3
        <5> QED BY <5>2, <5>3
      <4> QED BY <2>3, <3>1, <3>3, <4>2, <4>4
    <3>4. CASE file' = file /\ ~(Sort!At(file, loop)[1] < Sort!At(file, loop - 1)[1])
      BY <1>0, <3>0, <3>1, <3>2, <3>4
    <3> QED BY <2>4, <3>3, <3>4
  <2>8. Carried'
    BY <1>0, <1>1, <2>1, <2>2, <2>5, <2>6, <2>7 DEF Carried, WithinFile
  <2>9. Sort!SortsInPlace'
    BY <1>1, <2>5, <2>7 DEF Sort!SortsInPlace, WithinFile
  <2> QED BY <2>8, <2>9
<1> QED BY <1>2, <1>3

\* The other steps change no record, or exchange one with itself.
LEMMA SortStep ==
  ASSUME Sort!SortAssumption, SortInv, [Sort!Next]_(Sort!vars)
  PROVE  Carried' /\ Sort!SortsInPlace'
<1> USE DEF SortInv
<1>1. CASE Sort!generate
  BY <1>1 DEF Sort!generate, Carried, Sort!SortsInPlace, Sort!TypeOK, Sort!Tags, WithinFile
<1>2. CASE Sort!main
  <2>1. /\ file' = generated' /\ generated' = generated /\ generated \in Seq(Sort!Records)
        /\ number_of_records' \in Nat /\ sortPc' # "compare"
        /\ sortPc' \in {"pass", "first", "compare"} => last' = number_of_records' - 1
    BY <1>2 DEF Sort!main, LoopBounds, Sort!TypeOK
  <2>2. Carried'
    BY <2>1 DEF Carried
  <2>3. Sort!SortsInPlace'
    <3> DEFINE f == file'
               g == generated'
               n == number_of_records'
               l == last'
    <3>1. /\ f = g /\ g \in Seq(Sort!Records) /\ n \in Nat
          /\ sortPc' \in {"pass", "first", "compare"} => l = n - 1
      BY <2>1
    <3> HIDE DEF f, g, n, l
    <3>2. sortPc' \in {"pass", "first", "compare"} => l + 1 .. n - 1 = {}
      BY <3>1
    <3> QED BY <3>1, <3>2 DEF Sort!SortsInPlace, f, g, n, l
  <2> QED BY <2>2, <2>3
<1>3. CASE Sort!StartPass
  BY <1>3 DEF Sort!StartPass, Carried, Sort!SortsInPlace, WithinFile, Sort!fileVars
<1>4. CASE Sort!First
  <2>1. /\ UNCHANGED <<file, generated, version, number_of_records, last, loop>>
        /\ pos = 0 /\ loop = 1 /\ sortPc = "first" /\ sortPc' = "compare"
        /\ number_of_records \in Nat /\ number_of_records >= 2
        /\ file \in Seq(Kept) /\ generated \in Seq(Sort!Records)
    BY <1>4 DEF Sort!First, LoopBounds, Sort!TypeOK, Sort!fileVars, Kept
  <2>2. Sort!SortsInPlace'
    BY <2>1 DEF Sort!SortsInPlace
  <2>3. ASSUME WithinFile \/ version = "LIB"
        PROVE  pos' = 1 /\ record' = Sort!At(file, 0) /\ 1 <= Len(file)
    <3>1. 0 < Len(file)
      BY <1>4, <2>1, <2>3
         DEF Sort!First, Sort!CanRead, Sort!AtEnd, WithinFile, Sort!SortsInPlace
    <3> QED BY <1>4, <2>1, <3>1 DEF Sort!First, Sort!AtEnd, Sort!next_record, Sort!Advance
  <2>4. WithinFile => Sort!At(file, 0)[1] \in Nat
    <3> SUFFICES ASSUME WithinFile PROVE Sort!At(file, 0)[1] \in Nat
      OBVIOUS
    <3>1. 1 \in DOMAIN file
      BY <2>1, <2>3
    <3>2. PICK q \in DOMAIN generated : file[1] = generated[q]
      BY <3>1 DEF Sort!SortsInPlace, WithinFile
    <3>3. generated[q] \in Sort!Records
      BY <2>1
    <3>4. Sort!At(file, 0) = file[1]
      BY DEF Sort!At
    <3> QED BY <3>2, <3>3, <3>4 DEF Sort!Records, Sort!SortAssumption
  <2>5. 0 .. loop - 1 = {0} /\ loop - 1 = 0
    BY <2>1
  <2>6. Carried'
    BY <2>1, <2>3, <2>4, <2>5 DEF Carried, WithinFile
  <2> QED BY <2>2, <2>6
<1>5. CASE Sort!Compare
  BY <1>5, CompareStep
<1>6. CASE Sort!ExitAtEnd
  BY <1>6
     DEF Sort!ExitAtEnd, Carried, Sort!SortsInPlace, WithinFile, Sort!fileVars, Sort!sortVars
<1>7. CASE Sort!EndPass
  <2> DEFINE n == number_of_records
  <2>1. /\ UNCHANGED <<file, generated, version, number_of_records>>
        /\ last' = last - 1 /\ sortPc = "compare" /\ sortPc' = "pass"
        /\ last \in Nat /\ n \in Nat /\ last <= n - 1 /\ loop = last + 1
    BY <1>7 DEF Sort!EndPass, LoopBounds, Sort!TypeOK, Sort!fileVars
  <2>2. ASSUME WithinFile, NEW r \in 0 .. n - 1, NEW q \in last' + 1 .. n - 1, r < q
        PROVE  Sort!At(file, r)[1] <= Sort!At(file, q)[1]
    <3>1. CASE q = last
      <4>1. r \in 0 .. loop - 1 /\ loop - 1 = last
        BY <2>1, <2>2, <3>1
      <4> QED BY <2>1, <2>2, <3>1, <4>1 DEF Carried
    <3>2. CASE q # last
      <4>1. q \in last + 1 .. n - 1
        BY <2>1, <3>2
      <4> QED BY <2>1, <2>2, <4>1 DEF Sort!SortsInPlace, WithinFile
    <3> QED BY <3>1, <3>2
  <2>3. Sort!SortsInPlace'
    BY <2>1, <2>2 DEF Sort!SortsInPlace, WithinFile
  <2>4. Carried'
    BY <2>1 DEF Carried
  <2> QED BY <2>3, <2>4
<1>8. CASE Sort!Shuffle
  <2>1. /\ loop % (loop + 1) = loop /\ loop \in Nat /\ file \in Seq(Kept) /\ number_of_records \in Nat
        /\ generated \in Seq(Sort!Records) /\ sortPc = "shuffle" /\ loop <= number_of_records - 1
    BY <1>8, ModSelf DEF Sort!TypeOK, Kept, Sort!Shuffle, LoopBounds
  <2>2. /\ UNCHANGED <<generated, version, number_of_records, last>>
        /\ sortPc' \in {"done", "exit", "shuffle"}
        /\ \/ file' = file
           \/ file' = Sort!Swapped(loop, loop) /\ ~(version = "LIB" /\ loop >= Len(file))
    BY <1>8, <2>1 DEF Sort!Shuffle
  <2>3. ASSUME WithinFile \/ version = "LIB" PROVE file' = file
    <3> SUFFICES ASSUME file' = Sort!Swapped(loop, loop) /\ ~(version = "LIB" /\ loop >= Len(file))
                 PROVE  file' = file
      BY <2>2
    <3>1. loop < Len(file)
      <4>1. CASE version = "LIB"
        BY <2>1, <4>1
      <4>2. CASE WithinFile
        BY <2>1, <4>2 DEF WithinFile, Sort!SortsInPlace
      <4> QED BY <2>3, <4>1, <4>2
    <3> DEFINE f == Sort!Swapped(loop, loop)
    <3>2. /\ f \in Seq(Kept) /\ Len(f) = Len(file)
          /\ \A r \in 0 .. Len(file) - 1 : Sort!At(f, r) = Sort!At(file, r)
      BY <2>1, <3>1, SwapExchanges
    <3> HIDE DEF f
    <3>3. \A r \in 1 .. Len(file) : f[r] = file[r]
      <4> SUFFICES ASSUME NEW r \in 1 .. Len(file) PROVE f[r] = file[r]
        OBVIOUS
      <4>1. r - 1 \in 0 .. Len(file) - 1 /\ (r - 1) + 1 = r
        OBVIOUS
      <4> QED BY <3>2, <4>1 DEF Sort!At
    <3>4. f = file
      BY <2>1, <3>2, <3>3
    <3> QED BY <3>4 DEF f
  <2> QED BY <2>1, <2>2, <2>3 DEF Sort!SortsInPlace, Carried, WithinFile
<1>9. CASE UNCHANGED Sort!vars
  BY <1>9 DEF Sort!vars, Sort!fileVars, Sort!sortVars, Carried, Sort!SortsInPlace, WithinFile
<1> QED BY <1>1, <1>2, <1>3, <1>4, <1>5, <1>6, <1>7, <1>8, <1>9 DEF Sort!Next

\* No record is lost or doubled as long as the file has the records asked for
\* (or the library is used), each pass leaves its largest record behind all
\* smaller ones, and the records not asked for stay where they are
\* (bubbleSort.c, files.c).
THEOREM SortKeepsAndOrders == Sort!Spec => []SortsInPlace
<1>1. Sort!Init => SortInv
  BY SortInit, RecordsAssumption
<1>2. SortInv /\ [Sort!Next]_(Sort!vars) => SortInv'
  BY SortTypes, SortLoops, SortStep, RecordsAssumption DEF SortInv
<1>3. SortInv => SortsInPlace
  BY DEF SortInv, SortsInPlace
<1> QED BY <1>1, <1>2, <1>3, PTL DEF Sort!Spec
==============================================================================
