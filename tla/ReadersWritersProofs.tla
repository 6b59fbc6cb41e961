------------------------- MODULE ReadersWritersProofs -------------------------
(***************************************************************************)
(* Safety of readers and writers, for any finite sets of readers and       *)
(* writers and any numbers of loops: of the monitor version, whose names   *)
(* have no prefix here, and of the semaphore version, Sem.                 *)
(***************************************************************************)
EXTENDS MCReadersWriters, FiniteSetTheorems, TLAPS

(***************************************************************************)
(* The monitor version                                                     *)
(***************************************************************************)
\* The threads the three counters stand for.
ReadersIn == {r \in Readers : Inside(r)}
WritersIn == {w \in Writers : Inside(w)}
WritersCounted == {w \in Writers : pc[w] = "test" \/ Inside(w)}

\* The mutex is with the thread that is between its two calls on it.
MutexOwned == \A t \in Threads : Holding(t) <=> mutex = t

\* A thread on the condition variable is about to test, without the mutex.
BlockedTest == \A t \in blocked : pc[t] = "test" /\ mutex # t

\* A writer shares the array with nobody.
Alone ==
  /\ WritersIn # {} => ReadersIn = {}
  /\ \A v, w \in WritersIn : v = w

IInv ==
  /\ TypeOK
  /\ MutexOwned
  /\ BlockedTest
  /\ CountersExact
  /\ Alone
  /\ SomebodyWillBroadcast

(***************************************************************************)
(* What a step can do to the counters and the sets they count              *)
(***************************************************************************)
Starts(r) ==
  /\ r \notin ReadersIn /\ ReadersIn' = ReadersIn \cup {r}
  /\ checker = 0
  /\ actual_readers' = actual_readers + 1
  /\ UNCHANGED <<checker, writing, WritersIn, WritersCounted>>

Ends(r) ==
  /\ r \in ReadersIn /\ ReadersIn' = ReadersIn \ {r}
  /\ actual_readers' = actual_readers - 1
  /\ UNCHANGED <<checker, writing, WritersIn, WritersCounted>>

Announces(w) ==
  /\ w \notin WritersCounted /\ WritersCounted' = WritersCounted \cup {w}
  /\ checker' = checker + 1
  /\ UNCHANGED <<actual_readers, writing, ReadersIn, WritersIn>>

Enters(w) ==
  /\ w \notin WritersIn /\ WritersIn' = WritersIn \cup {w}
  /\ actual_readers = 0 /\ writing = 0
  /\ writing' = writing + 1
  /\ UNCHANGED <<actual_readers, checker, ReadersIn, WritersCounted>>

Leaves(w) ==
  /\ w \in WritersIn /\ WritersIn' = WritersIn \ {w}
  /\ w \in WritersCounted /\ WritersCounted' = WritersCounted \ {w}
  /\ writing' = writing - 1 /\ checker' = checker - 1
  /\ UNCHANGED <<actual_readers, ReadersIn>>

Quiet == UNCHANGED <<counters, ReadersIn, WritersIn, WritersCounted>>

\* A reader and a writer are different threads, and each is a thread.
LEMMA Kinds ==
  /\ \A r \in Readers : r \in Threads /\ r \notin Writers /\ r # NoThread
  /\ \A w \in Writers : w \in Threads /\ w \notin Readers /\ w # NoThread
BY ThreadsAssumption DEF Threads

\* A step of the loop that both kinds of threads share moves one thread, within
\* the places where it is counted the same.
LEMMA ThreadNextIsQuiet ==
  ASSUME TypeOK, NEW t \in Threads, ThreadNext(t)
  PROVE  /\ Quiet
         /\ \A s \in Threads : s # t => pc'[s] = pc[s]
         /\ Inside(t)' <=> Inside(t)
<1> USE DEF TypeOK, Step, Inside, counters
<1>1. \A s \in Threads : s # t => pc'[s] = pc[s]
  BY DEF ThreadNext, StartLoop, Lock, Relock, Unlock, Access, EndLoop, Finish
<1>2. Inside(t)' <=> Inside(t)
  BY DEF ThreadNext, StartLoop, Lock, Relock, Unlock, Access, EndLoop, Finish
<1>3. t \in Writers => (pc'[t] = "test" \/ Inside(t)') <=> (pc[t] = "test" \/ Inside(t))
  BY Kinds
  DEF ThreadNext, StartLoop, Lock, Relock, Unlock, Access, EndLoop, Finish
<1>4. UNCHANGED counters
  BY DEF ThreadNext, StartLoop, Lock, Relock, Unlock, Access, EndLoop, Finish
<1> QED
  BY <1>1, <1>2, <1>3, <1>4, Kinds DEF Quiet, ReadersIn, WritersIn, WritersCounted

\* A reader crosses the ends of its access only by starting or ending one.
LEMMA ReaderEffect ==
  ASSUME TypeOK, NEW r \in Readers, ReaderNext(r)
  PROVE  Quiet \/ Starts(r) \/ Ends(r)
<1> USE DEF TypeOK, Step, Inside, ReadersIn, WritersIn, WritersCounted
<1>1. CASE ThreadNext(r)
  BY <1>1, ThreadNextIsQuiet, Kinds
<1>2. CASE StartRead(r)
  BY <1>2, Kinds DEF StartRead, Testing, Starts
<1>3. CASE ReaderWaits(r)
  BY <1>3 DEF ReaderWaits, CondWait, Quiet
<1>4. CASE EndRead(r)
  BY <1>4, Kinds DEF EndRead, Ends
<1> QED
  BY <1>1, <1>2, <1>3, <1>4 DEF ReaderNext

\* A writer announces itself, enters and leaves, in steps of their own.
LEMMA WriterEffect ==
  ASSUME TypeOK, NEW w \in Writers, WriterNext(w)
  PROVE  Quiet \/ Announces(w) \/ Enters(w) \/ Leaves(w)
<1> USE DEF TypeOK, Step, Inside, ReadersIn, WritersIn, WritersCounted
<1>1. CASE ThreadNext(w)
  BY <1>1, ThreadNextIsQuiet, Kinds
<1>2. CASE Want(w)
  BY <1>2, Kinds DEF Want, Announces
<1>3. CASE StartWrite(w)
  BY <1>3, Kinds DEF StartWrite, Testing, Enters
<1>4. CASE WriterWaits(w)
  BY <1>4 DEF WriterWaits, CondWait, Quiet
<1>5. CASE EndWrite(w)
  BY <1>5, Kinds DEF EndWrite, Leaves
<1> QED
  BY <1>1, <1>2, <1>3, <1>4, <1>5 DEF WriterNext

\* The main thread starts threads and waits for them, and a wakeup only takes a
\* thread off the condition variable.
LEMMA MainIsQuiet ==
  ASSUME TypeOK, MainNext \/ \E t \in Threads : Wakeup(t)
  PROVE  Quiet
<1>1. \A u \in Threads : pc'[u] = pc[u] \/ (pc[u] = "new" /\ pc'[u] = "lock")
  BY DEF MainNext, AllCreated, JoinAndFree, Exit, Create, Step, Wakeup, TypeOK
<1>2. UNCHANGED counters
  BY DEF MainNext, AllCreated, JoinAndFree, Exit, Create, Wakeup, counters
<1> QED
  BY <1>1, <1>2, Kinds DEF Quiet, Inside, ReadersIn, WritersIn, WritersCounted

\* Every step is one of the five moves the counters record, or none.
LEMMA NextEffect ==
  ASSUME TypeOK, [Next]_vars
  PROVE  \/ Quiet
         \/ \E r \in Readers : Starts(r) \/ Ends(r)
         \/ \E w \in Writers : Announces(w) \/ Enters(w) \/ Leaves(w)
<1>1. CASE UNCHANGED vars
  BY <1>1 DEF vars, counters, Quiet, Inside, ReadersIn, WritersIn, WritersCounted
<1> QED
  BY <1>1, ReaderEffect, WriterEffect, MainIsQuiet DEF Next, Exited

(***************************************************************************)
(* The inductive invariant                                                 *)
(***************************************************************************)
\* Before the threads start nothing is held, counted or blocked.
LEMMA InitInv == Init => IInv
<1> SUFFICES ASSUME Init PROVE IInv
  OBVIOUS
<1> USE DEF Init
<1>1. \A t \in Threads : pc[t] = "new"
  OBVIOUS
<1>2. ReadersIn = {} /\ WritersIn = {} /\ WritersCounted = {}
  BY <1>1, Kinds DEF ReadersIn, WritersIn, WritersCounted, Inside
<1>3. TypeOK
  BY Kinds DEF TypeOK, ReaderCalls, WriterCalls
<1>4. MutexOwned /\ BlockedTest
  BY <1>1, ThreadsAssumption DEF MutexOwned, BlockedTest, Holding, Testing
<1>5. CountersExact
  BY <1>2, FS_EmptySet DEF CountersExact, ReadersIn, WritersIn, WritersCounted
<1> QED
  BY <1>2, <1>3, <1>4, <1>5 DEF IInv, Alone, SomebodyWillBroadcast

\* The sets are finite.
LEMMA CountedAreFinite ==
  /\ IsFiniteSet(ReadersIn)
  /\ IsFiniteSet(WritersIn)
  /\ IsFiniteSet(WritersCounted)
BY ThreadsAssumption, FS_Subset, Kinds
DEF ReadersIn, WritersIn, WritersCounted

\* Every counter changes with the set it counts.
LEMMA CountersInductive ==
  ASSUME TypeOK, CountersExact, [Next]_vars
  PROVE  CountersExact'
<1> USE CountedAreFinite DEF CountersExact
<1>1. /\ actual_readers = Cardinality(ReadersIn)
      /\ writing = Cardinality(WritersIn)
      /\ checker = Cardinality(WritersCounted)
  BY DEF ReadersIn, WritersIn, WritersCounted
<1> SUFFICES /\ actual_readers' = Cardinality(ReadersIn')
             /\ writing' = Cardinality(WritersIn')
             /\ checker' = Cardinality(WritersCounted')
  BY DEF ReadersIn, WritersIn, WritersCounted
<1> HIDE DEF CountersExact
<1>2. CASE Quiet
  BY <1>1, <1>2 DEF Quiet, counters
<1>3. ASSUME NEW r \in Readers, Starts(r) \/ Ends(r)
      PROVE  actual_readers' = Cardinality(ReadersIn')
  <2>1. CASE Starts(r)
    BY <1>1, <2>1, FS_AddElement DEF Starts
  <2>2. CASE Ends(r)
    BY <1>1, <2>2, FS_RemoveElement DEF Ends
  <2> QED
    BY <1>3, <2>1, <2>2
<1>4. ASSUME NEW w \in Writers, Enters(w) \/ Leaves(w)
      PROVE  writing' = Cardinality(WritersIn')
  <2>1. CASE Enters(w)
    BY <1>1, <2>1, FS_AddElement DEF Enters
  <2>2. CASE Leaves(w)
    BY <1>1, <2>2, FS_RemoveElement DEF Leaves
  <2> QED
    BY <1>4, <2>1, <2>2
<1>5. ASSUME NEW w \in Writers, Announces(w) \/ Leaves(w)
      PROVE  checker' = Cardinality(WritersCounted')
  <2>1. CASE Announces(w)
    BY <1>1, <2>1, FS_AddElement DEF Announces
  <2>2. CASE Leaves(w)
    BY <1>1, <2>2, FS_RemoveElement DEF Leaves
  <2> QED
    BY <1>5, <2>1, <2>2
<1> QED
  BY <1>1, <1>2, <1>3, <1>4, <1>5, NextEffect DEF Starts, Ends, Announces, Enters, Leaves

\* A counter of 0 counts nobody.
LEMMA ZeroCounts ==
  ASSUME CountersExact
  PROVE  /\ actual_readers \in Nat /\ writing \in Nat /\ checker \in Nat
         /\ actual_readers = 0 <=> ReadersIn = {}
         /\ writing = 0 <=> WritersIn = {}
         /\ checker = 0 <=> WritersCounted = {}
BY CountedAreFinite, FS_EmptySet, FS_CardinalityType
DEF CountersExact, ReadersIn, WritersIn, WritersCounted

\* A step keeps the types; the counters are numbers because they count.
LEMMA NextType ==
  ASSUME TypeOK, CountersExact', [Next]_vars
  PROVE  TypeOK'
<1>1. actual_readers' \in Nat /\ writing' \in Nat /\ checker' \in Nat
  <2> DEFINE R == {r \in Readers : Inside(r)'}
             W == {w \in Writers : Inside(w)'}
             C == {w \in Writers : pc'[w] = "test" \/ Inside(w)'}
  <2>1. IsFiniteSet(R) /\ IsFiniteSet(W) /\ IsFiniteSet(C)
    BY ThreadsAssumption, FS_Subset, Kinds
  <2> QED
    BY <2>1, FS_CardinalityType DEF CountersExact
<1>2. CASE MainNext \/ \E t \in Threads : Wakeup(t)
  BY <1>1, <1>2, Kinds
  DEF MainNext, AllCreated, JoinAndFree, Exit, Create, Step, Wakeup, TypeOK,
      ReaderCalls, WriterCalls
<1>3. ASSUME NEW t \in Threads, ThreadNext(t) PROVE TypeOK'
  BY <1>1, <1>3, Kinds
  DEF ThreadNext, StartLoop, Lock, Relock, Unlock, Access, EndLoop, Finish, Step,
      TypeOK, ReaderCalls, WriterCalls
<1>4. ASSUME NEW r \in Readers, StartRead(r) \/ ReaderWaits(r) \/ EndRead(r)
      PROVE  TypeOK'
  BY <1>1, <1>4, Kinds
  DEF StartRead, ReaderWaits, EndRead, CondWait, Broadcast, Step, TypeOK,
      ReaderCalls, WriterCalls
<1>5. ASSUME NEW w \in Writers, Want(w) \/ StartWrite(w) \/ WriterWaits(w) \/ EndWrite(w)
      PROVE  TypeOK'
  BY <1>1, <1>5, Kinds
  DEF Want, StartWrite, WriterWaits, EndWrite, CondWait, Broadcast, Step, TypeOK,
      ReaderCalls, WriterCalls
<1>6. CASE UNCHANGED vars
  BY <1>6 DEF vars, TypeOK
<1> QED
  BY <1>2, <1>3, <1>4, <1>5, <1>6, Kinds DEF Next, ReaderNext, WriterNext, Exited

\* The thread that has the mutex keeps it, or gives it up, or blocks.
LEMMA OwnerMoves ==
  ASSUME MutexOwned, BlockedTest, NEW t \in Threads, mutex = t,
         \A s \in Threads \ {t} : pc'[s] = pc[s],
         mutex' \in {t, NoThread}, Holding(t)' <=> mutex' = t,
         \/ blocked' \subseteq blocked
         \/ blocked' = blocked \cup {t} /\ pc'[t] = "test" /\ mutex' = NoThread,
         blocked \subseteq Threads
  PROVE  MutexOwned' /\ BlockedTest'
<1>1. ASSUME NEW s \in Threads \ {t} PROVE ~Holding(s)' /\ mutex' # s
  BY <1>1, ThreadsAssumption DEF MutexOwned, Holding, Testing
<1>2. ASSUME NEW s \in blocked' PROVE pc'[s] = "test" /\ mutex' # s
  <2>1. CASE s = t
    BY <1>2, <2>1, ThreadsAssumption DEF BlockedTest
  <2>2. CASE s # t
    BY <1>1, <1>2, <2>2 DEF BlockedTest
  <2> QED
    BY <2>1, <2>2
<1> QED
  BY <1>1, <1>2 DEF MutexOwned, BlockedTest

\* The mutex changes hands with the calls on it: a thread takes it when it is
\* free and gives it back at an unlock or when it blocks.
LEMMA MutexInductive ==
  ASSUME TypeOK, MutexOwned, BlockedTest, [Next]_vars
  PROVE  MutexOwned' /\ BlockedTest'
<1> USE DEF TypeOK, Step
<1>1. CASE MainNext \/ \E t \in Threads : Wakeup(t)
  BY <1>1, Kinds
  DEF MainNext, AllCreated, JoinAndFree, Exit, Create, Wakeup, MutexOwned, BlockedTest,
      Holding, Testing
<1>2. ASSUME NEW t \in Threads, ThreadNext(t) PROVE MutexOwned' /\ BlockedTest'
  <2>1. t # NoThread
    BY ThreadsAssumption
  <2>2. CASE StartLoop(t) \/ Relock(t) \/ Lock(t, "lock_out", "leave")
    <3>1. mutex = NoThread /\ mutex' = t /\ blocked' = blocked
      BY <2>2 DEF StartLoop, Relock, Lock
    <3>2. t \notin blocked /\ Holding(t)'
      BY <2>2, <3>1, Kinds
      DEF StartLoop, Relock, Lock, BlockedTest, Holding, Testing, Threads
    <3>3. \A s \in Threads \ {t} : pc'[s] = pc[s] /\ ~Holding(s)'
      BY <2>2, <3>1, ThreadsAssumption
      DEF StartLoop, Relock, Lock, MutexOwned, Holding, Testing
    <3> QED
      BY <3>1, <3>2, <3>3 DEF MutexOwned, BlockedTest
  <2>3. CASE Unlock(t) \/ EndLoop(t)
    <3>1. Holding(t) /\ mutex' = NoThread /\ ~Holding(t)' /\ blocked' = blocked
      BY <2>3 DEF Unlock, EndLoop, Holding, Testing
    <3>2. \A s \in Threads \ {t} : pc'[s] = pc[s]
      BY <2>3 DEF Unlock, EndLoop
    <3> QED
      BY <2>1, <3>1, <3>2, OwnerMoves DEF MutexOwned
  <2>4. CASE Access(t) \/ Finish(t)
    BY <2>1, <2>4 DEF Access, Finish, MutexOwned, BlockedTest, Holding, Testing
  <2> QED
    BY <1>2, <2>2, <2>3, <2>4 DEF ThreadNext
<1>3. ASSUME NEW r \in Readers, StartRead(r) \/ ReaderWaits(r) \/ EndRead(r)
      PROVE  MutexOwned' /\ BlockedTest'
  <2>1. r \in Threads /\ r # NoThread
    BY Kinds
  <2>2. Holding(r) /\ \A s \in Threads \ {r} : pc'[s] = pc[s]
    BY <1>3, <2>1 DEF StartRead, ReaderWaits, EndRead, CondWait, Holding, Testing
  <2>3. mutex = r
    BY <2>1, <2>2 DEF MutexOwned
  <2>4. CASE StartRead(r) \/ EndRead(r)
    <3>1. mutex' = r /\ Holding(r)' /\ blocked' \subseteq blocked
      BY <2>1, <2>3, <2>4 DEF StartRead, EndRead, Broadcast, Holding
    <3> QED
      BY <2>1, <2>2, <2>3, <3>1, OwnerMoves
  <2>5. CASE ReaderWaits(r)
    <3>1. mutex' = NoThread /\ pc'[r] = "test" /\ blocked' = blocked \cup {r}
      BY <2>5 DEF ReaderWaits, CondWait, Testing
    <3>2. ~Holding(r)'
      BY <2>1, <3>1 DEF Holding, Testing
    <3> QED
      BY <2>1, <2>2, <2>3, <3>1, <3>2, OwnerMoves
  <2> QED
    BY <1>3, <2>4, <2>5
<1>4. ASSUME NEW w \in Writers, Want(w) \/ StartWrite(w) \/ WriterWaits(w) \/ EndWrite(w)
      PROVE  MutexOwned' /\ BlockedTest'
  <2>1. w \in Threads /\ w # NoThread
    BY Kinds
  <2>2. Holding(w) /\ \A s \in Threads \ {w} : pc'[s] = pc[s]
    BY <1>4, <2>1 DEF Want, StartWrite, WriterWaits, EndWrite, CondWait, Holding, Testing
  <2>3. mutex = w
    BY <2>1, <2>2 DEF MutexOwned
  <2>4. CASE Want(w) \/ StartWrite(w) \/ EndWrite(w)
    <3>1. mutex' = w /\ Holding(w)' /\ blocked' \subseteq blocked
      BY <2>1, <2>3, <2>4 DEF Want, StartWrite, EndWrite, Broadcast, Holding, Testing
    <3> QED
      BY <2>1, <2>2, <2>3, <3>1, OwnerMoves
  <2>5. CASE WriterWaits(w)
    <3>1. mutex' = NoThread /\ pc'[w] = "test" /\ blocked' = blocked \cup {w}
      BY <2>5 DEF WriterWaits, CondWait, Testing
    <3>2. ~Holding(w)'
      BY <2>1, <3>1 DEF Holding, Testing
    <3> QED
      BY <2>1, <2>2, <2>3, <3>1, <3>2, OwnerMoves
  <2> QED
    BY <1>4, <2>4, <2>5
<1>5. CASE UNCHANGED vars
  BY <1>5 DEF vars, MutexOwned, BlockedTest, Holding, Testing
<1> QED
  BY <1>1, <1>2, <1>3, <1>4, <1>5, Kinds DEF Next, ReaderNext, WriterNext, Exited

\* A writer enters when both counters of threads inside are 0, a reader when no
\* writer is counted, and a writer inside is counted.
LEMMA AloneInductive ==
  ASSUME TypeOK, CountersExact, Alone, [Next]_vars
  PROVE  Alone'
<1> USE ZeroCounts DEF Alone
<1>1. CASE Quiet
  BY <1>1 DEF Quiet
<1>2. ASSUME NEW r \in Readers, Starts(r) \/ Ends(r) PROVE Alone'
  <2>1. checker = 0 => WritersIn = {}
    BY DEF WritersIn, WritersCounted
  <2> QED
    BY <1>2, <2>1 DEF Starts, Ends
<1>3. ASSUME NEW w \in Writers, Announces(w) \/ Enters(w) \/ Leaves(w) PROVE Alone'
  BY <1>3 DEF Announces, Enters, Leaves
<1> QED
  BY <1>1, <1>2, <1>3, NextEffect

\* A thread that somebody blocked can count on.
CanWake(t) == Inside(t) \/ (t \in Writers /\ pc[t] = "test")

\* Who blocks leaves somebody who will broadcast: a reader blocks because of a
\* counted writer, a writer because of a thread inside; and such a writer, if
\* it is blocked itself, waits for one that is not.
LEMMA WakerInductive ==
  ASSUME IInv, [Next]_vars
  PROVE  SomebodyWillBroadcast'
<1> USE DEF IInv, TypeOK, Step
<1> DEFINE Waker(t) == t \in Threads \ blocked /\ CanWake(t)
<1>1. /\ SomebodyWillBroadcast <=> (Running /\ blocked # {} => \E t \in Threads : Waker(t))
      /\ SomebodyWillBroadcast' <=>
           (Running' /\ blocked' # {} => \E t \in Threads : Waker(t)')
  BY DEF SomebodyWillBroadcast, CanWake
<1>2. ASSUME Running' => Running, blocked' \subseteq blocked,
             \A t \in Threads : CanWake(t) => CanWake(t)'
      PROVE  SomebodyWillBroadcast'
  BY <1>1, <1>2
<1>3. CASE MainNext \/ \E t \in Threads : Wakeup(t)
  <2>1. \A u \in Threads : pc'[u] = pc[u] \/ (pc[u] = "new" /\ pc'[u] = "lock")
    BY <1>3 DEF MainNext, AllCreated, JoinAndFree, Exit, Create, Wakeup
  <2>2. (Running' => Running) /\ blocked' \subseteq blocked
    BY <1>3 DEF MainNext, AllCreated, JoinAndFree, Exit, Create, Wakeup, Running
  <2> QED
    BY <1>2, <2>1, <2>2 DEF CanWake, Inside
<1>4. ASSUME NEW t \in Threads, ThreadNext(t) PROVE SomebodyWillBroadcast'
  <2>1. Running /\ blocked' = blocked
    BY <1>4 DEF ThreadNext, StartLoop, Lock, Relock, Unlock, Access, EndLoop, Finish
  <2>2. Quiet /\ (\A s \in Threads : s # t => pc'[s] = pc[s])
    BY <1>4, ThreadNextIsQuiet
  <2>3. CanWake(t) => CanWake(t)'
    BY <1>4, Kinds
    DEF ThreadNext, StartLoop, Lock, Relock, Unlock, Access, EndLoop, Finish, CanWake, Inside
  <2> QED
    BY <1>2, <2>1, <2>2, <2>3 DEF CanWake, Inside
<1>5. ASSUME NEW r \in Readers, StartRead(r) PROVE SomebodyWillBroadcast'
  BY <1>2, <1>5, Kinds DEF StartRead, CanWake, Inside
<1>6. ASSUME NEW w \in Writers, Want(w) \/ StartWrite(w) PROVE SomebodyWillBroadcast'
  BY <1>2, <1>6, Kinds DEF Want, StartWrite, CanWake, Inside
<1>7. ASSUME NEW t \in Threads, EndRead(t) \/ EndWrite(t) PROVE SomebodyWillBroadcast'
  BY <1>1, <1>7 DEF EndRead, EndWrite, Broadcast
<1>8. ASSUME NEW r \in Readers, ReaderWaits(r) PROVE SomebodyWillBroadcast'
  <2>1. PICK w \in Writers : CanWake(w)
    BY <1>8, ZeroCounts DEF ReaderWaits, WritersCounted, CanWake
  <2>2. ~CanWake(r) /\ blocked' = blocked \cup {r} /\ Running
    BY <1>8, Kinds DEF ReaderWaits, Testing, CondWait, CanWake, Inside
  <2>3. \E t \in Threads : Waker(t)
    BY <1>1, <2>1, <2>2, Kinds
  <2>4. \A t \in Threads : CanWake(t)' <=> CanWake(t)
    BY <1>8 DEF ReaderWaits, CondWait, CanWake, Inside
  <2> QED
    BY <1>1, <2>2, <2>3, <2>4
<1>9. ASSUME NEW w \in Writers, WriterWaits(w) PROVE SomebodyWillBroadcast'
  <2>1. PICK t \in Threads : Inside(t)
    BY <1>9, ZeroCounts, Kinds DEF WriterWaits, ReadersIn, WritersIn
  <2>2. t \notin blocked /\ t # w
    BY <1>9, <2>1 DEF WriterWaits, Testing, BlockedTest, Inside
  <2>3. Inside(t)' /\ blocked' = blocked \cup {w}
    BY <1>9, <2>1 DEF WriterWaits, CondWait, Inside
  <2> QED
    BY <1>1, <2>2, <2>3 DEF CanWake
<1>10. CASE UNCHANGED vars
  BY <1>2, <1>10 DEF vars, Running, CanWake, Inside
<1> QED
  BY <1>3, <1>4, <1>5, <1>6, <1>7, <1>8, <1>9, <1>10, Kinds
  DEF Next, ReaderNext, WriterNext, Exited

\* The mutex is a lock, the counters count, a writer is alone, and whoever
\* sleeps on the condition variable will be woken.
THEOREM InductiveInvariant == Spec => []IInv
<1>1. IInv /\ [Next]_vars => IInv'
  BY NextType, MutexInductive, CountersInductive, AloneInductive, WakerInductive DEF IInv
<1> QED
  BY InitInv, <1>1, PTL DEF Spec

(***************************************************************************)
(* What follows                                                            *)
(***************************************************************************)
\* No counter goes below 0, whatever the interleaving.
THEOREM TypeCorrect == Spec => []TypeOK
BY InductiveInvariant, PTL DEF IInv

\* The counters the threads decide by are exact in every state.
THEOREM CountersAlwaysExact == Spec => []CountersExact
BY InductiveInvariant, PTL DEF IInv

\* No wakeup is lost: nobody sleeps on the condition variable with nobody left
\* to broadcast.
THEOREM NoWakeupLost == Spec => []SomebodyWillBroadcast
BY InductiveInvariant, PTL DEF IInv

\* No reader starts while a writer waits or writes.
THEOREM PreferWriters == Spec => WritersPreferred
<1>1. IInv /\ [Next]_vars =>
        [\A r \in Readers : ~Inside(r) /\ Inside(r)' =>
            \A w \in Writers : pc[w] # "test" /\ ~Inside(w)]_vars
  <2> SUFFICES ASSUME IInv, [Next]_vars, NEW r \in Readers, ~Inside(r), Inside(r)'
               PROVE  \A w \in Writers : pc[w] # "test" /\ ~Inside(w)
    OBVIOUS
  <2>1. r \notin ReadersIn /\ r \in ReadersIn'
    BY DEF ReadersIn
  <2>2. checker = 0
    BY <2>1, NextEffect DEF IInv, Quiet, Starts, Ends, Announces, Enters, Leaves
  <2> QED
    BY <2>2, ZeroCounts DEF IInv, WritersCounted
<1> QED
  BY <1>1, InductiveInvariant, PTL DEF Spec, WritersPreferred

\* The monitor implements shared reading and exclusive writing: a step of a
\* thread starts or ends one access, allowed at that point, or none.
THEOREM Refinement == Spec => ImplementsReadersWriters
<1>1. Init => Lock1!Init
  BY Kinds DEF Init, Lock1!Init, Inside
<1>2. IInv /\ [Next]_vars => [Lock1!Next]_<<ReadersIn, WritersIn>>
  <2> SUFFICES ASSUME IInv, [Next]_vars
               PROVE  Lock1!Next \/ UNCHANGED <<ReadersIn, WritersIn>>
    OBVIOUS
  <2> USE ZeroCounts DEF IInv, Alone, Lock1!Next
  <2>1. CASE Quiet
    BY <2>1 DEF Quiet
  <2>2. ASSUME NEW r \in Readers, Starts(r) PROVE Lock1!StartRead(r)
    <3>1. WritersIn = {}
      BY <2>2 DEF Starts, WritersIn, WritersCounted
    <3> QED
      BY <2>2, <3>1 DEF Starts, Lock1!StartRead, ReadersIn, WritersIn
  <2>3. ASSUME NEW r \in Readers, Ends(r) PROVE Lock1!EndRead(r)
    BY <2>3 DEF Ends, Lock1!EndRead, ReadersIn, WritersIn
  <2>4. ASSUME NEW w \in Writers, Enters(w) PROVE Lock1!StartWrite(w)
    BY <2>4 DEF Enters, Lock1!StartWrite, ReadersIn, WritersIn
  <2>5. ASSUME NEW w \in Writers, Leaves(w) PROVE Lock1!EndWrite(w)
    <3>1. WritersIn = {w} /\ WritersIn' = {}
      BY <2>5 DEF Leaves
    <3> QED
      BY <2>5, <3>1 DEF Leaves, Lock1!EndWrite, ReadersIn, WritersIn
  <2>6. ASSUME NEW w \in Writers, Announces(w) PROVE UNCHANGED <<ReadersIn, WritersIn>>
    BY <2>6 DEF Announces
  <2> QED
    BY <2>1, <2>2, <2>3, <2>4, <2>5, <2>6, NextEffect
<1>3. <<ReadersIn, WritersIn>> =
        <<{r \in Readers : Inside(r)}, {w \in Writers : Inside(w)}>>
  BY DEF ReadersIn, WritersIn
<1> QED
  BY <1>1, <1>2, <1>3, InductiveInvariant, PTL
  DEF Spec, ImplementsReadersWriters, Lock1!Spec, ReadersIn, WritersIn

(***************************************************************************)
(* The semaphore version                                                   *)
(***************************************************************************)
\* The two versions are given the same threads.
LEMMA SemThreads == IsFiniteSet(Sem!Threads) /\ Readers \cap Writers = {}
BY ThreadsAssumption DEF Sem!Threads, Threads

\* They count with the same Cardinality, over the writers in particular.
LEMMA SemCardinality == \A S : Sem!Cardinality(S) = Cardinality(S)
BY DEF Sem!Cardinality, Cardinality

\* Readers between the two calls on reader_sem, on the way in or out.
SemHolding(r) == pc[r] \in {"count", "claim", "open", "uncount", "release", "close"}

\* Readers that curr_readers counts.
SemCounted == {r \in Readers : pc[r] \in {"claim", "open", "access", "leave", "uncount"}}

\* Readers on whose behalf writer_sem is held.
SemOwning(r) == Sem!Reading(r) \/ pc[r] = "release"

\* reader_sem is a lock.
SemReaderLock ==
  /\ reader_sem \in {0, 1}
  /\ \A r \in Readers : SemHolding(r) => reader_sem = 0
  /\ \A r, s \in Readers : SemHolding(r) /\ SemHolding(s) => r = s

\* curr_readers counts the readers that are in, except those about to leave.
SemCounter ==
  /\ curr_readers = Cardinality(SemCounted)
  /\ \A r \in Readers : pc[r] = "claim" => SemCounted = {r}
  /\ \A r \in Readers : pc[r] = "release" => SemCounted = {}

\* writer_sem is out when somebody owns it, and only then.
SemWriterLock ==
  /\ writer_sem \in {0, 1}
  /\ \A r \in Readers : SemOwning(r) => writer_sem = 0
  /\ \A w \in Writers : Sem!Writing(w) => writer_sem = 0
  /\ writer_sem = 0 => \/ \E r \in Readers : SemOwning(r)
                       \/ \E w \in Writers : Sem!Writing(w)

\* A writer shares the array with nobody.
SemAlone ==
  /\ \A r \in Readers, w \in Writers : ~ (SemOwning(r) /\ Sem!Writing(w))
  /\ \A v, w \in Writers : Sem!Writing(v) /\ Sem!Writing(w) => v = w

SemIInv == Sem!TypeOK /\ SemReaderLock /\ SemCounter /\ SemWriterLock /\ SemAlone

(***************************************************************************)
(* Type correctness                                                        *)
(***************************************************************************)
\* The variables start in their types.
LEMMA SemInitType == Sem!Init => Sem!TypeOK
<1> SUFFICES ASSUME Sem!Init PROVE Sem!TypeOK
  OBVIOUS
<1> USE DEF Sem!Init, Sem!ReaderCalls, Sem!WriterCalls
<1>1. \A w \in Writers : pc[w] \in Sem!WriterCalls
  BY DEF Sem!Threads
<1>2. pc \in [Sem!Threads -> Sem!ReaderCalls] /\ loops \in [Sem!Threads -> Nat]
  OBVIOUS
<1> QED
  BY <1>1, <1>2 DEF Sem!TypeOK

\* Only finitely many readers are counted.
LEMMA SemCountedIsFinite == IsFiniteSet(SemCounted)
BY SemThreads, FS_Subset DEF SemCounted, Sem!Threads

\* A reader that is counted finds at least 1 in the counter, and alone there
\* it finds exactly 1.
LEMMA SemCountedBound ==
  ASSUME curr_readers = Cardinality(SemCounted), NEW r \in SemCounted
  PROVE  /\ curr_readers \in Nat
         /\ curr_readers >= 1
         /\ curr_readers = 1 <=> SemCounted = {r}
<1>1. /\ IsFiniteSet(SemCounted \ {r})
      /\ Cardinality(SemCounted \ {r}) = Cardinality(SemCounted) - 1
  BY SemCountedIsFinite, FS_RemoveElement
<1>2. Cardinality(SemCounted) \in Nat /\ Cardinality(SemCounted \ {r}) \in Nat
  BY <1>1, SemCountedIsFinite, FS_CardinalityType
<1>3. Cardinality(SemCounted \ {r}) = 0 <=> SemCounted \ {r} = {}
  BY <1>1, FS_EmptySet
<1> QED
  BY <1>1, <1>2, <1>3

\* The counter is 0 exactly when nobody is counted.
LEMMA SemNobodyCounted ==
  ASSUME curr_readers = Cardinality(SemCounted)
  PROVE  curr_readers \in Nat /\ (curr_readers = 0 <=> SemCounted = {})
BY SemCountedIsFinite, FS_EmptySet, FS_CardinalityType

\* A step keeps the types; it needs the counter's meaning, for --curr_readers.
LEMMA SemNextType ==
  ASSUME Sem!TypeOK, SemReaderLock, SemCounter, SemWriterLock, [Sem!Next]_(Sem!vars)
  PROVE  Sem!TypeOK'
<1> USE SemThreads DEF Sem!TypeOK, Sem!Threads
<1>1. CASE Sem!MainNext
  BY <1>1
     DEF Sem!MainNext, Sem!ClearWait, Sem!AllCreated, Sem!JoinAndFree, Sem!Exit, Sem!Create,
         Sem!Step,
              Sem!ReaderCalls, Sem!WriterCalls
<1>2. ASSUME NEW r \in Readers, Sem!ReaderNext(r) PROVE Sem!TypeOK'
  <2> USE DEF Sem!Step, Sem!ReaderCalls, Sem!ReaderDown, Sem!ReaderUp, Sem!WriterDown
  <2>1. CASE Sem!Uncount(r)
    <3>1. curr_readers >= 1
      BY <2>1, SemCountedBound DEF Sem!Uncount, SemCounted, SemCounter
    <3> QED
      BY <2>1, <3>1 DEF Sem!Uncount
  <2>2. CASE Sem!Spin(r) \/ Sem!Enter(r) \/ Sem!Count(r) \/ Sem!Claim(r) \/ Sem!Open(r)
    BY <2>2 DEF Sem!Spin, Sem!Enter, Sem!Count, Sem!Claim, Sem!Open

       <2>3. CASE Sem!ReadArray(r) \/ Sem!Leave(r) \/ Sem!Release(r) \/ Sem!Close(r) \/ Sem!Finish(r)
    BY <2>3 DEF Sem!ReadArray, Sem!Leave, Sem!Release, Sem!Close, Sem!Finish
  <2> QED
    BY <1>2, <2>1, <2>2, <2>3 DEF Sem!ReaderNext
<1>3. ASSUME NEW w \in Writers, Sem!WriterNext(w) PROVE Sem!TypeOK'
  BY <1>3
     DEF Sem!WriterNext, Sem!Spin, Sem!StartWrite, Sem!WriteArray, Sem!EndWrite, Sem!Finish,
         Sem!Step,
              Sem!WriterDown, Sem!ReaderCalls, Sem!WriterCalls
<1>4. CASE UNCHANGED Sem!vars
  BY <1>4 DEF Sem!vars
<1> QED
  BY <1>1, <1>2, <1>3, <1>4 DEF Sem!Next, Sem!Exited
(***************************************************************************)
(* The inductive invariant                                                 *)
(***************************************************************************)
\* Before the threads start both semaphores are free and nobody is counted.
LEMMA SemInitInv == Sem!Init => SemIInv
<1> SUFFICES ASSUME Sem!Init PROVE SemIInv
  OBVIOUS
<1>1. \A t \in Sem!Threads : pc[t] = "new"
  BY DEF Sem!Init
<1>2. SemCounted = {}
  BY <1>1 DEF SemCounted, Sem!Threads
<1>3. /\ \A r \in Readers : ~SemHolding(r) /\ ~SemOwning(r) /\ pc[r] = "new"
      /\ \A w \in Writers : ~Sem!Writing(w)
  BY <1>1 DEF SemHolding, SemOwning, Sem!Reading, Sem!Writing, Sem!Threads
<1> QED
  BY SemInitType, <1>2, <1>3, FS_EmptySet
  DEF Sem!Init, SemIInv, SemReaderLock, SemCounter, SemWriterLock, SemAlone

\* A step of main does not move a thread across any of the sections.
LEMMA SemMainKeepsSections ==
  ASSUME Sem!TypeOK, Sem!MainNext
  PROVE  /\ \A r \in Readers : /\ SemHolding(r)' <=> SemHolding(r)
                               /\ SemOwning(r)' <=> SemOwning(r)
                               /\ \A c \in {"claim", "release"} : pc'[r] = c <=> pc[r] = c
         /\ \A w \in Writers : Sem!Writing(w)' <=> Sem!Writing(w)
         /\ SemCounted' = SemCounted
         /\ UNCHANGED <<reader_sem, writer_sem, curr_readers>>
<1>1. \A u \in Sem!Threads : pc'[u] = pc[u] \/ (pc[u] = "new" /\ pc'[u] = "spin")
  BY
     DEF Sem!MainNext, Sem!ClearWait, Sem!AllCreated, Sem!JoinAndFree, Sem!Exit, Sem!Create,
         Sem!Step, Sem!TypeOK
<1>2. UNCHANGED <<reader_sem, writer_sem, curr_readers>>
  BY DEF Sem!MainNext, Sem!ClearWait, Sem!AllCreated, Sem!JoinAndFree, Sem!Exit, Sem!Create
<1>3. SemCounted' = SemCounted
  BY <1>1 DEF SemCounted, Sem!Threads
<1> QED
  BY <1>1, <1>2, <1>3 DEF SemHolding, SemOwning, Sem!Reading, Sem!Writing, Sem!Threads

\* A step of a reader leaves the other threads where they are.
LEMMA SemReaderMovesItself ==
  ASSUME Sem!TypeOK, NEW r \in Readers, Sem!ReaderNext(r)
  PROVE  /\ pc'[r] # pc[r]
         /\ \A t \in Sem!Threads : t # r => pc'[t] = pc[t]
         /\ \A w \in Writers : Sem!Writing(w)' <=> Sem!Writing(w)
<1>1. \E from, to \in Sem!ReaderCalls : from # to /\ Sem!Step(r, from, to)
  BY
     DEF Sem!ReaderNext, Sem!Spin, Sem!Enter, Sem!Count, Sem!Claim, Sem!Open, Sem!ReadArray,
         Sem!Leave, Sem!Uncount,
         Sem!Release, Sem!Close, Sem!Finish, Sem!ReaderDown, Sem!ReaderUp, Sem!WriterDown,
             Sem!ReaderCalls
<1> QED
  BY <1>1, SemThreads DEF Sem!Step, Sem!TypeOK, Sem!Threads, Sem!Writing

\* Only a reader that has taken reader_sem is inside the section it guards.
LEMMA SemReaderLockInductive ==
  ASSUME SemIInv, [Sem!Next]_(Sem!vars)
  PROVE  SemReaderLock'
<1> USE DEF SemIInv, SemReaderLock, SemHolding
<1>1. CASE Sem!MainNext
  BY <1>1, SemMainKeepsSections
<1>2. ASSUME NEW r \in Readers, Sem!ReaderNext(r) PROVE SemReaderLock'
  <2>1. \A s \in Readers : s # r => pc'[s] = pc[s]
    BY <1>2, SemReaderMovesItself DEF Sem!Threads
  <2>2. pc \in [Sem!Threads -> Sem!ReaderCalls] /\ r \in Sem!Threads
    BY DEF Sem!TypeOK, Sem!Threads
  <2> USE <2>1, <2>2 DEF Sem!Step, Sem!ReaderDown, Sem!ReaderUp, Sem!WriterDown
  <2>3. CASE Sem!Spin(r) \/ Sem!ReadArray(r) \/ Sem!Finish(r)
    BY <2>3 DEF Sem!Spin, Sem!ReadArray, Sem!Finish
  <2>4. CASE Sem!Enter(r) \/ Sem!Leave(r)
    BY <2>4 DEF Sem!Enter, Sem!Leave
  <2>5. CASE Sem!Count(r) \/ Sem!Claim(r) \/ Sem!Uncount(r) \/ Sem!Release(r)
    BY <2>5 DEF Sem!Count, Sem!Claim, Sem!Uncount, Sem!Release
  <2>6. CASE Sem!Open(r) \/ Sem!Close(r)
    BY <2>6 DEF Sem!Open, Sem!Close
  <2> QED
    BY <1>2, <2>3, <2>4, <2>5, <2>6 DEF Sem!ReaderNext
<1>3. ASSUME NEW w \in Writers, Sem!WriterNext(w) PROVE SemReaderLock'
  BY <1>3, SemThreads
  DEF Sem!WriterNext, Sem!Spin, Sem!StartWrite, Sem!WriteArray, Sem!EndWrite, Sem!Finish,
      Sem!Step,
      Sem!WriterDown, Sem!TypeOK, Sem!Threads
<1>4. CASE UNCHANGED Sem!vars
  BY <1>4 DEF Sem!vars
<1> QED
  BY <1>1, <1>2, <1>3, <1>4 DEF Sem!Next, Sem!Exited
\* curr_readers changes with the set it counts; the first reader in and the
\* last one out see themselves alone, because they hold reader_sem.
LEMMA SemCounterInductive ==
  ASSUME SemIInv, [Sem!Next]_(Sem!vars)
  PROVE  SemCounter'
<1> USE DEF SemIInv, SemCounter
<1>1. CASE Sem!MainNext
  BY <1>1, SemMainKeepsSections
<1>2. ASSUME NEW r \in Readers, Sem!ReaderNext(r) PROVE SemCounter'
  <2>1. \A s \in Readers : s # r => pc'[s] = pc[s]
    BY <1>2, SemReaderMovesItself DEF Sem!Threads
  <2>2. pc \in [Sem!Threads -> Sem!ReaderCalls] /\ r \in Sem!Threads
    BY DEF Sem!TypeOK, Sem!Threads
  <2>3. \A s \in Readers : SemHolding(r) /\ pc[s] \in {"claim", "release"} => s = r
    BY DEF SemReaderLock, SemHolding
  <2> USE <2>1, <2>2 DEF Sem!Step, Sem!ReaderDown, Sem!ReaderUp, Sem!WriterDown
  <2>4. CASE Sem!Count(r)
    <3>1. r \notin SemCounted /\ SemCounted' = SemCounted \cup {r}
      BY <2>4 DEF Sem!Count, SemCounted
    <3>2. curr_readers' = Cardinality(SemCounted')
      BY <2>4, <3>1, SemCountedIsFinite, FS_AddElement DEF Sem!Count
    <3>3. pc'[r] = "claim" => SemCounted = {}
      BY <2>4, SemNobodyCounted DEF Sem!Count
    <3>4. \A s \in Readers : s # r => pc'[s] \notin {"claim", "release"}
      BY <2>4, <2>3 DEF Sem!Count, SemHolding
    <3>5. pc'[r] # "release"
      BY <2>4 DEF Sem!Count
    <3> QED
      BY <3>1, <3>2, <3>3, <3>4, <3>5
  <2>5. CASE Sem!Uncount(r)
    <3>1. r \in SemCounted /\ SemCounted' = SemCounted \ {r}
      BY <2>5 DEF Sem!Uncount, SemCounted
    <3>2. curr_readers' = Cardinality(SemCounted')
      BY <2>5, <3>1, SemCountedIsFinite, FS_RemoveElement DEF Sem!Uncount
    <3>3. pc'[r] = "release" => SemCounted = {r}
      BY <2>5, <3>1, SemCountedBound DEF Sem!Uncount
    <3>4. \A s \in Readers : s # r => pc'[s] \notin {"claim", "release"}
      BY <2>5, <2>3 DEF Sem!Uncount, SemHolding
    <3>5. pc'[r] # "claim"
      BY <2>5 DEF Sem!Uncount
    <3> QED
      BY <3>1, <3>2, <3>3, <3>4, <3>5
  <2>6. ASSUME SemCounted' = SemCounted, UNCHANGED curr_readers,
               pc'[r] \notin {"claim", "release"}
        PROVE  SemCounter'
    BY <2>6
  <2>7. CASE Sem!Spin(r) \/ Sem!Enter(r) \/ Sem!Claim(r) \/ Sem!Open(r)
    BY <2>6, <2>7 DEF Sem!Spin, Sem!Enter, Sem!Claim, Sem!Open, SemCounted

       <2>8. CASE Sem!ReadArray(r) \/ Sem!Leave(r) \/ Sem!Release(r) \/ Sem!Close(r) \/ Sem!Finish(r)
    BY <2>6, <2>8 DEF Sem!ReadArray, Sem!Leave, Sem!Release, Sem!Close, Sem!Finish, SemCounted
  <2> QED
    BY <1>2, <2>4, <2>5, <2>7, <2>8 DEF Sem!ReaderNext
<1>3. ASSUME NEW w \in Writers, Sem!WriterNext(w) PROVE SemCounter'
  <2>1. (\A r \in Readers : pc'[r] = pc[r]) /\ UNCHANGED curr_readers
    BY <1>3, SemThreads
    DEF Sem!WriterNext, Sem!Spin, Sem!StartWrite, Sem!WriteArray, Sem!EndWrite, Sem!Finish,
        Sem!Step,
        Sem!WriterDown, Sem!TypeOK, Sem!Threads
  <2> QED
    BY <2>1 DEF SemCounted
<1>4. CASE UNCHANGED Sem!vars
  BY <1>4 DEF Sem!vars, SemCounted
<1> QED
  BY <1>1, <1>2, <1>3, <1>4 DEF Sem!Next, Sem!Exited

\* A reader that finds others counted finds them owning writer_sem.
LEMMA SemOthersOwn ==
  ASSUME SemIInv, NEW r \in Readers, SemHolding(r), NEW s \in SemCounted, s # r
  PROVE  s \in Readers /\ pc[s] \in {"access", "leave"} /\ SemOwning(s)
BY DEF SemIInv, SemReaderLock, SemHolding, SemCounted, SemOwning, Sem!Reading

\* writer_sem goes to one writer or to the readers together, and comes back
\* from the same.
LEMMA SemWriterLockInductive ==
  ASSUME SemIInv, [Sem!Next]_(Sem!vars)
  PROVE  SemWriterLock' /\ SemAlone'
<1> USE DEF SemIInv, SemWriterLock, SemAlone
<1>1. CASE Sem!MainNext
  BY <1>1, SemMainKeepsSections
<1>2. ASSUME NEW r \in Readers, Sem!ReaderNext(r) PROVE SemWriterLock' /\ SemAlone'
  <2>1. \A s \in Readers : s # r => pc'[s] = pc[s] /\ (SemOwning(s)' <=> SemOwning(s))
    BY <1>2, SemReaderMovesItself DEF Sem!Threads, SemOwning, Sem!Reading
  <2>2. \A w \in Writers : Sem!Writing(w)' <=> Sem!Writing(w)
    BY <1>2, SemReaderMovesItself
  <2>3. pc \in [Sem!Threads -> Sem!ReaderCalls] /\ r \in Sem!Threads
    BY DEF Sem!TypeOK, Sem!Threads
  <2> USE <2>3 DEF Sem!Step, Sem!ReaderDown, Sem!ReaderUp, Sem!WriterDown
  <2>4. ASSUME SemOwning(r)' <=> SemOwning(r), UNCHANGED writer_sem
        PROVE  SemWriterLock' /\ SemAlone'
    BY <2>1, <2>2, <2>4
  <2>5. CASE Sem!Count(r)
    <3>1. SemHolding(r) /\ ~SemOwning(r) /\ UNCHANGED writer_sem
      BY <2>5 DEF Sem!Count, SemHolding, SemOwning, Sem!Reading
    <3>2. CASE curr_readers = 0
      <4>1. ~SemOwning(r)'
        BY <2>5, <3>2 DEF Sem!Count, SemOwning, Sem!Reading
      <4> QED
        BY <2>4, <3>1, <4>1
    <3>3. CASE curr_readers # 0
      <4>1. PICK s \in SemCounted : s # r
        BY <2>5, <3>3, SemNobodyCounted DEF SemCounter, Sem!Count, SemCounted
      <4>2. s \in Readers /\ SemOwning(s)
        BY <3>1, <4>1, SemOthersOwn
      <4> QED
        BY <2>1, <2>2, <3>1, <4>1, <4>2
    <3> QED
      BY <3>2, <3>3
  <2>6. CASE Sem!Claim(r)
    <3>1. writer_sem = 1 /\ writer_sem' = 0 /\ SemOwning(r)'
      BY <2>6 DEF Sem!Claim, SemOwning, Sem!Reading
    <3> QED
      BY <2>1, <2>2, <3>1
  <2>7. CASE Sem!Uncount(r)
    <3>1. SemHolding(r) /\ SemOwning(r) /\ UNCHANGED writer_sem /\ r \in SemCounted
      BY <2>7 DEF Sem!Uncount, SemHolding, SemOwning, Sem!Reading, SemCounted
    <3>2. CASE curr_readers = 1
      <4>1. SemOwning(r)'
        BY <2>7, <3>2 DEF Sem!Uncount, SemOwning
      <4> QED
        BY <2>4, <3>1, <4>1
    <3>3. CASE curr_readers # 1
      <4>1. PICK s \in SemCounted : s # r
        BY <3>1, <3>3, SemCountedBound DEF SemCounter
      <4>2. s \in Readers /\ SemOwning(s)
        BY <3>1, <4>1, SemOthersOwn
      <4>3. ~SemOwning(r)'
        BY <2>7, <3>3 DEF Sem!Uncount, SemOwning, Sem!Reading
      <4> QED
        BY <2>1, <2>2, <3>1, <4>1, <4>2, <4>3
    <3> QED
      BY <3>2, <3>3
  <2>8. CASE Sem!Release(r)
    <3>1. SemOwning(r) /\ ~SemOwning(r)' /\ writer_sem = 0 /\ writer_sem' = 1
      BY <2>8 DEF Sem!Release, SemOwning, Sem!Reading
    <3>2. \A s \in Readers : s # r => ~SemOwning(s)
      <4> SUFFICES ASSUME NEW s \in Readers, s # r, SemOwning(s) PROVE FALSE
        OBVIOUS
      <4>1. SemCounted = {} /\ SemHolding(r)
        BY <2>8 DEF SemCounter, Sem!Release, SemHolding
      <4>2. pc[s] # "release"
        BY <4>1 DEF SemReaderLock, SemHolding
      <4> QED
        BY <4>1, <4>2 DEF SemOwning, Sem!Reading, SemCounted
    <3> QED
      BY <2>1, <2>2, <3>1, <3>2
  <2>9. CASE Sem!Spin(r) \/ Sem!Enter(r) \/ Sem!Open(r) \/ Sem!ReadArray(r)
    BY <2>4, <2>9 DEF Sem!Spin, Sem!Enter, Sem!Open, Sem!ReadArray, SemOwning, Sem!Reading
  <2>10. CASE Sem!Leave(r) \/ Sem!Close(r) \/ Sem!Finish(r)
    BY <2>4, <2>10 DEF Sem!Leave, Sem!Close, Sem!Finish, SemOwning, Sem!Reading
  <2> QED
    BY <1>2, <2>5, <2>6, <2>7, <2>8, <2>9, <2>10 DEF Sem!ReaderNext
<1>3. ASSUME NEW w \in Writers, Sem!WriterNext(w) PROVE SemWriterLock' /\ SemAlone'
  <2>1. \A t \in Sem!Threads : t # w => pc'[t] = pc[t]
    BY <1>3
       DEF Sem!WriterNext, Sem!Spin, Sem!StartWrite, Sem!WriteArray, Sem!EndWrite, Sem!Finish,
           Sem!Step,
                Sem!WriterDown, Sem!TypeOK
  <2>2. /\ \A r \in Readers : SemOwning(r)' <=> SemOwning(r)
        /\ \A v \in Writers : v # w => (Sem!Writing(v)' <=> Sem!Writing(v))
    BY <2>1, SemThreads DEF Sem!Threads, SemOwning, Sem!Reading, Sem!Writing
  <2>3. pc \in [Sem!Threads -> Sem!ReaderCalls] /\ w \in Sem!Threads
    BY DEF Sem!TypeOK, Sem!Threads
  <2>4. CASE Sem!StartWrite(w)
    <3>1. writer_sem = 1 /\ writer_sem' = 0 /\ Sem!Writing(w)'
      BY <2>3, <2>4 DEF Sem!StartWrite, Sem!WriterDown, Sem!Step, Sem!Writing
    <3> QED
      BY <2>2, <3>1
  <2>5. CASE Sem!EndWrite(w)
    <3>1. writer_sem = 0 /\ writer_sem' = 1 /\ Sem!Writing(w) /\ ~Sem!Writing(w)'
      BY <2>3, <2>5 DEF Sem!EndWrite, Sem!Step, Sem!Writing
    <3> QED
      BY <2>2, <3>1
  <2>6. CASE Sem!Spin(w) \/ Sem!WriteArray(w) \/ Sem!Finish(w)
    <3>1. (Sem!Writing(w)' <=> Sem!Writing(w)) /\ UNCHANGED writer_sem
      BY <2>3, <2>6 DEF Sem!Spin, Sem!WriteArray, Sem!Finish, Sem!Step, Sem!Writing
    <3> QED
      BY <2>2, <3>1
  <2> QED
    BY <1>3, <2>4, <2>5, <2>6 DEF Sem!WriterNext
<1>4. CASE UNCHANGED Sem!vars
  BY <1>4 DEF Sem!vars, SemOwning, Sem!Reading, Sem!Writing
<1> QED
  BY <1>1, <1>2, <1>3, <1>4 DEF Sem!Next, Sem!Exited

\* Both semaphores are locks, curr_readers counts the readers that are in, and
\* writer_sem is out to one writer or to the readers together.
THEOREM SemInductiveInvariant == Sem!Spec => []SemIInv
<1>1. SemIInv /\ [Sem!Next]_(Sem!vars) => SemIInv'
  BY SemNextType, SemReaderLockInductive, SemCounterInductive, SemWriterLockInductive
     DEF SemIInv
<1> QED
  BY SemInitInv, <1>1, PTL DEF Sem!Spec

(***************************************************************************)
(* What follows                                                            *)
(***************************************************************************)
\* No semaphore and no counter leaves its range, whatever the interleaving.
THEOREM SemTypeCorrect == Sem!Spec => []Sem!TypeOK
BY SemInductiveInvariant, PTL DEF SemIInv

\* writer_sem is given back exactly as often as it is taken: it is free, or one
\* writer has it, or the readers have it together.
THEOREM SemOneOwnerAlways == Sem!Spec => []OneOwner
<1>1. SemIInv => OneOwner
  <2> SUFFICES ASSUME SemIInv PROVE OneOwner
    OBVIOUS
  <2> DEFINE Busy == {w \in Writers : Sem!Writing(w)}
  <2> USE DEF SemIInv, SemWriterLock, SemAlone, SemOwning
  <2>1. CASE \E w \in Writers : Sem!Writing(w)
    <3>1. PICK w \in Writers : Sem!Writing(w)
      BY <2>1
    <3>2. Busy = {w}
      BY <3>1
    <3>3. Cardinality(Busy) = 1
      BY <3>2, FS_Singleton
    <3> QED
      BY <3>1, <3>3, SemCardinality DEF OneOwner, Sem!OneOwner
  <2>2. CASE ~ \E w \in Writers : Sem!Writing(w)
    <3>1. Cardinality(Busy) = 0
      BY <2>2, FS_EmptySet
    <3> QED
      BY <2>2, <3>1, SemCardinality DEF OneOwner, Sem!OneOwner
  <2> QED
    BY <2>1, <2>2
<1> QED
  BY <1>1, SemInductiveInvariant, PTL

\* While somebody reads, no reader waits for writer_sem.
THEOREM SemNoReaderWaits == Sem!Spec => []ReadersDoNotWait
<1>1. SemIInv => ReadersDoNotWait
  BY DEF SemIInv, SemCounter, SemCounted, ReadersDoNotWait, Sem!ReadersDoNotWait
<1> QED
  BY <1>1, SemInductiveInvariant, PTL

\* The semaphores implement shared reading and exclusive writing: every step
\* of a thread starts or ends one access, allowed at that point, or none.
THEOREM SemRefinement == Sem!Spec => SemaphoresImplementReadersWriters
<1> DEFINE R == {r \in Readers : Sem!Reading(r)}
           W == {w \in Writers : Sem!Writing(w)}
<1>1. Sem!Init => Sem!Lock!Init
  BY DEF Sem!Init, Sem!Lock!Init, Sem!Reading, Sem!Writing, Sem!Threads
<1>2. SemIInv /\ SemIInv' /\ [Sem!Next]_(Sem!vars) => [Sem!Lock!Next]_<<R, W>>
  <2> SUFFICES ASSUME SemIInv, SemIInv', [Sem!Next]_(Sem!vars) PROVE [Sem!Lock!Next]_<<R, W>>
    OBVIOUS
  <2>1. CASE Sem!MainNext
    <3>1. \A u \in Sem!Threads : pc'[u] = pc[u] \/ (pc[u] = "new" /\ pc'[u] = "spin")
      BY <2>1
         DEF Sem!MainNext, Sem!ClearWait, Sem!AllCreated, Sem!JoinAndFree, Sem!Exit,
             Sem!Create, Sem!Step,
                  SemIInv, Sem!TypeOK
    <3> QED
      BY <3>1 DEF Sem!Reading, Sem!Writing, Sem!Threads
  <2>2. ASSUME NEW r \in Readers, Sem!ReaderNext(r) PROVE [Sem!Lock!Next]_<<R, W>>
    <3>1. \A s \in Readers : s # r => (Sem!Reading(s)' <=> Sem!Reading(s))
      BY <2>2, SemReaderMovesItself DEF SemIInv, Sem!Threads, Sem!Reading
    <3>2. W' = W
      BY <2>2, SemReaderMovesItself DEF SemIInv
    <3>3. CASE Sem!Reading(r)' <=> Sem!Reading(r)
      BY <3>1, <3>2, <3>3
    <3>4. CASE Sem!Reading(r)' /\ ~Sem!Reading(r)
      <4>1. r \notin R /\ R' = R \cup {r}
        BY <3>1, <3>4
      <4>2. W = {}
        BY <3>2, <3>4 DEF SemIInv, SemAlone, SemOwning
      <4>3. Sem!Lock!StartRead(r)
        BY <3>2, <4>1, <4>2 DEF Sem!Lock!StartRead
      <4> QED
        BY <4>3 DEF Sem!Lock!Next
    <3>5. CASE ~Sem!Reading(r)' /\ Sem!Reading(r)
      <4>1. r \in R /\ R' = R \ {r}
        BY <3>1, <3>5
      <4>2. Sem!Lock!EndRead(r)
        BY <3>2, <4>1 DEF Sem!Lock!EndRead
      <4> QED
        BY <4>2 DEF Sem!Lock!Next
    <3> QED
      BY <3>3, <3>4, <3>5
  <2>3. ASSUME NEW w \in Writers, Sem!WriterNext(w) PROVE [Sem!Lock!Next]_<<R, W>>
    <3>1. \A t \in Sem!Threads : t # w => pc'[t] = pc[t]
      BY <2>3
         DEF Sem!WriterNext, Sem!Spin, Sem!StartWrite, Sem!WriteArray, Sem!EndWrite,
             Sem!Finish, Sem!Step,
                  Sem!WriterDown, SemIInv, Sem!TypeOK
    <3>2. /\ R' = R
          /\ \A v \in Writers : v # w => (Sem!Writing(v)' <=> Sem!Writing(v))
      BY <3>1, SemThreads DEF Sem!Threads, Sem!Reading, Sem!Writing
    <3>3. CASE Sem!Writing(w)' <=> Sem!Writing(w)
      BY <3>2, <3>3
    <3>4. CASE Sem!Writing(w)' /\ ~Sem!Writing(w)
      <4>1. R' = {} /\ W' = {w}
        BY <3>4 DEF SemIInv, SemAlone, SemOwning
      <4>2. W = {}
        BY <3>2, <3>4, <4>1
      <4>3. Sem!Lock!StartWrite(w)
        BY <3>2, <4>1, <4>2 DEF Sem!Lock!StartWrite
      <4> QED
        BY <4>3 DEF Sem!Lock!Next
    <3>5. CASE ~Sem!Writing(w)' /\ Sem!Writing(w)
      <4>1. W = {w}
        BY <3>5 DEF SemIInv, SemAlone
      <4>2. W' = {}
        BY <3>2, <3>5, <4>1
      <4>3. Sem!Lock!EndWrite(w)
        BY <3>2, <4>1, <4>2 DEF Sem!Lock!EndWrite
      <4> QED
        BY <4>3 DEF Sem!Lock!Next
    <3> QED
      BY <3>3, <3>4, <3>5
  <2>4. CASE UNCHANGED Sem!vars
    BY <2>4 DEF Sem!vars, Sem!Reading, Sem!Writing
  <2> QED
    BY <2>1, <2>2, <2>3, <2>4 DEF Sem!Next, Sem!Exited
<1> QED
  BY <1>1, <1>2, SemInductiveInvariant, PTL
     DEF Sem!Spec, SemaphoresImplementReadersWriters, Sem!ImplementsReadersWriters, Sem!Lock!Spec
==============================================================================

