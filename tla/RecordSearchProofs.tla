-------------------------- MODULE RecordSearchProofs --------------------------
(***************************************************************************)
(* What the threads of cw08/zad1 read and report, for any number of        *)
(* threads, any batch size and any file, in all three programs.            *)
(***************************************************************************)
EXTENDS RecordSearch, TLAPS

\* A thread between its two calls on the mutex.  The end of the file leaves
\* v3 inside, where it cancels the others.
Holding(t) ==
  \/ pc[t] \in {"read", "unlock"}
  \/ version = 3 /\ pc[t] \in {"cancel", "unlock_end"}

MutexOwned == \A t \in Thread : Holding(t) => mutex = t

\* The slots up to n hold neighbouring records.
Whole(t, n) == \A i \in 1 .. n - 1 : records_buffer[t][i + 1] = records_buffer[t][i] + 1

\* A thread in the middle of its reads has filled the slots before index, up
\* to the offset, unless it has met the end of the file, where it will stay.
TurnSoFar ==
  \A t \in Thread : pc[t] = "read" =>
    /\ index[t] \in Batch
    /\ index[t] > 1 =>
         IF characters_read_no[t]
         THEN records_buffer[t][index[t] - 1] = offset /\ Whole(t, index[t] - 1)
         ELSE offset = FileRecords

\* The loop over the threads to cancel runs over threads: it starts at 1, where
\* the last unlock before it left index.
CancelLoop ==
  \A t \in Thread :
    /\ pc[t] = "cancel" => index[t] \in Thread
    /\ version # 3 /\ pc[t] \in {"pause", "search"} => index[t] = 1

\* The slots of a thread that v3 has filled in this turn and not yet searched.
Pending(t) ==
  {i \in Batch : /\ characters_read_no[t]
                 /\ \/ pc[t] = "read" /\ i < index[t]
                    \/ pc[t] = "unlock"
                    \/ pc[t] = "search" /\ i >= index[t]}

\* v3: a record that is still in the file, or in a pending slot, has not been
\* reported, and it is in one place only.
ReportsToCome ==
  version = 3 =>
    /\ \A r \in 1 .. FileRecords : r > offset => found[r] = 0
    /\ \A t \in Thread : \A i \in Pending(t) :
         /\ records_buffer[t][i] \in 1 .. offset
         /\ found[records_buffer[t][i]] = 0
    /\ \A t, u \in Thread : \A i \in Pending(t), j \in Pending(u) :
         records_buffer[t][i] = records_buffer[u][j] => t = u /\ i = j
    /\ \A t \in Thread : pc[t] = "search" => characters_read_no[t]

IInv ==
  /\ TypeOK /\ MutexOwned /\ CancelLoop
  /\ TurnSoFar /\ BatchesAreWhole
  /\ ReportsToCome /\ ReportedOnce

(***************************************************************************)
(* Reads                                                                   *)
(***************************************************************************)
\* A read fills one slot of one thread.
LEMMA OneSlot ==
  ASSUME NEW b \in [Thread -> [Batch -> 0 .. FileRecords]],
         NEW t \in Thread, NEW i \in Batch, NEW x \in 0 .. FileRecords,
         NEW c, c = [b EXCEPT ![t][i] = x]
  PROVE  /\ c \in [Thread -> [Batch -> 0 .. FileRecords]]
         /\ c[t][i] = x
         /\ \A u \in Thread, j \in Batch : u # t \/ j # i => c[u][j] = b[u][j]
OBVIOUS

\* A step of a thread's own moves no other thread and touches nothing of it.
LEMMA Alone ==
  ASSUME TypeOK, NEW t \in Thread, Routine(t) \/ Cancelled(t)
  PROVE  /\ \A u \in Thread \ {t} :
              /\ pc'[u] = pc[u] /\ index'[u] = index[u]
              /\ characters_read_no'[u] = characters_read_no[u]
              /\ records_buffer'[u] = records_buffer[u]
         /\ UNCHANGED <<version, matches>>
<1> USE DEF TypeOK, Step, input, fileVars, mainVars
<1>1. CASE TakeTurn(t)
  BY <1>1 DEF TakeTurn, Start, Spin, Lock, Read
<1>2. ASSUME NEW from, NEW to, Unlock(t, from, to)
      PROVE  /\ \A u \in Thread \ {t} : pc'[u] = pc[u] /\ index'[u] = index[u]
             /\ UNCHANGED <<version, matches, characters_read_no, records_buffer>>
  BY <1>2 DEF Unlock
<1>3. CASE SearchFirst(t) \/ SearchAll(t) \/ Pause(t)
  BY <1>3 DEF SearchFirst, SearchAll, Pause
<1>4. ASSUME NEW after, CancelOthers(t, after)
      PROVE  /\ \A u \in Thread \ {t} : pc'[u] = pc[u] /\ index'[u] = index[u]
             /\ UNCHANGED <<version, matches, characters_read_no, records_buffer>>
  BY <1>4 DEF CancelOthers
<1>5. CASE AfterReading(t)
  BY <1>2, <1>5 DEF AfterReading
<1>6. CASE Die(t)
  BY <1>6 DEF Die
<1> QED
  BY <1>1, <1>2, <1>3, <1>4, <1>5, <1>6
  DEF Routine, RoutineV1, RoutineV2, RoutineV3, DieAtPoint, Cancelled, DieAnywhere

\* The steps of a thread, with the programs that take them.
LEMMA Steps ==
  ASSUME NEW t \in Thread, Routine(t) \/ Cancelled(t)
  PROVE  \/ Start(t) \/ Spin(t) \/ Lock(t) \/ Read(t)
         \/ version # 3 /\ Pause(t)
         \/ version # 3 /\ Unlock(t, "unlock", "search")
         \/ version # 3 /\ Unlock(t, "unlock", "pause")
         \/ version # 3 /\ SearchFirst(t)
         \/ version # 3 /\ CancelOthers(t, "done")
         \/ version = 3 /\ AfterReading(t)
         \/ version = 3 /\ SearchAll(t)
         \/ version = 3 /\ CancelOthers(t, "unlock_end")
         \/ version = 3 /\ Unlock(t, "unlock_end", "done")
         \/ Die(t)
BY DEF Routine, RoutineV1, RoutineV2, RoutineV3, TakeTurn, DieAtPoint, Cancelled, DieAnywhere

\* A step of main moves at most one thread, from "new" to "start".
LEMMA MainStarts ==
  ASSUME TypeOK, MainNext
  PROVE  /\ \A u \in Thread : pc'[u] = pc[u] \/ (pc[u] = "new" /\ pc'[u] = "start")
         /\ UNCHANGED <<version, matches, offset, mutex, records_buffer,
                        characters_read_no, index, found>>
BY DEF MainNext, Create, LetThemRead, Join, Exit, Step, TypeOK, input, fileVars

(***************************************************************************)
(* The inductive invariant                                                 *)
(***************************************************************************)
\* A step keeps the types.
LEMMA NextType ==
  ASSUME TypeOK, TurnSoFar, CancelLoop, [Next]_vars
  PROVE  TypeOK'
<1> DEFINE Buffers == [Thread -> [Batch -> 0 .. FileRecords]]
<1>1. CASE MainNext
  <2>1. pc' \in [Thread -> Calls]
    BY <1>1, MainStarts DEF MainNext, Create, LetThemRead, Join, Exit, Step, TypeOK, Calls
  <2>2. /\ thread_read' \in {0, 1} /\ main' \in {"create", "join", "exited"}
        /\ next' \in Nat /\ cancelled' = cancelled
    BY <1>1, SizesAssumption
    DEF MainNext, Create, LetThemRead, Join, Exit, TypeOK, Thread
  <2> QED
    BY <1>1, <2>1, <2>2, MainStarts DEF TypeOK
<1>2. ASSUME NEW t \in Thread, Routine(t) \/ Cancelled(t) PROVE TypeOK'
  <2>0. /\ pc \in [Thread -> Calls] /\ index \in [Thread -> Nat]
        /\ records_buffer \in Buffers /\ found \in [1 .. FileRecords -> Nat]
        /\ offset \in 0 .. FileRecords /\ mutex \in Thread \cup {NoThread}
        /\ cancelled \subseteq Thread
        /\ characters_read_no \in [Thread -> BOOLEAN]
    BY DEF TypeOK
  <2>1. UNCHANGED <<input, mainVars>>
    BY <1>2, Steps
    DEF Start, Spin, Pause, Lock, Read, Unlock, SearchFirst, CancelOthers, AfterReading,
        SearchAll, Die
  <2> SUFFICES /\ pc' \in [Thread -> Calls] /\ index' \in [Thread -> Nat]
               /\ records_buffer' \in Buffers /\ found' \in [1 .. FileRecords -> Nat]
               /\ offset' \in 0 .. FileRecords /\ mutex' \in Thread \cup {NoThread}
               /\ cancelled' \subseteq Thread
               /\ characters_read_no' \in [Thread -> BOOLEAN]
    BY <2>1 DEF TypeOK, input, mainVars
  <2>2. pc' \in [Thread -> Calls]
    BY <1>2, <2>0, Steps
    DEF Start, Spin, Pause, Lock, Read, Unlock, SearchFirst, CancelOthers, AfterReading,
        SearchAll, Die, Step, Calls
  <2>3. CASE Read(t)
    <3>1. index[t] \in Batch
      BY <2>3 DEF Read, Step, TurnSoFar
    <3>2. offset' \in 0 .. FileRecords
      BY <2>0, <2>3, SizesAssumption DEF Read
    <3>3. records_buffer' \in Buffers
      BY <2>0, <2>3, <3>1, OneSlot, SizesAssumption DEF Read
    <3>4. /\ index' \in [Thread -> Nat] /\ characters_read_no' \in [Thread -> BOOLEAN]
          /\ UNCHANGED <<mutex, cancelled, found>>
      BY <2>0, <2>3 DEF Read
    <3> HIDE DEF Buffers
    <3> QED
      BY <2>0, <2>2, <3>2, <3>3, <3>4
  <2> HIDE DEF Buffers
  <2>4. CASE UNCHANGED <<fileVars, index, found, cancelled, mutex>>
    BY <2>0, <2>2, <2>4 DEF fileVars
  <2>5. CASE Start(t) \/ Spin(t) \/ Pause(t) \/ Die(t)
    BY <2>4, <2>5 DEF Start, Spin, Pause, Die
  <2>6. CASE Lock(t)
    <3>1. index' \in [Thread -> Nat] /\ mutex' \in Thread \cup {NoThread}
      BY <2>0, <2>6 DEF Lock
    <3>2. UNCHANGED <<fileVars, cancelled, found>>
      BY <2>6 DEF Lock
    <3> QED
      BY <2>0, <2>2, <3>1, <3>2 DEF fileVars
  <2>7. CASE \/ Unlock(t, "unlock", "search") \/ Unlock(t, "unlock", "pause")
             \/ Unlock(t, "unlock_end", "done") \/ AfterReading(t)
    <3>1. index' \in [Thread -> Nat] /\ mutex' \in Thread \cup {NoThread}
      BY <2>0, <2>7 DEF Unlock, AfterReading
    <3>2. UNCHANGED <<fileVars, cancelled, found>>
      BY <2>7 DEF Unlock, AfterReading
    <3> QED
      BY <2>0, <2>2, <3>1, <3>2 DEF fileVars
  <2>8. CASE SearchFirst(t) \/ SearchAll(t)
    <3>1. found' \in [1 .. FileRecords -> Nat] /\ index' \in [Thread -> Nat]
      BY <2>0, <2>8 DEF SearchFirst, SearchAll
    <3>2. UNCHANGED <<fileVars, mutex, cancelled>>
      BY <2>8 DEF SearchFirst, SearchAll
    <3> QED
      BY <2>0, <2>2, <3>1, <3>2 DEF fileVars
  <2>9. CASE CancelOthers(t, "done") \/ CancelOthers(t, "unlock_end")
    <3>1. index[t] \in Thread
      BY <2>9 DEF CancelLoop, CancelOthers, Step
    <3>2. index' \in [Thread -> Nat] /\ cancelled' \subseteq Thread
      BY <2>0, <2>9, <3>1 DEF CancelOthers
    <3>3. UNCHANGED <<fileVars, mutex, found>>
      BY <2>9 DEF CancelOthers
    <3> QED
      BY <2>0, <2>2, <3>2, <3>3 DEF fileVars
  <2> QED
    BY <1>2, <2>3, <2>5, <2>6, <2>7, <2>8, <2>9, Steps
<1>3. CASE UNCHANGED vars
  BY <1>3 DEF vars, TypeOK
<1> QED
  BY <1>1, <1>2, <1>3 DEF Next, Exited

\* The mutex: a thread that has it does not lose it to another.
LEMMA MutexInductive ==
  ASSUME TypeOK, MutexOwned, [Next]_vars
  PROVE  MutexOwned'
<1> USE DEF MutexOwned, Holding
<1>1. CASE MainNext
  BY <1>1, MainStarts
<1>2. ASSUME NEW t \in Thread, Routine(t) \/ Cancelled(t) PROVE MutexOwned'
  <2>1. /\ \A u \in Thread \ {t} : pc'[u] = pc[u]
        /\ version' = version
    BY <1>2, Alone
  <2>2. t # NoThread
    BY SizesAssumption
  <2> USE DEF TypeOK, Step
  <2>3. CASE Lock(t)
    <3>1. mutex = NoThread /\ mutex' = t
      BY <2>3 DEF Lock
    <3> QED
      BY <2>1, <3>1, SizesAssumption
  <2>4. ASSUME Holding(t), ~Holding(t)' PROVE MutexOwned'
    BY <2>1, <2>4
  <2>5. ASSUME UNCHANGED mutex, Holding(t)' => Holding(t) PROVE MutexOwned'
    BY <2>1, <2>5
  <2>6. CASE Start(t) \/ Spin(t) \/ Read(t) \/ Pause(t) \/ Die(t)
    BY <2>1, <2>5, <2>6 DEF Start, Spin, Read, Pause, Die
  <2>7. CASE \/ version # 3 /\ Unlock(t, "unlock", "search")
             \/ version # 3 /\ Unlock(t, "unlock", "pause")
             \/ version = 3 /\ Unlock(t, "unlock_end", "done")
    BY <2>1, <2>4, <2>7 DEF Unlock
  <2>8. CASE \/ version # 3 /\ (SearchFirst(t) \/ CancelOthers(t, "done"))
             \/ version = 3 /\ (SearchAll(t) \/ CancelOthers(t, "unlock_end"))
    BY <2>1, <2>5, <2>8 DEF SearchFirst, SearchAll, CancelOthers
  <2>9. CASE version = 3 /\ AfterReading(t)
    BY <2>1, <2>4, <2>5, <2>9 DEF AfterReading, Unlock
  <2> QED
    BY <1>2, <2>3, <2>6, <2>7, <2>8, <2>9, Steps
<1>3. CASE UNCHANGED vars
  BY <1>3 DEF vars
<1> QED
  BY <1>1, <1>2, <1>3 DEF Next, Exited

\* index is a slot or a thread, each in the loop it is for.
LEMMA CancelLoopInductive ==
  ASSUME TypeOK, CancelLoop, [Next]_vars
  PROVE  CancelLoop'
<1> USE DEF CancelLoop
<1>1. CASE MainNext
  BY <1>1, MainStarts
<1>2. ASSUME NEW t \in Thread, Routine(t) \/ Cancelled(t) PROVE CancelLoop'
  <2>1. /\ \A u \in Thread \ {t} : pc'[u] = pc[u] /\ index'[u] = index[u]
        /\ version' = version
    BY <1>2, Alone
  <2>2. SUFFICES /\ pc'[t] = "cancel" => index'[t] \in Thread
                 /\ version # 3 /\ pc'[t] \in {"pause", "search"} => index'[t] = 1
    BY <2>1
  <2> USE SizesAssumption DEF TypeOK, Step, Thread
  <2>3. CASE Start(t) \/ Spin(t) \/ Lock(t) \/ Read(t) \/ Pause(t) \/ Die(t)
    BY <2>3 DEF Start, Spin, Lock, Read, Pause, Die
  <2>4. CASE \/ version # 3 /\ Unlock(t, "unlock", "search")
             \/ version # 3 /\ Unlock(t, "unlock", "pause")
             \/ version = 3 /\ Unlock(t, "unlock_end", "done")
             \/ version = 3 /\ AfterReading(t)
    BY <2>4 DEF Unlock, AfterReading
  <2>5. CASE \/ version # 3 /\ SearchFirst(t)
             \/ version = 3 /\ SearchAll(t)
    BY <2>5 DEF SearchFirst, SearchAll
  <2>6. CASE \/ version # 3 /\ CancelOthers(t, "done")
             \/ version = 3 /\ CancelOthers(t, "unlock_end")
    <3>1. index[t] \in Thread /\ index'[t] = index[t] + 1
      BY <2>6 DEF CancelOthers
    <3>2. pc'[t] \notin {"pause", "search"}
      BY <2>6 DEF CancelOthers
    <3>3. pc'[t] = "cancel" => index[t] # threads_number
      BY <2>6 DEF CancelOthers
    <3> QED
      BY <3>1, <3>2, <3>3
  <2> QED
    BY <1>2, <2>3, <2>4, <2>5, <2>6, Steps
<1>3. CASE UNCHANGED vars
  BY <1>3 DEF vars
<1> QED
  BY <1>1, <1>2, <1>3 DEF Next, Exited

\* Only a read moves the offset and changes what it has read.
LEMMA OnlyReads ==
  ASSUME NEW t \in Thread, Routine(t) \/ Cancelled(t), ~Read(t)
  PROVE  UNCHANGED <<offset, records_buffer, characters_read_no>>
BY Steps
DEF Start, Spin, Pause, Lock, Unlock, SearchFirst, CancelOthers, AfterReading, SearchAll,
    Die, fileVars

\* A read that gets a record extends the turn's run of records; one that gets
\* none is at the end of the file.
LEMMA ReadExtends ==
  ASSUME TypeOK, TurnSoFar, NEW t \in Thread, Read(t)
  PROVE  /\ index[t] \in Batch
         /\ IF characters_read_no'[t]
            THEN /\ offset < FileRecords /\ offset' = offset + 1
                 /\ records_buffer'[t][index[t]] = offset'
                 /\ \A i \in 1 .. index[t] - 1 :
                      records_buffer'[t][i + 1] = records_buffer'[t][i] + 1
            ELSE offset' = FileRecords /\ offset' = offset
<1>1. index[t] \in Batch /\ pc[t] = "read"
  BY DEF Read, Step, TurnSoFar
<1>2. CASE offset < FileRecords
  <2>1. offset + 1 \in 0 .. FileRecords /\ offset' = offset + 1
    BY <1>2, SizesAssumption DEF TypeOK, Read
  <2>2. /\ records_buffer'[t][index[t]] = offset + 1
        /\ \A j \in Batch : j # index[t] => records_buffer'[t][j] = records_buffer[t][j]
    BY <1>1, <1>2, <2>1, OneSlot DEF TypeOK, Read
  <2>3. characters_read_no'[t] = TRUE
    BY <1>2 DEF Read, TypeOK
  <2>4. ASSUME NEW i \in 1 .. index[t] - 1
        PROVE  records_buffer'[t][i + 1] = records_buffer'[t][i] + 1
    <3>1. index[t] > 1 /\ i \in Batch /\ i + 1 \in Batch /\ i # index[t]
      BY <1>1, <2>4, SizesAssumption DEF Batch
    <3>2. records_buffer[t][index[t] - 1] = offset /\ Whole(t, index[t] - 1)
      BY <1>1, <1>2, <3>1, SizesAssumption DEF TurnSoFar, TypeOK
    <3>3. CASE i = index[t] - 1
      BY <1>1, <2>2, <3>1, <3>2, <3>3, SizesAssumption DEF Batch
    <3>4. CASE i # index[t] - 1
      <4>1. i \in 1 .. index[t] - 2 /\ i + 1 # index[t]
        BY <1>1, <2>4, <3>4, SizesAssumption DEF Batch
      <4> QED
        BY <1>1, <2>2, <3>1, <3>2, <4>1, SizesAssumption DEF Whole, Batch
    <3> QED
      BY <3>3, <3>4
  <2> QED
    BY <1>1, <1>2, <2>1, <2>2, <2>3, <2>4
<1>3. CASE ~(offset < FileRecords)
  <2>1. offset = FileRecords
    BY <1>3, SizesAssumption DEF TypeOK
  <2>2. offset' = offset
    BY <1>3 DEF Read
  <2>3. ~characters_read_no'[t]
    BY <1>3 DEF Read, TypeOK
  <2> QED
    BY <1>1, <2>1, <2>2, <2>3
<1> QED
  BY <1>2, <1>3

\* Nobody else reads during a thread's turn, so its run stays a run.
LEMMA TurnInductive ==
  ASSUME TypeOK, MutexOwned, TurnSoFar, BatchesAreWhole, [Next]_vars
  PROVE  TurnSoFar' /\ BatchesAreWhole'
<1> USE SizesAssumption DEF TurnSoFar, BatchesAreWhole, Whole
<1>1. CASE MainNext
  BY <1>1, MainStarts
<1>2. ASSUME NEW t \in Thread, Routine(t) \/ Cancelled(t)
      PROVE  TurnSoFar' /\ BatchesAreWhole'
  <2>1. \A u \in Thread \ {t} :
          /\ pc'[u] = pc[u] /\ index'[u] = index[u]
          /\ characters_read_no'[u] = characters_read_no[u]
          /\ records_buffer'[u] = records_buffer[u]
    BY <1>2, Alone
  <2>2. CASE Read(t)
    <3>1. \A u \in Thread \ {t} : pc[u] # "read"
      BY <2>2 DEF Read, Step, MutexOwned, Holding
    <3>2. /\ pc'[t] = IF index[t] = number_of_records THEN "unlock" ELSE "read"
          /\ index'[t] = index[t] + 1
      BY <2>2 DEF Read, Step, TypeOK
    <3>3. /\ index[t] \in Batch
          /\ IF characters_read_no'[t]
             THEN /\ records_buffer'[t][index[t]] = offset'
                  /\ \A i \in 1 .. index[t] - 1 :
                       records_buffer'[t][i + 1] = records_buffer'[t][i] + 1
             ELSE offset' = FileRecords
      BY <2>2, ReadExtends
    <3>4. CASE index[t] = number_of_records
      <4>1. pc'[t] = "unlock" /\ Batch \ {number_of_records} = 1 .. index[t] - 1
        BY <3>2, <3>3, <3>4 DEF Batch
      <4> QED
        BY <2>1, <3>1, <3>3, <4>1
    <3>5. CASE index[t] # number_of_records
      <4>1. /\ pc'[t] = "read" /\ index'[t] \in Batch
            /\ index'[t] - 1 = index[t]
        BY <3>2, <3>3, <3>5 DEF Batch
      <4> QED
        BY <2>1, <3>1, <3>3, <4>1
    <3> QED
      BY <3>4, <3>5
  <2>3. CASE ~Read(t)
    <3>1. UNCHANGED <<offset, records_buffer, characters_read_no>>
      BY <1>2, <2>3, OnlyReads
    <3>2. /\ pc'[t] = "read" => index'[t] = 1
          /\ pc'[t] \in {"unlock", "pause", "search"} =>
               pc[t] \in {"unlock", "pause", "search"}
      <4> USE DEF Step, TypeOK
      <4>1. CASE Start(t) \/ Spin(t) \/ Lock(t) \/ Pause(t) \/ Die(t)
        BY <4>1 DEF Start, Spin, Lock, Pause, Die
      <4>2. CASE \/ Unlock(t, "unlock", "search") \/ Unlock(t, "unlock", "pause")
                 \/ Unlock(t, "unlock_end", "done") \/ AfterReading(t)
        BY <4>2 DEF Unlock, AfterReading
      <4>3. CASE SearchFirst(t) \/ SearchAll(t)
        BY <4>3 DEF SearchFirst, SearchAll
      <4>4. CASE CancelOthers(t, "done") \/ CancelOthers(t, "unlock_end")
        BY <4>4 DEF CancelOthers
      <4> QED
        BY <1>2, <2>3, <4>1, <4>2, <4>3, <4>4, Steps
    <3>3. 1 \in Batch
      BY DEF Batch
    <3> QED
      BY <2>1, <3>1, <3>2, <3>3
  <2> QED
    BY <2>2, <2>3
<1>3. CASE UNCHANGED vars
  BY <1>3 DEF vars
<1> QED
  BY <1>1, <1>2, <1>3 DEF Next, Exited

\* A read adds the slot it fills to the pending ones, or leaves none.
LEMMA ReadPends ==
  ASSUME TypeOK, TurnSoFar, NEW t \in Thread, Read(t), NEW i \in Pending(t)'
  PROVE  /\ characters_read_no'[t]
         /\ i \in Batch
         /\ \/ i = index[t]
            \/ i \in Pending(t) /\ records_buffer'[t][i] = records_buffer[t][i]
<1>1. /\ pc[t] = "read" /\ pc'[t] \in {"read", "unlock"}
      /\ pc'[t] = "unlock" => index[t] = number_of_records
      /\ index'[t] = index[t] + 1
  BY DEF Read, Step, TypeOK
<1>2. i \in Batch /\ characters_read_no'[t]
  BY DEF Pending
<1>3. index[t] \in Batch /\ offset < FileRecords
  BY <1>2, ReadExtends
<1>4. i \in 1 .. index[t]
  BY <1>1, <1>2, <1>3, SizesAssumption DEF Pending, Batch
<1>5. CASE i # index[t]
  <2>1. index[t] > 1 /\ i < index[t]
    BY <1>3, <1>4, <1>5, SizesAssumption DEF Batch
  <2>2. characters_read_no[t]
    BY <1>1, <1>3, <2>1, SizesAssumption DEF TurnSoFar, TypeOK
  <2>3. i \in Pending(t)
    BY <1>1, <1>2, <2>1, <2>2 DEF Pending
  <2>4. offset + 1 \in 0 .. FileRecords
    BY <1>3, SizesAssumption DEF TypeOK
  <2>5. records_buffer'[t][i] = records_buffer[t][i]
    BY <1>2, <1>3, <1>5, <2>4, OneSlot DEF Read, TypeOK
  <2> QED
    BY <1>2, <2>3, <2>5
<1> QED
  BY <1>2, <1>5

\* Any other step of v3 leaves no slot pending that was not; a step of the
\* search takes off the slot it looks at.
LEMMA OthersPendNothing ==
  ASSUME TypeOK, version = 3, NEW t \in Thread, Routine(t) \/ Cancelled(t), ~Read(t)
  PROVE  /\ Pending(t)' \subseteq Pending(t)
         /\ SearchAll(t) => index[t] \notin Pending(t)'
         /\ pc'[t] = "search" => pc[t] = "search" \/ characters_read_no[t]
         /\ ~SearchAll(t) => UNCHANGED found
<1> USE SizesAssumption DEF Pending, Step, TypeOK, Batch
<1>1. UNCHANGED characters_read_no
  BY OnlyReads
<1>2. CASE Start(t) \/ Spin(t) \/ Lock(t) \/ Die(t)
  BY <1>1, <1>2 DEF Start, Spin, Lock, Die, SearchAll
<1>3. CASE AfterReading(t)
  BY <1>1, <1>3 DEF AfterReading, Unlock, SearchAll
<1>4. CASE SearchAll(t)
  BY <1>1, <1>4 DEF SearchAll
<1>5. CASE CancelOthers(t, "unlock_end") \/ Unlock(t, "unlock_end", "done")
  BY <1>1, <1>5 DEF CancelOthers, Unlock, SearchAll
<1> QED
  BY <1>2, <1>3, <1>4, <1>5, Steps

\* Every record is read once, and its slot searched once.
LEMMA ReportsInductive ==
  ASSUME TypeOK, TurnSoFar, ReportsToCome, ReportedOnce, [Next]_vars
  PROVE  ReportsToCome' /\ ReportedOnce'
<1>1. CASE UNCHANGED <<version, offset, found, records_buffer, characters_read_no>>
           /\ (\A u \in Thread : pc'[u] = "search" => pc[u] = "search" \/ characters_read_no[u])
           /\ (\A u \in Thread : Pending(u)' \subseteq Pending(u))
  BY <1>1 DEF ReportsToCome, ReportedOnce
<1>2. CASE MainNext
  BY <1>1, <1>2, MainStarts DEF Pending
<1>3. CASE UNCHANGED vars
  BY <1>1, <1>3 DEF vars, Pending
<1>4. ASSUME NEW t \in Thread, Routine(t) \/ Cancelled(t)
      PROVE  ReportsToCome' /\ ReportedOnce'
  <2>1. /\ \A u \in Thread \ {t} :
             /\ pc'[u] = pc[u] /\ characters_read_no'[u] = characters_read_no[u]
             /\ records_buffer'[u] = records_buffer[u]
             /\ Pending(u)' = Pending(u)
        /\ version' = version
    BY <1>4, Alone DEF Pending
  <2>2. SUFFICES ASSUME version = 3 PROVE ReportsToCome' /\ ReportedOnce'
    BY <2>1 DEF ReportsToCome, ReportedOnce
  <2>3. CASE Read(t)
    <3>1. /\ UNCHANGED found
          /\ pc'[t] # "search"
      BY <2>3 DEF Read, Step, TypeOK
    <3>2. index[t] \in Batch /\ offset' \in {offset, offset + 1} /\ offset' <= FileRecords
      BY <2>3, ReadExtends, SizesAssumption DEF TypeOK
    <3>3. ASSUME NEW u \in Thread, NEW i \in Pending(u)'
          PROVE  \/ /\ u = t /\ i = index[t] /\ offset' = offset + 1
                    /\ records_buffer'[u][i] = offset'
                 \/ /\ i \in Pending(u) /\ records_buffer'[u][i] = records_buffer[u][i]
      BY <2>1, <2>3, <3>3, ReadPends, ReadExtends
    <3>4. ASSUME NEW u \in Thread, NEW i \in Pending(u)
          PROVE  records_buffer[u][i] \in 1 .. offset /\ found[records_buffer[u][i]] = 0
      BY <2>2, <3>4 DEF ReportsToCome
    <3>5. \A r \in 1 .. FileRecords : r > offset => found[r] = 0
      BY <2>2 DEF ReportsToCome
    <3>6. offset \in Nat /\ FileRecords \in Nat
      BY SizesAssumption DEF TypeOK
    <3>7. \A u \in Thread : \A i \in Pending(u)' :
             /\ records_buffer'[u][i] \in 1 .. offset'
             /\ found'[records_buffer'[u][i]] = 0
      <4> SUFFICES ASSUME NEW u \in Thread, NEW i \in Pending(u)'
                   PROVE  /\ records_buffer'[u][i] \in 1 .. offset'
                          /\ found[records_buffer'[u][i]] = 0
        BY <3>1
      <4>1. CASE offset' = offset + 1 /\ records_buffer'[u][i] = offset'
        BY <3>2, <3>5, <3>6, <4>1
      <4>2. CASE i \in Pending(u) /\ records_buffer'[u][i] = records_buffer[u][i]
        BY <3>2, <3>4, <3>6, <4>2
      <4> QED
        BY <3>3, <4>1, <4>2
    <3>8. ASSUME NEW u \in Thread, NEW v \in Thread,
                 NEW i \in Pending(u)', NEW j \in Pending(v)',
                 records_buffer'[u][i] = records_buffer'[v][j]
          PROVE  u = v /\ i = j
      <4>1. CASE i \in Pending(u) /\ records_buffer'[u][i] = records_buffer[u][i]
        <5>1. records_buffer'[v][j] # offset + 1
          BY <3>4, <3>6, <3>8, <4>1
        <5>2. j \in Pending(v) /\ records_buffer'[v][j] = records_buffer[v][j]
          BY <3>3, <5>1
        <5>3. records_buffer[u][i] = records_buffer[v][j]
          BY <3>8, <4>1, <5>2
        <5> QED
          BY <2>2, <4>1, <5>2, <5>3 DEF ReportsToCome
      <4>2. CASE ~(i \in Pending(u) /\ records_buffer'[u][i] = records_buffer[u][i])
        <5>1. u = t /\ i = index[t] /\ records_buffer'[u][i] = offset + 1
          BY <3>3, <4>2
        <5>2. CASE j \in Pending(v) /\ records_buffer'[v][j] = records_buffer[v][j]
          <6>1. records_buffer[v][j] \in 1 .. offset
            BY <3>4, <5>2
          <6> QED
            BY <3>6, <3>8, <5>1, <5>2, <6>1
        <5>3. CASE v = t /\ j = index[t]
          BY <5>1, <5>3
        <5> QED
          BY <3>3, <5>2, <5>3
      <4> QED
        BY <4>1, <4>2
    <3>9. \A u \in Thread : pc'[u] = "search" => characters_read_no'[u]
      BY <2>1, <2>2, <3>1 DEF ReportsToCome
    <3>10. \A r \in 1 .. FileRecords : r > offset' => found'[r] = 0
      BY <3>1, <3>2, <3>5, <3>6
    <3>11. ReportsToCome'
      <4>1. \A u, v \in Thread : \A i \in Pending(u)', j \in Pending(v)' :
              records_buffer'[u][i] = records_buffer'[v][j] => u = v /\ i = j
        BY <3>8
      <4> QED
        BY <3>7, <3>9, <3>10, <4>1 DEF ReportsToCome
    <3>12. ReportedOnce'
      BY <2>1, <2>2, <3>1 DEF ReportedOnce
    <3> QED
      BY <3>11, <3>12
  <2>4. CASE ~Read(t)
    <3>1. /\ UNCHANGED <<offset, records_buffer, characters_read_no>>
          /\ Pending(t)' \subseteq Pending(t)
          /\ SearchAll(t) => index[t] \notin Pending(t)'
          /\ pc'[t] = "search" => pc[t] = "search" \/ characters_read_no[t]
          /\ ~SearchAll(t) => UNCHANGED found
      BY <1>4, <2>2, <2>4, OnlyReads, OthersPendNothing
    <3>2. CASE UNCHANGED found
      <4>1. \A u \in Thread : Pending(u)' \subseteq Pending(u)
        BY <2>1, <3>1
      <4>2. \A u \in Thread :
              pc'[u] = "search" => pc[u] = "search" \/ characters_read_no[u]
        BY <2>1, <3>1
      <4> QED
        BY <1>1, <2>1, <3>1, <3>2, <4>1, <4>2
    <3>3. CASE SearchAll(t) /\ index[t] \in Hits(t)
      <4> DEFINE b == records_buffer[t][index[t]]
      <4>1. index[t] \in Pending(t)
        BY <2>2, <3>3 DEF ReportsToCome, SearchAll, Step, Hits, Pending, TypeOK, Batch
      <4>2. b \in 1 .. offset /\ found[b] = 0
        BY <2>2, <4>1 DEF ReportsToCome
      <4>3. b \in 1 .. FileRecords /\ found' = [found EXCEPT ![b] = 1]
        BY <3>3, <4>2, SizesAssumption DEF SearchAll, TypeOK
      <4>4. ASSUME NEW u \in Thread, NEW i \in Pending(u)'
            PROVE  i \in Pending(u) /\ records_buffer[u][i] # b
        BY <2>1, <2>2, <3>1, <3>3, <4>1, <4>4 DEF ReportsToCome
      <4>5. \A r \in 1 .. FileRecords : found'[r] = IF r = b THEN 1 ELSE found[r]
        BY <4>3 DEF TypeOK
      <4>6. \A r \in 1 .. FileRecords : r > offset => r # b
        BY <4>2, SizesAssumption DEF TypeOK
      <4>7. \A u \in Thread : \A i \in Pending(u)' :
              /\ records_buffer[u][i] \in 1 .. offset
              /\ found'[records_buffer[u][i]] = 0
        <5> SUFFICES ASSUME NEW u \in Thread, NEW i \in Pending(u)'
                     PROVE  /\ records_buffer[u][i] \in 1 .. offset
                            /\ found'[records_buffer[u][i]] = 0
          OBVIOUS
        <5>1. i \in Pending(u) /\ records_buffer[u][i] # b
          BY <4>4
        <5>2. /\ records_buffer[u][i] \in 1 .. offset
              /\ found[records_buffer[u][i]] = 0
          BY <2>2, <5>1 DEF ReportsToCome
        <5>3. records_buffer[u][i] \in 1 .. FileRecords
          BY <5>2, SizesAssumption DEF TypeOK
        <5> QED
          BY <4>5, <5>1, <5>2, <5>3
      <4>8. ReportsToCome'
        BY <2>1, <2>2, <3>1, <4>4, <4>5, <4>6, <4>7 DEF ReportsToCome
      <4>9. ReportedOnce'
        BY <2>1, <2>2, <4>5 DEF ReportedOnce
      <4> QED
        BY <4>8, <4>9
    <3>4. CASE SearchAll(t) /\ index[t] \notin Hits(t)
      BY <3>2, <3>4 DEF SearchAll
    <3> QED
      BY <3>1, <3>2, <3>3, <3>4
  <2> QED
    BY <2>3, <2>4
<1> QED
  BY <1>2, <1>3, <1>4 DEF Next, Exited

\* Nothing is read, pending or reported when the program starts.
LEMMA InitInv == Init => IInv
<1> SUFFICES ASSUME Init PROVE IInv
  OBVIOUS
<1> USE SizesAssumption DEF Init
<1>1. TypeOK
  BY DEF TypeOK, Calls
<1>2. MutexOwned /\ CancelLoop /\ TurnSoFar /\ BatchesAreWhole
  BY DEF MutexOwned, Holding, CancelLoop, TurnSoFar, BatchesAreWhole
<1>3. ReportsToCome /\ ReportedOnce
  BY DEF ReportsToCome, Pending, ReportedOnce
<1> QED
  BY <1>1, <1>2, <1>3 DEF IInv

\* A turn on the file is a run of neighbouring records, and in v3 every record
\* of it is searched once.
THEOREM InductiveInvariant == Spec => []IInv
<1>1. IInv /\ [Next]_vars => IInv'
  BY NextType, MutexInductive, CancelLoopInductive, TurnInductive, ReportsInductive DEF IInv
<1> QED
  BY InitInv, <1>1, PTL DEF Spec

(***************************************************************************)
(* What follows                                                            *)
(***************************************************************************)
\* No index leaves its buffer, and nobody cancels a thread that is none.
THEOREM TypeCorrect == Spec => []TypeOK
BY InductiveInvariant, PTL DEF IInv

\* A batch that is searched holds neighbouring records: no other thread has
\* moved the offset between its reads.
THEOREM BatchesAlwaysWhole == Spec => []BatchesAreWhole
BY InductiveInvariant, PTL DEF IInv

\* v3 reports no record twice.
THEOREM NeverReportedTwice == Spec => []ReportedOnce
BY InductiveInvariant, PTL DEF IInv
===============================================================================
