------------------------ MODULE ReadersWritersMonitor ------------------------
(***************************************************************************)
(* cw09/zad1/v1/main.c: readers and writers with a mutex and a condition   *)
(* variable, writers preferred.                                            *)
(*                                                                         *)
(* A step is one call of the pthread library, or what a thread does        *)
(* between two of them.  A program counter names what the thread does      *)
(* next.  The main thread creates the others, joins the readers only,      *)
(* frees the array and returns, which ends the process.                    *)
(***************************************************************************)
EXTENDS Integers, FiniteSets

CONSTANTS
  Readers,             \* the reader threads (readers_number of them)
  Writers,             \* the writer threads (writers_number of them)
  reader_reads_number, \* loops of a reader
  writer_writes_number, \* loops of a writer
  NoThread             \* a thread id that is no thread's

Threads == Readers \cup Writers

ASSUME ThreadsAssumption ==
  /\ IsFiniteSet(Threads)
  /\ Readers \cap Writers = {}
  /\ NoThread \notin Threads
ASSUME LoopsAssumption ==
  reader_reads_number \in Nat /\ writer_writes_number \in Nat

VARIABLES
  mutex,          \* the thread that holds the mutex, or NoThread
  blocked,        \* the threads inside pthread_cond_wait
  checker,        \* the writers that want to write or are writing
  writing,        \* the writers writing
  actual_readers, \* the readers reading
  pc,             \* what each thread does next
  loops,          \* the loops each thread has ended
  main,           \* what the main thread does next
  freed           \* numbers_array has been freed

vars == <<mutex, blocked, checker, writing, actual_readers, pc, loops, main,
          freed>>
counters == <<checker, writing, actual_readers>>

ReaderCalls == {"new", "lock", "test", "unlock", "access", "lock_out", "leave",
                "unlock_out", "done"}
WriterCalls == ReaderCalls \cup {"want"}

Init ==
  /\ mutex = NoThread
  /\ blocked = {}
  /\ checker = 0
  /\ writing = 0
  /\ actual_readers = 0
  /\ pc = [t \in Threads |-> "new"]
  /\ loops = [t \in Threads |-> 0]
  /\ main = "create"
  /\ freed = FALSE

Running == main # "exited"

Step(t, from, to) == Running /\ pc[t] = from /\ pc' = [pc EXCEPT ![t] = to]

Loops(t) == IF t \in Readers THEN reader_reads_number ELSE writer_writes_number

Lock(t, from, to) ==
  /\ Step(t, from, to)
  /\ mutex = NoThread
  /\ mutex' = t
  /\ UNCHANGED <<blocked, counters, loops, main, freed>>

\* pthread_mutex_lock at the head of the loop, entered while loops remain.
StartLoop(t) ==
  /\ loops[t] < Loops(t)
  /\ Lock(t, "lock", IF t \in Readers THEN "test" ELSE "want")

Unlock(t) ==
  /\ Step(t, "unlock", "access")
  /\ mutex' = NoThread
  /\ UNCHANGED <<blocked, counters, loops, main, freed>>

\* pthread_cond_wait gives the mutex up and blocks in one step.
CondWait(t) ==
  /\ Running
  /\ blocked' = blocked \cup {t}
  /\ mutex' = NoThread
  /\ UNCHANGED <<counters, pc, loops, main, freed>>

\* After a broadcast, or for no reason (POSIX allows a spurious wakeup), the
\* thread returns once it has the mutex again, and tests again.
Wakeup(t) ==
  /\ Running
  /\ t \in blocked
  /\ blocked' = blocked \ {t}
  /\ UNCHANGED <<mutex, counters, pc, loops, main, freed>>

\* A thread that is not blocked tests its condition holding the mutex; one
\* that has been woken takes the mutex first.
Relock(t) ==
  /\ Running
  /\ pc[t] = "test"
  /\ t \notin blocked
  /\ mutex = NoThread
  /\ mutex' = t
  /\ UNCHANGED <<blocked, counters, pc, loops, main, freed>>

Broadcast == blocked' = {}

(***************************************************************************)
(* reader_thread                                                           *)
(***************************************************************************)
Testing(t) == pc[t] = "test" /\ mutex = t

\* Mutant of StartRead: the reader waits for writers that write only.
StartReadEarly(r) ==
  /\ Testing(r)
  /\ writing = 0
  /\ Step(r, "test", "unlock")
  /\ actual_readers' = actual_readers + 1
  /\ UNCHANGED <<mutex, blocked, checker, writing, loops, main, freed>>

StartRead(r) ==
  /\ Testing(r)
  /\ checker = 0
  /\ Step(r, "test", "unlock")
  /\ actual_readers' = actual_readers + 1
  /\ UNCHANGED <<mutex, blocked, checker, writing, loops, main, freed>>

ReaderWaits(r) == Testing(r) /\ checker # 0 /\ CondWait(r)

\* The scan of the array, or its rewriting by a writer.
Access(t) ==
  /\ Step(t, "access", "lock_out")
  /\ UNCHANGED <<mutex, blocked, counters, loops, main, freed>>

\* Mutant of EndRead: no broadcast.
EndReadSilently(r) ==
  /\ Step(r, "leave", "unlock_out")
  /\ actual_readers' = actual_readers - 1
  /\ UNCHANGED <<mutex, blocked, checker, writing, loops, main, freed>>

EndRead(r) ==
  /\ Step(r, "leave", "unlock_out")
  /\ actual_readers' = actual_readers - 1
  /\ Broadcast
  /\ UNCHANGED <<mutex, checker, writing, loops, main, freed>>

(***************************************************************************)
(* writer_thread                                                           *)
(***************************************************************************)
\* checker++ keeps new readers out from now on.
Want(w) ==
  /\ Step(w, "want", "test")
  /\ checker' = checker + 1
  /\ UNCHANGED <<mutex, blocked, writing, actual_readers, loops, main, freed>>

\* Mutant of StartWrite: the writer does not wait for other writers.
StartWriteBeside(w) ==
  /\ Testing(w)
  /\ actual_readers = 0
  /\ Step(w, "test", "unlock")
  /\ writing' = writing + 1
  /\ UNCHANGED <<mutex, blocked, checker, actual_readers, loops, main, freed>>

StartWrite(w) ==
  /\ Testing(w)
  /\ actual_readers = 0 /\ writing = 0
  /\ Step(w, "test", "unlock")
  /\ writing' = writing + 1
  /\ UNCHANGED <<mutex, blocked, checker, actual_readers, loops, main, freed>>

WriterWaits(w) == Testing(w) /\ (actual_readers # 0 \/ writing # 0) /\ CondWait(w)

\* Mutant of EndWrite: the counter of the readers goes down.
EndWriteAsReader(w) ==
  /\ Step(w, "leave", "unlock_out")
  /\ actual_readers' = actual_readers - 1
  /\ checker' = checker - 1
  /\ Broadcast
  /\ UNCHANGED <<mutex, writing, loops, main, freed>>

\* Mutant of EndWrite: the writer stays counted as one that wants to write.
EndWriteStillWanting(w) ==
  /\ Step(w, "leave", "unlock_out")
  /\ writing' = writing - 1
  /\ Broadcast
  /\ UNCHANGED <<mutex, checker, actual_readers, loops, main, freed>>

EndWrite(w) ==
  /\ Step(w, "leave", "unlock_out")
  /\ writing' = writing - 1
  /\ checker' = checker - 1
  /\ Broadcast
  /\ UNCHANGED <<mutex, actual_readers, loops, main, freed>>

(***************************************************************************)
(* The end of a loop, and the two kinds of threads                         *)
(***************************************************************************)
EndLoop(t) ==
  /\ Step(t, "unlock_out", "lock")
  /\ mutex' = NoThread
  /\ loops' = [loops EXCEPT ![t] = @ + 1]
  /\ UNCHANGED <<blocked, counters, main, freed>>

Finish(t) ==
  /\ Step(t, "lock", "done")
  /\ loops[t] = Loops(t)
  /\ UNCHANGED <<mutex, blocked, counters, loops, main, freed>>

ThreadNext(t) ==
  \/ StartLoop(t) \/ Relock(t) \/ Unlock(t)
  \/ Access(t) \/ Lock(t, "lock_out", "leave")
  \/ EndLoop(t) \/ Finish(t)

ReaderNext(r) == ThreadNext(r) \/ StartRead(r) \/ ReaderWaits(r) \/ EndRead(r)

WriterNext(w) == ThreadNext(w) \/ Want(w) \/ StartWrite(w) \/ WriterWaits(w) \/ EndWrite(w)

(***************************************************************************)
(* main and threads_run                                                    *)
(***************************************************************************)
\* pthread_create: every reader, then every writer.
Create(t) ==
  /\ main = "create"
  /\ Step(t, "new", "lock")
  /\ t \in Writers => \A r \in Readers : pc[r] # "new"
  /\ UNCHANGED <<mutex, blocked, counters, loops, main, freed>>

AllCreated ==
  /\ main = "create"
  /\ \A t \in Threads : pc[t] # "new"
  /\ main' = "join"
  /\ UNCHANGED <<mutex, blocked, counters, pc, loops, freed>>

\* pthread_join of the readers; nobody joins the writers.  Then clean_memory.
JoinAndFree ==
  /\ main = "join"
  /\ \A r \in Readers : pc[r] = "done"
  /\ main' = "return"
  /\ freed' = TRUE
  /\ UNCHANGED <<mutex, blocked, counters, pc, loops>>

Exit ==
  /\ main = "return"
  /\ main' = "exited"
  /\ UNCHANGED <<mutex, blocked, counters, pc, loops, freed>>

MainNext == AllCreated \/ JoinAndFree \/ Exit \/ \E t \in Threads : Create(t)

Exited == main = "exited" /\ UNCHANGED vars

Next ==
  \/ MainNext
  \/ \E r \in Readers : ReaderNext(r)
  \/ \E w \in Writers : WriterNext(w)
  \/ \E t \in Threads : Wakeup(t)
  \/ Exited

Spec == Init /\ [][Next]_vars

\* Every thread is scheduled, and none that can take the mutex again and again
\* is passed over for ever.  Spurious wakeups may come or not.
Fairness ==
  /\ WF_vars(MainNext)
  /\ \A r \in Readers : SF_vars(ReaderNext(r))
  /\ \A w \in Writers : SF_vars(WriterNext(w))

FairSpec == Spec /\ Fairness

(***************************************************************************)
(* Properties                                                              *)
(***************************************************************************)
Holding(t) ==
  \/ pc[t] \in {"want", "unlock", "leave", "unlock_out"}
  \/ Testing(t)

Inside(t) == pc[t] \in {"unlock", "access", "lock_out", "leave"}

TypeOK ==
  /\ mutex \in Threads \cup {NoThread}
  /\ blocked \subseteq Threads
  /\ checker \in Nat /\ writing \in Nat /\ actual_readers \in Nat
  /\ pc \in [Threads -> WriterCalls]
  /\ \A r \in Readers : pc[r] \in ReaderCalls
  /\ loops \in [Threads -> Nat]
  /\ main \in {"create", "join", "return", "exited"}
  /\ freed \in BOOLEAN

\* The three counters the threads decide by are exact in every state: a reader
\* or writer that is in the middle of anything is counted once.
CountersExact ==
  /\ actual_readers = Cardinality({r \in Readers : Inside(r)})
  /\ writing = Cardinality({w \in Writers : Inside(w)})
  /\ checker = Cardinality({w \in Writers : pc[w] = "test" \/ Inside(w)})

\* Readers share the array, a writer has it alone.
Lock1 == INSTANCE ReadersWriters WITH
           reading <- {r \in Readers : Inside(r)},
           writing <- {w \in Writers : Inside(w)}

ImplementsReadersWriters == Lock1!Spec

\* Writers are preferred (tresc.txt: readers cannot get access while a writer
\* waits for it): no reader starts while a writer is counted.
WritersPreferred ==
  [][\A r \in Readers : ~Inside(r) /\ Inside(r)' =>
       \A w \in Writers : pc[w] # "test" /\ ~Inside(w)]_vars

\* No thread sleeps on the condition variable with nobody left to wake it: a
\* blocked thread has a counted thread, not blocked itself, to wait for.
SomebodyWillBroadcast ==
  Running /\ blocked # {} =>
    \E t \in Threads \ blocked : Inside(t) \/ (t \in Writers /\ pc[t] = "test")

\* With every reader started, main gets to the end of its joins: no reader is
\* blocked for ever, however the writers take turns.
ReadersFinish == <>(main = "exited")

\* tresc.txt:18: a writer modifies numbers in the array.
WritesOnlyTheArray == \A w \in Writers : pc[w] = "access" => ~freed
==============================================================================
