-------------------------- MODULE ReadersWritersSem --------------------------
(***************************************************************************)
(* cw09/zad1/v2/main.c: readers and writers with two POSIX semaphores,     *)
(* readers preferred.  The first reader in takes writer_sem for all, the   *)
(* last one out gives it back.                                             *)
(*                                                                         *)
(* A step is one semaphore call or what a thread does between two of them. *)
(* The main thread creates the readers, clears the flag wait on which all  *)
(* threads spin, creates the writers, joins the readers only, frees the    *)
(* array and returns, which ends the process.  sleep(1) at the end of a    *)
(* loop only delays a thread.                                              *)
(***************************************************************************)
EXTENDS Integers, FiniteSets

CONSTANTS
  Readers, Writers,     \* the threads
  reader_reads_number,  \* loops of a reader
  writer_writes_number  \* loops of a writer

Threads == Readers \cup Writers

(* What the constants have to be. *)
ThreadsAssumption == IsFiniteSet(Threads) /\ Readers \cap Writers = {}
LoopsAssumption ==
  reader_reads_number \in Nat /\ writer_writes_number \in Nat

VARIABLES
  reader_sem,   \* guards curr_readers
  writer_sem,   \* guards the array
  curr_readers, \* the readers that read or are about to
  wait,         \* the start flag
  pc,           \* what each thread does next
  loops,        \* the loops each thread has ended
  main,         \* what the main thread does next
  freed         \* numbers_array has been freed, the semaphores destroyed

vars == <<reader_sem, writer_sem, curr_readers, wait, pc, loops, main, freed>>

ReaderCalls == {"new", "spin", "enter", "count", "claim", "open", "access",
                "leave", "uncount", "release", "close", "done"}
WriterCalls == {"new", "spin", "enter", "access", "release", "done"}

Init ==
  /\ reader_sem = 1
  /\ writer_sem = 1
  /\ curr_readers = 0
  /\ wait = TRUE
  /\ pc = [t \in Threads |-> "new"]
  /\ loops = [t \in Threads |-> 0]
  /\ main = "create_readers"
  /\ freed = FALSE

Step(t, from, to) == main # "exited" /\ pc[t] = from /\ pc' = [pc EXCEPT ![t] = to]

Loops(t) == IF t \in Readers THEN reader_reads_number ELSE writer_writes_number

\* while(wait); the build (-Wall, no optimization) reads the flag each time.
Spin(t) ==
  /\ Step(t, "spin", "enter")
  /\ ~wait
  /\ UNCHANGED <<reader_sem, writer_sem, curr_readers, wait, loops, main, freed>>

(***************************************************************************)
(* reader_thread                                                           *)
(***************************************************************************)
ReaderDown(r, from, to) ==
  /\ Step(r, from, to)
  /\ reader_sem > 0
  /\ reader_sem' = reader_sem - 1
  /\ UNCHANGED <<writer_sem, curr_readers, wait, loops, main, freed>>

ReaderUp(r, from, to) ==
  /\ Step(r, from, to)
  /\ reader_sem' = reader_sem + 1
  /\ UNCHANGED <<writer_sem, curr_readers, wait, loops, main, freed>>

WriterDown(t, from, to) ==
  /\ Step(t, from, to)
  /\ writer_sem > 0
  /\ writer_sem' = writer_sem - 1
  /\ UNCHANGED <<reader_sem, curr_readers, wait, loops, main, freed>>

Enter(r) == loops[r] < Loops(r) /\ ReaderDown(r, "enter", "count")

\* Mutant of Count: ++curr_readers is compared with 0.
CountFromZero(r) ==
  /\ Step(r, "count", IF curr_readers = 0 THEN "open" ELSE "claim")
  /\ curr_readers' = curr_readers + 1
  /\ UNCHANGED <<reader_sem, writer_sem, wait, loops, main, freed>>

Count(r) ==
  /\ Step(r, "count", IF curr_readers = 0 THEN "claim" ELSE "open")
  /\ curr_readers' = curr_readers + 1
  /\ UNCHANGED <<reader_sem, writer_sem, wait, loops, main, freed>>

\* The first reader waits for writer_sem with reader_sem in hand.
Claim(r) == WriterDown(r, "claim", "open")

Open(r) == ReaderUp(r, "open", "access")

ReadArray(r) ==
  /\ Step(r, "access", "leave")
  /\ UNCHANGED <<reader_sem, writer_sem, curr_readers, wait, loops, main, freed>>

Leave(r) == ReaderDown(r, "leave", "uncount")

\* Mutant of Uncount: the last reader keeps writer_sem.
UncountKeeping(r) ==
  /\ Step(r, "uncount", "close")
  /\ curr_readers' = curr_readers - 1
  /\ UNCHANGED <<reader_sem, writer_sem, wait, loops, main, freed>>

\* Mutant of Uncount: every reader gives writer_sem back on its way out.
UncountReleasing(r) ==
  /\ Step(r, "uncount", "release")
  /\ curr_readers' = curr_readers - 1
  /\ UNCHANGED <<reader_sem, writer_sem, wait, loops, main, freed>>

Uncount(r) ==
  /\ Step(r, "uncount", IF curr_readers = 1 THEN "release" ELSE "close")
  /\ curr_readers' = curr_readers - 1
  /\ UNCHANGED <<reader_sem, writer_sem, wait, loops, main, freed>>

Release(r) ==
  /\ Step(r, "release", "close")
  /\ writer_sem' = writer_sem + 1
  /\ UNCHANGED <<reader_sem, curr_readers, wait, loops, main, freed>>

Close(r) ==
  /\ Step(r, "close", "enter")
  /\ reader_sem' = reader_sem + 1
  /\ loops' = [loops EXCEPT ![r] = @ + 1]
  /\ UNCHANGED <<writer_sem, curr_readers, wait, main, freed>>

(***************************************************************************)
(* writer_thread                                                           *)
(***************************************************************************)
StartWrite(w) == loops[w] < Loops(w) /\ WriterDown(w, "enter", "access")

WriteArray(w) ==
  /\ Step(w, "access", "release")
  /\ UNCHANGED <<reader_sem, writer_sem, curr_readers, wait, loops, main, freed>>

EndWrite(w) ==
  /\ Step(w, "release", "enter")
  /\ writer_sem' = writer_sem + 1
  /\ loops' = [loops EXCEPT ![w] = @ + 1]
  /\ UNCHANGED <<reader_sem, curr_readers, wait, main, freed>>

Finish(t) ==
  /\ Step(t, "enter", "done")
  /\ loops[t] = Loops(t)
  /\ UNCHANGED <<reader_sem, writer_sem, curr_readers, wait, loops, main, freed>>

ReaderNext(r) ==
  \/ Spin(r) \/ Enter(r) \/ Count(r) \/ Claim(r) \/ Open(r) \/ ReadArray(r)
  \/ Leave(r) \/ Uncount(r) \/ Release(r) \/ Close(r) \/ Finish(r)

WriterNext(w) ==
  Spin(w) \/ StartWrite(w) \/ WriteArray(w) \/ EndWrite(w) \/ Finish(w)

(***************************************************************************)
(* main and threads_run                                                    *)
(***************************************************************************)
Create(t) ==
  /\ main = IF t \in Readers THEN "create_readers" ELSE "create_writers"
  /\ Step(t, "new", "spin")
  /\ UNCHANGED <<reader_sem, writer_sem, curr_readers, wait, loops, main, freed>>

\* Mutant of ClearWait: the flag is left set.
ClearWaitForgotten ==
  /\ main = "create_readers"
  /\ \A r \in Readers : pc[r] # "new"
  /\ main' = "create_writers"
  /\ UNCHANGED <<reader_sem, writer_sem, curr_readers, wait, pc, loops, freed>>

\* The flag is cleared before the writers are created.
ClearWait ==
  /\ main = "create_readers"
  /\ \A r \in Readers : pc[r] # "new"
  /\ wait' = FALSE
  /\ main' = "create_writers"
  /\ UNCHANGED <<reader_sem, writer_sem, curr_readers, pc, loops, freed>>

AllCreated ==
  /\ main = "create_writers"
  /\ \A w \in Writers : pc[w] # "new"
  /\ main' = "join"
  /\ UNCHANGED <<reader_sem, writer_sem, curr_readers, wait, pc, loops, freed>>

\* pthread_join of the readers; nobody joins the writers.  Then clean_memory.
JoinAndFree ==
  /\ main = "join"
  /\ \A r \in Readers : pc[r] = "done"
  /\ main' = "return"
  /\ freed' = TRUE
  /\ UNCHANGED <<reader_sem, writer_sem, curr_readers, wait, pc, loops>>

Exit ==
  /\ main = "return"
  /\ main' = "exited"
  /\ UNCHANGED <<reader_sem, writer_sem, curr_readers, wait, pc, loops, freed>>

MainNext == ClearWait \/ AllCreated \/ JoinAndFree \/ Exit \/ \E t \in Threads : Create(t)

Exited == main = "exited" /\ UNCHANGED vars

Next ==
  \/ MainNext
  \/ \E r \in Readers : ReaderNext(r)
  \/ \E w \in Writers : WriterNext(w)
  \/ Exited

Spec == Init /\ [][Next]_vars

\* Every thread is scheduled, and none that can pass a semaphore again and
\* again is passed over for ever.
Fairness ==
  /\ WF_vars(MainNext)
  /\ \A r \in Readers : SF_vars(ReaderNext(r))
  /\ \A w \in Writers : SF_vars(WriterNext(w))

(***************************************************************************)
(* Properties                                                              *)
(***************************************************************************)
Reading(r) == pc[r] \in {"open", "access", "leave", "uncount"}
Writing(w) == pc[w] \in {"access", "release"}

TypeOK ==
  /\ reader_sem \in Nat /\ writer_sem \in Nat /\ curr_readers \in Nat
  /\ wait \in BOOLEAN /\ freed \in BOOLEAN
  /\ pc \in [Threads -> ReaderCalls]
  /\ \A w \in Writers : pc[w] \in WriterCalls
  /\ loops \in [Threads -> Nat]
  /\ main \in {"create_readers", "create_writers", "join", "return", "exited"}

\* writer_sem is out exactly once: to one writer, or to the readers as a group,
\* from the first one's sem_wait to the last one's sem_post.
OneOwner ==
  LET readersOwn == \E r \in Readers : Reading(r) \/ pc[r] = "release"
      writersOwn == Cardinality({w \in Writers : Writing(w)})
  IN  writer_sem + writersOwn + (IF readersOwn THEN 1 ELSE 0) = 1

\* Readers share the array, a writer has it alone.
Lock == INSTANCE ReadersWriters WITH
          reading <- {r \in Readers : Reading(r)},
          writing <- {w \in Writers : Writing(w)}

ImplementsReadersWriters == Lock!Spec

\* A reader who finds others reading does not wait for a writer (tresc.txt:7):
\* while somebody reads, the section that reader_sem guards never blocks.
ReadersDoNotWait ==
  (\E r \in Readers : pc[r] \in {"access", "leave"}) => \A r \in Readers : pc[r] # "claim"

\* Main gets to the end of its joins: no reader waits for ever.
ReadersFinish == <>(main = "exited")
==============================================================================
