----------------------------- MODULE RecordSearch -----------------------------
(***************************************************************************)
(* The three programs of cw08/zad1 (v1, v2, v3): threads that take turns   *)
(* to read number_of_records records each from one open file, under a      *)
(* mutex, into buffers of their own, and look for a word in them.          *)
(*                                                                         *)
(*   v1  the thread that finds the word cancels all the others, which can  *)
(*       be cancelled anywhere (PTHREAD_CANCEL_ASYNCHRONOUS), and ends;    *)
(*   v2  the same, but cancellation is deferred to cancellation points;    *)
(*   v3  threads report all they find; the one that reaches the end of the *)
(*       file cancels the others, asynchronously, and ends.                *)
(*                                                                         *)
(* A record is its number in the file; the records that contain the word   *)
(* are a set.  Every record has the fixed size the read asks for, so one   *)
(* read fills one slot or, at the end of the file, leaves it as it was.    *)
(***************************************************************************)
EXTENDS Integers, FiniteSets, FiniteSetsExt

CONSTANTS
  Versions,          \* which of the programs: a subset of {1, 2, 3}
  threads_number,
  number_of_records, \* records a thread reads in one turn
  FileRecords,       \* records in the file
  NoThread

Thread == 1 .. threads_number
Batch == 1 .. number_of_records

ASSUME SizesAssumption ==
  /\ threads_number \in Nat \ {0}
  /\ number_of_records \in Nat \ {0}
  /\ FileRecords \in Nat
  /\ NoThread \notin Thread
  /\ Versions \subseteq {1, 2, 3}

VARIABLES
  version,            \* the program that runs; never changes
  matches,            \* the records that contain search_word; never changes
  offset,             \* the file's offset, in records
  mutex,              \* the thread that holds the mutex, or NoThread
  records_buffer,     \* each thread's slots: a record's number, or 0
  characters_read_no, \* each thread: whether its last read got a record
  pc,                 \* what each thread does next
  index,              \* each thread: the slot or the thread its loop is at
  cancelled,          \* the threads with a cancellation request pending
  found,              \* how often each record has been reported
  thread_read,        \* the start flag
  main, next          \* the main thread, and the thread its loop is at

vars == <<version, matches, offset, mutex, records_buffer, characters_read_no, pc, index,
          cancelled, found, thread_read, main, next>>
input == <<version, matches>>
fileVars == <<offset, records_buffer, characters_read_no>>
mainVars == <<thread_read, main, next>>

Init ==
  /\ version \in Versions
  /\ matches \in SUBSET (1 .. FileRecords)
  /\ offset = 0
  /\ mutex = NoThread
  /\ records_buffer = [t \in Thread |-> [i \in Batch |-> 0]]
  /\ characters_read_no = [t \in Thread |-> FALSE]
  /\ pc = [t \in Thread |-> "new"]
  /\ index = [t \in Thread |-> 1]
  /\ cancelled = {}
  /\ found = [r \in 1 .. FileRecords |-> 0]
  /\ thread_read = 1
  /\ main = "create"
  /\ next = 1

Running == main # "exited"

Step(t, from, to) == Running /\ pc[t] = from /\ pc' = [pc EXCEPT ![t] = to]

Ended(t) == pc[t] \in {"done", "dead"}

(***************************************************************************)
(* main                                                                    *)
(***************************************************************************)
Create ==
  /\ main = "create" /\ next \in Thread
  /\ Step(next, "new", "start")
  /\ next' = next + 1
  /\ UNCHANGED <<input, fileVars, mutex, index, cancelled, found, thread_read, main>>

LetThemRead ==
  /\ main = "create" /\ next > threads_number
  /\ thread_read' = 0
  /\ main' = "join"
  /\ next' = 1
  /\ UNCHANGED <<input, fileVars, mutex, pc, index, cancelled, found>>

Join ==
  /\ main = "join" /\ next \in Thread
  /\ Ended(next)
  /\ next' = next + 1
  /\ UNCHANGED <<input, fileVars, mutex, pc, index, cancelled, found, thread_read, main>>

Exit ==
  /\ main = "join" /\ next > threads_number
  /\ main' = "exited"
  /\ UNCHANGED <<input, fileVars, mutex, pc, index, cancelled, found, thread_read, next>>

MainNext == Create \/ LetThemRead \/ Join \/ Exit

Exited == main = "exited" /\ UNCHANGED vars

(***************************************************************************)
(* start_routine up to the search                                          *)
(***************************************************************************)
\* pthread_setcanceltype and the callocs, then while(thread_read).
Start(t) ==
  /\ Step(t, "start", "spin")
  /\ UNCHANGED <<input, fileVars, mutex, index, cancelled, found, mainVars>>

Spin(t) ==
  /\ Step(t, "spin", "lock")
  /\ thread_read = 0
  /\ UNCHANGED <<input, fileVars, mutex, index, cancelled, found, mainVars>>

\* Mutant of Lock: the turns are not exclusive.
LockNothing(t) ==
  /\ Step(t, "lock", "read")
  /\ index' = [index EXCEPT ![t] = 1]
  /\ UNCHANGED <<input, fileVars, mutex, cancelled, found, mainVars>>

Lock(t) ==
  /\ Step(t, "lock", "read")
  /\ mutex = NoThread
  /\ mutex' = t
  /\ index' = [index EXCEPT ![t] = 1]
  /\ UNCHANGED <<input, fileVars, cancelled, found, mainVars>>

\* One read(); after the last slot of the batch the thread is to unlock.
Read(t) ==
  /\ Step(t, "read", IF index[t] = number_of_records THEN "unlock" ELSE "read")
  /\ LET got == offset < FileRecords
     IN  /\ characters_read_no' = [characters_read_no EXCEPT ![t] = got]
         /\ offset' = IF got THEN offset + 1 ELSE offset
         /\ records_buffer' =
              IF got THEN [records_buffer EXCEPT ![t][index[t]] = offset + 1]
              ELSE records_buffer
  /\ index' = [index EXCEPT ![t] = @ + 1]
  /\ UNCHANGED <<input, mutex, cancelled, found, mainVars>>

Unlock(t, from, to) ==
  /\ Step(t, from, to)
  /\ mutex' = NoThread
  /\ index' = [index EXCEPT ![t] = 1]
  /\ UNCHANGED <<input, fileVars, cancelled, found, mainVars>>

TakeTurn(t) == Start(t) \/ Spin(t) \/ Lock(t) \/ Read(t)

(***************************************************************************)
(* The search, and the end of a thread                                     *)
(***************************************************************************)
\* strstr over the batch: the slots whose record contains the word, whatever
\* turn they were read in.
Hits(t) == {i \in Batch : records_buffer[t][i] \in matches}

\* The first slot with the word is reported and ends the search; without one
\* the thread goes round, at the end of the file too.
SearchFirst(t) ==
  /\ Step(t, "search", IF Hits(t) = {} THEN "lock" ELSE "cancel")
  /\ found' = IF Hits(t) = {} THEN found
              ELSE [found EXCEPT ![records_buffer[t][Min(Hits(t))]] = @ + 1]
  /\ UNCHANGED <<input, fileVars, mutex, index, cancelled, mainVars>>

\* Every slot with the word is reported, in turn: index is the slot.
SearchAll(t) ==
  /\ Step(t, "search", IF index[t] = number_of_records THEN "lock" ELSE "search")
  /\ found' = IF index[t] \in Hits(t)
              THEN [found EXCEPT ![records_buffer[t][index[t]]] = @ + 1] ELSE found
  /\ index' = [index EXCEPT ![t] = @ + 1]
  /\ UNCHANGED <<input, fileVars, mutex, cancelled, mainVars>>

\* One turn of the loop that cancels every other thread.
CancelOthers(t, after) ==
  /\ Step(t, "cancel", IF index[t] = threads_number THEN after ELSE "cancel")
  /\ cancelled' = cancelled \cup ({index[t]} \ {t})
  /\ index' = [index EXCEPT ![t] = @ + 1]
  /\ UNCHANGED <<input, fileVars, mutex, found, mainVars>>

\* A thread acts on a cancellation request; a mutex it holds stays locked.
Die(t) ==
  /\ Running
  /\ t \in cancelled
  /\ pc' = [pc EXCEPT ![t] = "dead"]
  /\ UNCHANGED <<input, fileVars, mutex, index, cancelled, found, mainVars>>

\* Asynchronous cancellation: anywhere, once the type has been set.
DieAnywhere(t) == pc[t] \notin {"new", "start"} /\ ~Ended(t) /\ Die(t)

(***************************************************************************)
(* v1                                                                      *)
(***************************************************************************)
RoutineV1(t) ==
  \/ TakeTurn(t) \/ Unlock(t, "unlock", "search")
  \/ SearchFirst(t) \/ CancelOthers(t, "done")

(***************************************************************************)
(* v2.  A pending request is acted on at every cancellation point the      *)
(* thread passes: usleep and pthread_testcancel, as meant, but also        *)
(* read(), inside the critical section, and the write under printf.        *)
(***************************************************************************)
AtPoint(t) ==
  \/ pc[t] \in {"read", "pause"}
  \/ pc[t] = "search" /\ Hits(t) # {}

Pause(t) ==
  /\ Step(t, "pause", "search")
  /\ UNCHANGED <<input, fileVars, mutex, index, cancelled, found, mainVars>>

\* printf may write nothing yet, and then is no cancellation point.
Survives(t) == t \in cancelled => pc[t] \notin {"read", "pause"}

DieAtPoint(t) == AtPoint(t) /\ Die(t)

RoutineV2(t) ==
  \/ /\ Survives(t)
     /\ \/ TakeTurn(t) \/ Unlock(t, "unlock", "pause") \/ Pause(t)
        \/ SearchFirst(t) \/ CancelOthers(t, "done")
  \/ DieAtPoint(t)

(***************************************************************************)
(* v3                                                                      *)
(***************************************************************************)
\* Mutant of AfterReading: no check for the end of the file, as in v1.
SearchAlways(t) == Unlock(t, "unlock", "search")

\* Mutant of AfterReading: a batch the file cut short is searched with what
\* the slots held before.
SearchShortBatch(t) ==
  IF characters_read_no[t] \/ records_buffer[t][1] = offset
  THEN Unlock(t, "unlock", "search")
  ELSE /\ Step(t, "unlock", "cancel")
       /\ index' = [index EXCEPT ![t] = 1]
       /\ UNCHANGED <<input, fileVars, mutex, cancelled, found, mainVars>>

\* A full batch is searched after the unlock.  If the last read of the batch
\* got nothing, the batch is dropped and the others are cancelled, all before
\* the unlock.
AfterReading(t) ==
  IF characters_read_no[t] THEN Unlock(t, "unlock", "search")
  ELSE /\ Step(t, "unlock", "cancel")
       /\ index' = [index EXCEPT ![t] = 1]
       /\ UNCHANGED <<input, fileVars, mutex, cancelled, found, mainVars>>

RoutineV3(t) ==
  \/ TakeTurn(t) \/ AfterReading(t) \/ SearchAll(t)
  \/ CancelOthers(t, "unlock_end") \/ Unlock(t, "unlock_end", "done")

(***************************************************************************)
(* The specification                                                       *)
(***************************************************************************)
Routine(t) ==
  \/ version = 1 /\ RoutineV1(t)
  \/ version = 2 /\ RoutineV2(t)
  \/ version = 3 /\ RoutineV3(t)

Cancelled(t) == version \in {1, 3} /\ DieAnywhere(t)

Next ==
  \/ MainNext
  \/ \E t \in Thread : Routine(t) \/ Cancelled(t)
  \/ Exited

Spec == Init /\ [][Next]_vars

\* Threads are scheduled, nobody is passed over at the mutex for ever, and a
\* cancellation request that can be acted on is.
Fairness ==
  /\ WF_vars(MainNext)
  /\ \A t \in Thread : SF_vars(Routine(t)) /\ WF_vars(Cancelled(t))

FairSpec == Spec /\ Fairness

(***************************************************************************)
(* Properties                                                              *)
(***************************************************************************)
Calls == {"new", "start", "spin", "lock", "read", "unlock", "pause", "search",
          "cancel", "unlock_end", "done", "dead"}

TypeOK ==
  /\ version \in {1, 2, 3}
  /\ matches \subseteq 1 .. FileRecords
  /\ offset \in 0 .. FileRecords
  /\ mutex \in Thread \cup {NoThread}
  /\ records_buffer \in [Thread -> [Batch -> 0 .. FileRecords]]
  /\ characters_read_no \in [Thread -> BOOLEAN]
  /\ pc \in [Thread -> Calls]
  /\ index \in [Thread -> Nat]
  /\ cancelled \subseteq Thread
  /\ found \in [1 .. FileRecords -> Nat]
  /\ thread_read \in {0, 1}
  /\ main \in {"create", "join", "exited"} /\ next \in Nat

\* A turn reads neighbouring records: between its reads no other thread moves
\* the offset they share.  Only a batch the end of the file cuts short may mix
\* new records with those of an earlier turn.
BatchesAreWhole ==
  \A t \in Thread :
    pc[t] \in {"unlock", "pause", "search"} /\ characters_read_no[t] =>
      \A i \in Batch \ {number_of_records} :
        records_buffer[t][i + 1] = records_buffer[t][i] + 1

\* The program ends: in v1 and v2 when the word has been found, in v3 whatever
\* the file holds.  With two threads that find the word at the same time each
\* cancels the other, and both go.
Ends ==
  (version = 3 \/ \E r \in matches : found[r] > 0) ~> (main = "exited")

\* v3: no record is reported twice, by one thread or by two, although buffers
\* keep the records of earlier turns.
ReportedOnce == version = 3 => \A r \in 1 .. FileRecords : found[r] <= 1

\* tresc.txt:6, the second version: "punktem anulowania watku jest zakonczenie
\* przetwarzania wczytanej ilosci rekordow" (a thread is cancelled when it has
\* finished with the records it read): never in the middle of reading them.
NotCancelledWhileReading ==
  version = 2 => \A t \in Thread : pc[t] = "dead" => mutex # t
==============================================================================
