-------------------------- MODULE MCReadersWriters --------------------------
(***************************************************************************)
(* The two versions of readers and writers side by side: the monitor       *)
(* (cw09/zad1/v1), whose names have no prefix here, and the semaphores     *)
(* (cw09/zad1/v2), Sem, for the same threads.  The two share the names of  *)
(* what every thread and the main thread do.  SemaphoresSpec runs the      *)
(* second; the first's own variables keep one value in it.                 *)
(***************************************************************************)
EXTENDS ReadersWritersMonitor

VARIABLES reader_sem, writer_sem, curr_readers, wait

Sem == INSTANCE ReadersWritersSem

ASSUME SemaphoresAssumption == Sem!ThreadsAssumption /\ Sem!LoopsAssumption

monitorVars == <<mutex, blocked, counters>>

SemaphoresInit ==
  /\ Sem!Init
  /\ mutex = NoThread /\ blocked = {}
  /\ checker = 0 /\ writing = 0 /\ actual_readers = 0

SemaphoresNext == Sem!Next /\ UNCHANGED monitorVars

SemaphoresSpec ==
  /\ SemaphoresInit /\ [][SemaphoresNext]_<<Sem!vars, monitorVars>>
  /\ Sem!Fairness
-----------------------------------------------------------------------------
\* writer_sem is out exactly once: to one writer, or to the readers as a group,
\* from the first one's sem_wait to the last one's sem_post (v2/main.c:134-183).
OneOwner == Sem!OneOwner

\* A reader who finds others reading does not wait for a writer (tresc.txt:7).
ReadersDoNotWait == Sem!ReadersDoNotWait

\* The semaphores let readers share the array and a writer have it alone.
SemaphoresImplementReadersWriters == Sem!ImplementsReadersWriters

\* Main gets to the end of its joins: no reader waits for ever on a semaphore.
SemaphoresReadersFinish == Sem!ReadersFinish
=============================================================================
