---------------------------- MODULE LibraryParts ----------------------------
(* Three parts without a schedule of their own and without recursion, side by
   side: the ring buffer of the barber shop (MyQueueCalls) and the file locks
   (FileLocks), whose names have no prefix, and the sorting of records, Sort,
   whose prev is record here, whose i is loop and whose pc is sortPc. *)
EXTENDS MyQueueCalls, FileLocks

CONSTANTS Bytes, MaxRecords

VARIABLES file, generated, version, number_of_records, pos, record, last, loop, sortPc

Sort == INSTANCE RecordSort WITH prev <- record, pc <- sortPc, i <- loop

ASSUME RecordsAssumption == Sort!SortAssumption

sortVars == <<file, generated, version, number_of_records, pos, record, last, loop, sortPc>>

(* The bubble sort orders the records asked for and keeps every record, with
   system calls and with the library (cw02/zad1/bubbleSort.c:5). *)
SortsInPlace == Sort!SortsInPlace
=============================================================================
