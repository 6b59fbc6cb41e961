---------------------------- MODULE RecordSort ----------------------------
(* Sorting and shuffling the records of a file (cw02/zad1), with system calls
   or with the library. A record is its first byte, all that is compared, and
   a tag that tells records apart. Positions count records from 0, as in C. *)
EXTENDS Naturals, Sequences

CONSTANTS Bytes,       \* values of a first byte
          MaxRecords   \* the largest file, and the largest number asked for

(* What the constants have to be. *)
SortAssumption == Bytes \subseteq Nat /\ MaxRecords \in Nat

VARIABLES file,               \* the records
          generated,          \* the file as it was generated
          version,            \* "SYS" or "LIB"
          number_of_records,  \* the argument, whatever the file has
          pos,                \* the file position
          prev,               \* sort: the record before the one read next
          last,               \* index_of_last_unsorted_element
          i,                  \* the loop's index
          pc

fileVars == <<file, generated, version, number_of_records>>
sortVars == <<pos, prev, last, i>>
vars == <<fileVars, sortVars, pc>>

Garbage == <<0, 0>>   \* an unset buffer; its tag is no record's
Records == Bytes \X (1 .. MaxRecords)

TypeOK ==
    /\ file \in Seq(Records \cup {Garbage}) /\ generated \in Seq(Records)
    /\ version \in {"SYS", "LIB"} /\ number_of_records \in 0 .. MaxRecords
    /\ pos \in Nat /\ last \in Nat /\ i \in Nat
    /\ prev \in Records \cup {Garbage}
    /\ pc \in {"generate", "main", "pass", "first", "compare", "shuffle", "done", "exit"}

Init ==
    /\ file = <<>> /\ generated = <<>> /\ version = "SYS" /\ number_of_records = 0
    /\ pos = 0 /\ prev = Garbage /\ last = 0 /\ i = 0
    /\ pc = "generate"

At(f, p) == f[p + 1]

(* SYS opens the file without truncating it: a longer old file keeps its end,
   which makes one more random file. *)
generate ==
    /\ pc = "generate"
    /\ \E n \in 0 .. MaxRecords : \E bytes \in [1 .. n -> Bytes] :
          generated' = [r \in 1 .. n |-> <<bytes[r], r>>]
    /\ file' = generated'
    /\ pc' = "main"
    /\ UNCHANGED <<version, number_of_records, sortVars>>

main ==
    /\ pc = "main"
    /\ version' \in {"SYS", "LIB"}
    /\ number_of_records' \in 0 .. MaxRecords
    /\ IF number_of_records' <= 1
          THEN pc' = "done" /\ UNCHANGED <<last, i>>
          ELSE /\ pc' \in {"pass", "shuffle"}
               /\ last' = number_of_records' - 1
               /\ i' = number_of_records' - 1
    /\ UNCHANGED <<file, generated, pos, prev>>

(* next_record. At the end of the file SYS goes back to the beginning, for
   ever if the file is empty, and LIB exits. *)
AtEnd == pos >= Len(file)
CanRead == ~AtEnd \/ (version = "SYS" /\ file # <<>>)
next_record == At(file, IF AtEnd THEN 0 ELSE pos)
Advance == pos' = IF AtEnd THEN 1 ELSE pos + 1
ExitAtEnd ==
    /\ pc = "first" \/ (pc = "compare" /\ i <= last)
    /\ AtEnd /\ version = "LIB"
    /\ pc' = "exit"
    /\ UNCHANGED <<fileVars, sortVars>>

(* swap_records leaves the position where it was. Past the end SYS reads
   nothing into its buffers, writes them all the same, and the file grows; LIB
   exits. *)
Written(f, p, record) ==
    [q \in 1 .. (IF p < Len(f) THEN Len(f) ELSE p + 1) |->
        IF q = p + 1 THEN record ELSE IF q <= Len(f) THEN f[q] ELSE Garbage]
ReadAt(f, p) == IF p < Len(f) THEN At(f, p) ELSE Garbage

Swapped(first, second) ==
    Written(Written(file, first, ReadAt(file, second)), second, ReadAt(file, first))
-----------------------------------------------------------------------------
StartPass ==
    /\ pc = "pass"
    /\ IF last >= 1 THEN pc' = "first" ELSE pc' = "done"
    /\ pos' = 0
    /\ i' = 1
    /\ UNCHANGED <<fileVars, prev, last>>

First ==
    /\ pc = "first" /\ CanRead
    /\ prev' = next_record /\ Advance
    /\ pc' = "compare"
    /\ UNCHANGED <<fileVars, last, i>>

(* Mutant: the record carried along is the smaller one. *)
CompareKeepingSmaller ==
    /\ pc = "compare" /\ i <= last /\ CanRead
    /\ prev' = next_record /\ Advance
    /\ file' = IF next_record[1] < prev[1] THEN Swapped(i - 1, i) ELSE file
    /\ i' = i + 1
    /\ UNCHANGED <<generated, version, number_of_records, last, pc>>

(* A smaller record changes places with prev, which stays the larger one. *)
Compare ==
    /\ pc = "compare" /\ i <= last /\ CanRead
    /\ Advance
    /\ IF next_record[1] < prev[1]
          THEN file' = Swapped(i - 1, i) /\ UNCHANGED prev
          ELSE prev' = next_record /\ UNCHANGED file
    /\ i' = i + 1
    /\ UNCHANGED <<generated, version, number_of_records, last, pc>>

EndPass ==
    /\ pc = "compare" /\ i > last
    /\ last' = last - 1
    /\ pc' = "pass"
    /\ UNCHANGED <<fileVars, pos, prev, i>>

(* j = i % (i + 1) is i: each record changes places with itself. *)
Shuffle ==
    /\ pc = "shuffle"
    /\ LET j == i % (i + 1)
       IN  IF i < 1 THEN pc' = "done" /\ UNCHANGED <<file, i>>
           ELSE IF version = "LIB" /\ i >= Len(file) THEN pc' = "exit" /\ UNCHANGED <<file, i>>
           ELSE file' = Swapped(i, j) /\ i' = i - 1 /\ pc' = pc
    /\ pos' = 0
    /\ UNCHANGED <<generated, version, number_of_records, prev, last>>

Next == generate \/ main \/ StartPass \/ First \/ Compare \/ ExitAtEnd \/ EndPass \/ Shuffle
Spec == Init /\ [][Next]_vars
-----------------------------------------------------------------------------
Tags(f) == {f[r][2] : r \in DOMAIN f}

(* As long as the file has the records asked for, no swap loses or doubles a
   record, and LIB never harms a shorter file (files.c:125-258). Each pass
   leaves its largest record behind all smaller ones, so the records asked for
   end up in order, and the ones after them are not touched. *)
SortsInPlace ==
    /\ number_of_records <= Len(generated) \/ version = "LIB" =>
          /\ Len(file) = Len(generated)
          /\ \A r \in DOMAIN file : \E q \in DOMAIN generated : file[r] = generated[q]
          /\ Tags(file) = Tags(generated)
    /\ number_of_records <= Len(generated) =>
          /\ pc \in {"pass", "first", "compare"} =>
                \A r \in 0 .. number_of_records - 1, q \in last + 1 .. number_of_records - 1 :
                    r < q => At(file, r)[1] <= At(file, q)[1]
          /\ \A r \in number_of_records .. Len(file) - 1 : At(file, r) = At(generated, r)
=============================================================================
