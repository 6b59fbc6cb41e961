------------------------------- MODULE MyQueue -------------------------------
(***************************************************************************)
(* The waiting room of the barber shop: the ring buffer of pids that       *)
(* cw07/zad1 and cw07/zad2 keep in shared memory (my_queue.h, my_queue.c,  *)
(* the same text in both but for names).                                   *)
(*                                                                         *)
(* A queue is a record with the fields of struct My_queue.  head = -1      *)
(* means empty; a queue that is not empty is full when head = tail.  The   *)
(* operators are pure: a caller that assigns m_queue' uses Push and Pop,   *)
(* and reads the C function's return value with Popped and IsFull.         *)
(***************************************************************************)
EXTENDS Integers, Sequences

CONSTANTS
  Clients,  \* the pids of the client processes
  NoPid,    \* a pid_t that is no client's: 0 in a fresh chair or slot, -1 from pop
  MaxChairs \* queue_length, the argument of the barber (5..1000 in the code)

ASSUME NoPidAssumption == NoPid \notin Clients
ASSUME MaxChairsAssumption == MaxChairs \in Nat \ {0}

Slots == 0 .. MaxChairs - 1

Pids == Clients \cup {NoPid}

Queues == [max : {MaxChairs}, head : {-1} \cup Slots, tail : Slots,
           chair : Pids, tab : [Slots -> Pids]]

InitQueue == [max |-> MaxChairs, head |-> -1, tail |-> 0, chair |-> NoPid,
              tab |-> [i \in Slots |-> NoPid]]

IsEmpty(q) == q.head = -1

IsFull(q) == q.head = q.tail

\* The slot after i, going round at max.
NextSlot(q, i) == IF i + 1 = q.max THEN 0 ELSE i + 1

\* What my_queue_pop returns, and the queue it leaves: the popped pid is also
\* written to chair, and a queue whose last pid is popped gets head = -1.
Popped(q) == IF IsEmpty(q) THEN NoPid ELSE q.tab[q.head]

Pop(q) ==
  IF IsEmpty(q)
  THEN q
  ELSE LET head == NextSlot(q, q.head)
       IN  [q EXCEPT !.chair = q.tab[q.head],
                     !.head  = IF head = q.tail THEN -1 ELSE head]

\* Mutant of Push: an empty queue restarts at slot 0 instead of at tail.
PushRestartsAtZero(q, x) ==
  IF IsFull(q)
  THEN q
  ELSE [q EXCEPT !.head = IF IsEmpty(q) THEN 0 ELSE @,
                 !.tab[q.tail] = x,
                 !.tail = NextSlot(q, q.tail)]

\* my_queue_push returns -1, changing nothing, exactly when IsFull(q).
Push(q, x) ==
  IF IsFull(q)
  THEN q
  ELSE [q EXCEPT !.head = IF IsEmpty(q) THEN q.tail ELSE @,
                 !.tab[q.tail] = x,
                 !.tail = NextSlot(q, q.tail)]

(***************************************************************************)
(* What a queue stands for: the pids waiting, first to be served first.    *)
(***************************************************************************)
Length(q) ==
  IF q.head = -1 THEN 0
  ELSE IF q.head < q.tail THEN q.tail - q.head
  ELSE q.max - q.head + q.tail

\* The slot of the i-th waiting pid.
SlotOf(q, i) ==
  IF q.head + i - 1 < q.max THEN q.head + i - 1 ELSE q.head + i - 1 - q.max

Contents(q) == [i \in 1 .. Length(q) |-> q.tab[SlotOf(q, i)]]
==============================================================================
