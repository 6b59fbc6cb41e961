----------------------------- MODULE MyQueueLemmas ----------------------------
(***************************************************************************)
(* What my_queue_push and my_queue_pop do to the contents of the ring      *)
(* buffer, for every capacity and every set of clients, and what that      *)
(* means for the place of one client in the room.                          *)
(***************************************************************************)
EXTENDS MyQueue, SequenceTheorems, TLAPS

\* The types of a queue's fields, as the arithmetic below needs them.
LEMMA FieldTypes ==
  ASSUME NEW q \in Queues
  PROVE  /\ q.max = MaxChairs
         /\ q.head \in -1 .. MaxChairs - 1
         /\ q.tail \in 0 .. MaxChairs - 1
         /\ q.tab \in [Slots -> Pids]
         /\ MaxChairs \in Nat \ {0}
BY MaxChairsAssumption DEF Queues, Slots

\* The number of waiting pids never exceeds the number of chairs, and the two
\* tests my_queue.c makes on head and tail tell the two extremes.
LEMMA LengthBounds ==
  ASSUME NEW q \in Queues
  PROVE  /\ Length(q) \in 0 .. MaxChairs
         /\ IsFull(q) <=> Length(q) = MaxChairs
         /\ IsEmpty(q) <=> Length(q) = 0
BY MaxChairsAssumption DEF Queues, Slots, Length, IsFull, IsEmpty

\* The slots of waiting pids are slots of tab.
LEMMA SlotOfInSlots ==
  ASSUME NEW q \in Queues, ~IsEmpty(q), NEW i \in 1 .. Length(q)
  PROVE  SlotOf(q, i) \in Slots
BY MaxChairsAssumption DEF Queues, Slots, Length, IsEmpty, SlotOf

\* The contents are a sequence of pids.
LEMMA ContentsType ==
  ASSUME NEW q \in Queues
  PROVE  /\ Contents(q) \in Seq(Pids)
         /\ Len(Contents(q)) = Length(q)
         /\ DOMAIN Contents(q) = 1 .. Length(q)
<1>1. Length(q) \in Nat
  BY LengthBounds, MaxChairsAssumption
<1>2. ASSUME NEW i \in 1 .. Length(q) PROVE q.tab[SlotOf(q, i)] \in Pids
  <2>1. ~IsEmpty(q)
    BY <1>2, LengthBounds
  <2>2. SlotOf(q, i) \in Slots
    BY <2>1, SlotOfInSlots
  <2> QED
    BY <2>2 DEF Queues
<1>3. Contents(q) \in [1 .. Length(q) -> Pids]
  BY <1>2 DEF Contents
<1> QED
  BY <1>1, <1>3

\* The record push leaves, and the one pop leaves, field by field.
LEMMA PushFields ==
  ASSUME NEW q \in Queues, NEW x \in Clients, ~IsFull(q)
  PROVE  Push(q, x) = [max  |-> q.max,
                       head |-> IF IsEmpty(q) THEN q.tail ELSE q.head,
                       tail |-> NextSlot(q, q.tail),
                       chair |-> q.chair,
                       tab  |-> [q.tab EXCEPT ![q.tail] = x]]
BY DEF Push, Queues

\* The fields of a popped queue; chair keeps the pid that was taken.
LEMMA PopFields ==
  ASSUME NEW q \in Queues, ~IsEmpty(q), NEW h, h = NextSlot(q, q.head)
  PROVE  Pop(q) = [max  |-> q.max,
                   head |-> IF h = q.tail THEN -1 ELSE h,
                   tail |-> q.tail,
                   chair |-> q.tab[q.head],
                   tab  |-> q.tab]
BY DEF Pop, Queues

\* Going round at max stays inside the buffer.
LEMMA NextSlotType ==
  ASSUME NEW q \in Queues, NEW i \in Slots
  PROVE  NextSlot(q, i) \in Slots
BY MaxChairsAssumption DEF Queues, Slots, NextSlot

\* push and pop keep head and tail inside the buffer.
LEMMA PushType ==
  ASSUME NEW q \in Queues, NEW x \in Clients
  PROVE  Push(q, x) \in Queues
<1>1. CASE IsFull(q)
  BY <1>1 DEF Push
<1>2. CASE ~IsFull(q)
  <2>1. NextSlot(q, q.tail) \in Slots
    BY NextSlotType DEF Queues
  <2>2. [q.tab EXCEPT ![q.tail] = x] \in [Slots -> Pids]
    BY DEF Queues, Pids
  <2> QED
    BY <1>2, <2>1, <2>2, PushFields DEF Queues
<1> QED
  BY <1>1, <1>2

\* So do the calls on an empty queue, and what pop returns is a pid.
LEMMA PopType ==
  ASSUME NEW q \in Queues
  PROVE  Pop(q) \in Queues /\ Popped(q) \in Pids
<1>1. CASE IsEmpty(q)
  BY <1>1 DEF Pop, Popped, Pids
<1>2. CASE ~IsEmpty(q)
  <2>1. q.head \in Slots
    BY <1>2 DEF Queues, IsEmpty
  <2>2. NextSlot(q, q.head) \in Slots
    BY <2>1, NextSlotType
  <2>3. q.tab[q.head] \in Pids
    BY <2>1 DEF Queues
  <2>4. Pop(q) \in Queues
    BY <1>2, <2>2, <2>3, PopFields DEF Queues
  <2> QED
    BY <1>2, <2>3, <2>4 DEF Popped
<1> QED
  BY <1>1, <1>2

\* push appends: the pids already waiting keep their slots, wrapped or not.
LEMMA PushContents ==
  ASSUME NEW q \in Queues, NEW x \in Clients, ~IsFull(q)
  PROVE  /\ Length(Push(q, x)) = Length(q) + 1
         /\ Contents(Push(q, x)) = Append(Contents(q), x)
<1> DEFINE r == Push(q, x)
<1>1. /\ r.max = q.max
      /\ r.head = IF IsEmpty(q) THEN q.tail ELSE q.head
      /\ r.tab = [q.tab EXCEPT ![q.tail] = x]
      /\ r.tail = NextSlot(q, q.tail)
  BY PushFields
<1>2. Length(r) = Length(q) + 1
  <2> HIDE DEF r
  <2> QED
    BY <1>1, FieldTypes DEF Length, IsFull, IsEmpty, NextSlot
<1>3. ASSUME NEW i \in 1 .. Length(q)
      PROVE  r.tab[SlotOf(r, i)] = q.tab[SlotOf(q, i)]
  <2>1. Length(q) \in 0 .. MaxChairs /\ ~IsEmpty(q)
    BY <1>3, LengthBounds
  <2>2. r.head = q.head
    BY <1>1, <2>1
  <2>3. SlotOf(r, i) = SlotOf(q, i)
    BY <1>1, <2>2 DEF SlotOf
  <2>4. SlotOf(q, i) # q.tail
    BY <2>1, MaxChairsAssumption DEF SlotOf, Queues, Slots, IsFull, IsEmpty, Length
  <2>5. SlotOf(q, i) \in Slots
    BY <2>1, SlotOfInSlots
  <2> QED
    BY <1>1, <2>3, <2>4, <2>5 DEF Queues
<1>4. r.tab[SlotOf(r, Length(q) + 1)] = x
  <2>1. SlotOf(r, Length(q) + 1) = q.tail
    BY <1>1, MaxChairsAssumption DEF SlotOf, Queues, Slots, IsFull, IsEmpty, Length
  <2> QED
    BY <1>1, <2>1 DEF Queues
<1>5. Contents(r) = Append(Contents(q), x)
  <2> DEFINE a == Append(Contents(q), x)
  <2>1. /\ Contents(q) \in Seq(Pids)
        /\ Len(Contents(q)) = Length(q)
        /\ Length(q) \in Nat
        /\ x \in Pids
    BY ContentsType, LengthBounds, MaxChairsAssumption DEF Pids
  <2>2. /\ Contents(r) \in Seq(Pids)
        /\ Len(Contents(r)) = Length(q) + 1
    BY PushType, ContentsType, <1>2
  <2>3. /\ a \in Seq(Pids)
        /\ Len(a) = Length(q) + 1
        /\ \A i \in 1 .. Length(q) : a[i] = Contents(q)[i]
        /\ a[Length(q) + 1] = x
    BY <2>1, AppendProperties
  <2>4. ASSUME NEW i \in 1 .. Length(q) + 1
        PROVE  Contents(r)[i] = a[i]
    <3>1. Contents(r)[i] = r.tab[SlotOf(r, i)]
      BY <1>2 DEF Contents
    <3>2. CASE i \in 1 .. Length(q)
      BY <3>1, <3>2, <1>3, <2>3 DEF Contents
    <3>3. CASE i = Length(q) + 1
      BY <3>1, <3>3, <1>4, <2>3
    <3> QED
      BY <3>2, <3>3, <2>1
  <2> HIDE DEF r, a
  <2>5. Contents(r) = a
    BY <2>2, <2>3, <2>4, SeqEqual
  <2> QED
    BY <2>5 DEF a
<1> QED
  BY <1>2, <1>5

\* pop takes the first pid and leaves the others in order.
LEMMA PopContents ==
  ASSUME NEW q \in Queues, ~IsEmpty(q)
  PROVE  /\ Contents(q) # << >>
         /\ Popped(q) = Head(Contents(q))
         /\ Contents(Pop(q)) = Tail(Contents(q))
<1> DEFINE r == Pop(q)
<1>1. /\ r.max = q.max
      /\ r.head = IF NextSlot(q, q.head) = q.tail THEN -1 ELSE NextSlot(q, q.head)
      /\ r.tab = q.tab
      /\ r.tail = q.tail
  BY PopFields
<1>2. Length(q) \in 1 .. MaxChairs
  BY LengthBounds, MaxChairsAssumption
<1>3. Length(r) = Length(q) - 1
  <2> HIDE DEF r
  <2> QED
    BY <1>1, FieldTypes DEF Length, IsEmpty, NextSlot
<1>4. ASSUME NEW i \in 1 .. Length(q) - 1
      PROVE  SlotOf(r, i) = SlotOf(q, i + 1)
  <2> HIDE DEF r
  <2>1. r.head = NextSlot(q, q.head)
    BY <1>1, <1>2, FieldTypes DEF Length, IsEmpty, NextSlot
  <2> QED
    BY <2>1, <1>1, <1>2, FieldTypes DEF SlotOf, IsEmpty, NextSlot
<1>5. /\ Contents(q) \in Seq(Pids)
      /\ Len(Contents(q)) = Length(q)
  BY ContentsType
<1>6. Contents(q) # << >>
  BY <1>2, <1>5
<1>7. Popped(q) = Head(Contents(q))
  <2>1. Contents(q)[1] = q.tab[SlotOf(q, 1)]
    BY <1>2, MaxChairsAssumption DEF Contents
  <2>2. SlotOf(q, 1) = q.head
    BY MaxChairsAssumption DEF SlotOf, Queues, Slots, IsEmpty
  <2>3. Head(Contents(q)) = Contents(q)[1]
    BY <1>5, <1>6
  <2> QED
    BY <2>1, <2>2, <2>3 DEF Popped
<1>8. Contents(r) = Tail(Contents(q))
  <2> DEFINE t == Tail(Contents(q))
  <2>1. /\ t \in Seq(Pids)
        /\ Len(t) = Length(q) - 1
        /\ \A i \in 1 .. Length(q) - 1 : t[i] = Contents(q)[i + 1]
    BY <1>5, <1>6, HeadTailProperties
  <2>2. /\ Contents(r) \in Seq(Pids)
        /\ Len(Contents(r)) = Length(q) - 1
    BY PopType, ContentsType, <1>3
  <2>3. ASSUME NEW i \in 1 .. Length(q) - 1
        PROVE  Contents(r)[i] = t[i]
    <3>1. Contents(r)[i] = r.tab[SlotOf(r, i)]
      BY <1>3 DEF Contents
    <3>2. i + 1 \in 1 .. Length(q)
      BY <1>2
    <3>3. Contents(q)[i + 1] = q.tab[SlotOf(q, i + 1)]
      BY <3>2 DEF Contents
    <3> QED
      BY <3>1, <3>3, <1>1, <1>4, <2>1
  <2> HIDE DEF r, t
  <2>4. Contents(r) = t
    BY <2>1, <2>2, <2>3, SeqEqual
  <2> QED
    BY <2>4 DEF t
<1> QED
  BY <1>6, <1>7, <1>8

\* push leaves the chair alone.
LEMMA PushKeepsChair ==
  ASSUME NEW q \in Queues, NEW x \in Clients
  PROVE  Push(q, x).chair = q.chair
BY DEF Push, Queues

\* If only clients wait, pop takes a client, and only clients wait afterwards.
LEMMA PopKeepsClients ==
  ASSUME NEW q \in Queues, \A i \in 1 .. Length(q) : Contents(q)[i] \in Clients
  PROVE  /\ \A i \in 1 .. Length(Pop(q)) : Contents(Pop(q))[i] \in Clients
         /\ ~IsEmpty(q) => Popped(q) \in Clients
<1>1. CASE IsEmpty(q)
  BY <1>1 DEF Pop
<1>2. CASE ~IsEmpty(q)
  <2> DEFINE s == Contents(q)
  <2>1. s \in Seq(Pids) /\ s # << >> /\ Len(s) = Length(q)
    BY <1>2, ContentsType, PopContents
  <2>2. Length(q) \in Nat \ {0}
    BY <2>1, EmptySeq
  <2>3. Popped(q) \in Clients
    <3>1. Popped(q) = s[1]
      BY <1>2, <2>1, PopContents
    <3> QED
      BY <3>1, <2>2
  <2>4. Pop(q) \in Queues /\ Contents(Pop(q)) = Tail(s)
    BY <1>2, PopType, PopContents
  <2>5. Length(Pop(q)) = Length(q) - 1
    BY <2>1, <2>4, ContentsType, HeadTailProperties
  <2>6. \A i \in 1 .. Length(Pop(q)) : Contents(Pop(q))[i] = s[i + 1]
    BY <2>1, <2>4, <2>5, HeadTailProperties
  <2>7. \A i \in 1 .. Length(Pop(q)) : i + 1 \in 1 .. Length(q)
    BY <2>2, <2>5
  <2>8. \A i \in 1 .. Length(q) : s[i] \in Clients
    OBVIOUS
  <2> HIDE DEF s
  <2> QED
    BY <2>3, <2>6, <2>7, <2>8
<1> QED
  BY <1>1, <1>2

\* If only clients wait, only clients wait after a client has been pushed.
LEMMA PushKeepsClients ==
  ASSUME NEW q \in Queues, NEW x \in Clients,
         \A i \in 1 .. Length(q) : Contents(q)[i] \in Clients
  PROVE  \A i \in 1 .. Length(Push(q, x)) : Contents(Push(q, x))[i] \in Clients
<1>1. CASE IsFull(q)
  BY <1>1 DEF Push
<1>2. CASE ~IsFull(q)
  <2> DEFINE s == Contents(q)
  <2>1. s \in Seq(Pids) /\ Len(s) = Length(q) /\ Length(q) \in Nat /\ x \in Pids
    BY ContentsType, LengthBounds, MaxChairsAssumption DEF Pids
  <2>2. /\ Length(Push(q, x)) = Length(q) + 1
        /\ Contents(Push(q, x)) = Append(s, x)
    BY <1>2, PushContents
  <2>3. /\ \A i \in 1 .. Length(q) : Append(s, x)[i] = s[i]
        /\ Append(s, x)[Length(q) + 1] = x
    BY <2>1, AppendProperties
  <2>4. \A i \in 1 .. Length(q) : s[i] \in Clients
    OBVIOUS
  <2> HIDE DEF s
  <2> QED
    BY <2>1, <2>2, <2>3, <2>4
<1> QED
  BY <1>1, <1>2

\* The empty queue is a queue.
LEMMA InitQueueType == InitQueue \in Queues
BY MaxChairsAssumption DEF InitQueue, Queues, Slots, Pids

\* The chair is a field like any other: writing a client's pid there leaves a
\* queue, with the same waiting room.
LEMMA SitType ==
  ASSUME NEW q \in Queues, NEW c \in Clients
  PROVE  /\ [q EXCEPT !.chair = c] \in Queues
         /\ [q EXCEPT !.chair = c].chair = c
         /\ [q EXCEPT !.chair = c].head = q.head
         /\ [q EXCEPT !.chair = c].tab = q.tab
         /\ Contents([q EXCEPT !.chair = c]) = Contents(q)
         /\ Length([q EXCEPT !.chair = c]) = Length(q)
<1> DEFINE r == [q EXCEPT !.chair = c]
<1>1. /\ r.max = q.max
      /\ r.head = q.head
      /\ r.tail = q.tail
      /\ r.tab = q.tab
      /\ r.chair = c
  BY DEF Queues
<1>2. r \in Queues
  BY DEF Queues, Pids
<1>3. Length(r) = Length(q)
  <2> HIDE DEF r
  <2> QED
    BY <1>1 DEF Length
<1>4. Contents(r) = Contents(q)
  <2> HIDE DEF r
  <2> QED
    BY <1>1, <1>3 DEF Contents, SlotOf
<1> QED
  BY <1>1, <1>2, <1>3, <1>4

\* Client c is in the sequence s, and at most once.
In(s, c) == \E i \in 1 .. Len(s) : s[i] = c

Once(s, c) == \A i, j \in 1 .. Len(s) : s[i] = c /\ s[j] = c => i = j

\* A place taken at the end of the room is one place more.
LEMMA AppendPlaces ==
  ASSUME NEW S, NEW s \in Seq(S), NEW x \in S, NEW c
  PROVE  /\ In(Append(s, x), c) <=> In(s, c) \/ x = c
         /\ Once(s, c) /\ ~(In(s, c) /\ x = c) => Once(Append(s, x), c)
<1>1. /\ Len(s) \in Nat /\ Len(Append(s, x)) = Len(s) + 1
      /\ \A i \in 1 .. Len(s) : Append(s, x)[i] = s[i]
      /\ Append(s, x)[Len(s) + 1] = x
  BY AppendProperties
<1>2. \A i \in 1 .. Len(s) + 1 : i \in 1 .. Len(s) \/ i = Len(s) + 1
  BY <1>1
<1>3. \A i \in 1 .. Len(s) : i \in 1 .. Len(s) + 1
  BY <1>1
<1>4. Len(s) + 1 \in 1 .. Len(s) + 1
  BY <1>1
<1>5. In(Append(s, x), c) <=> In(s, c) \/ x = c
  BY <1>1, <1>2, <1>3, <1>4 DEF In
<1>6. ASSUME Once(s, c), ~(In(s, c) /\ x = c) PROVE Once(Append(s, x), c)
  BY <1>1, <1>2, <1>6 DEF In, Once
<1> QED
  BY <1>5, <1>6

\* The first place given up is one place less.
LEMMA TailPlaces ==
  ASSUME NEW S, NEW s \in Seq(S), s # << >>, NEW c
  PROVE  /\ In(s, c) <=> In(Tail(s), c) \/ Head(s) = c
         /\ Once(s, c) => Once(Tail(s), c) /\ ~(In(Tail(s), c) /\ Head(s) = c)
<1>1. /\ Len(s) \in Nat \ {0} /\ Len(Tail(s)) = Len(s) - 1
      /\ \A i \in 1 .. Len(s) - 1 : Tail(s)[i] = s[i + 1]
      /\ Head(s) = s[1]
  BY HeadTailProperties, EmptySeq
<1>2. \A i \in 1 .. Len(s) : i = 1 \/ (i - 1 \in 1 .. Len(s) - 1 /\ (i - 1) + 1 = i)
  BY <1>1
<1>3. 1 \in 1 .. Len(s) /\ \A i \in 1 .. Len(s) - 1 : i + 1 \in 1 .. Len(s) /\ i + 1 # 1
  BY <1>1
<1>4. \A i, j \in 1 .. Len(s) - 1 : i + 1 = j + 1 => i = j
  BY <1>1
<1>5. In(s, c) => In(Tail(s), c) \/ Head(s) = c
  <2> SUFFICES ASSUME NEW i \in 1 .. Len(s), s[i] = c PROVE In(Tail(s), c) \/ Head(s) = c
    BY DEF In
  <2>1. CASE i = 1
    BY <1>1, <2>1
  <2>2. CASE i # 1
    <3>1. i - 1 \in 1 .. Len(s) - 1 /\ Tail(s)[i - 1] = s[i]
      BY <1>1, <1>2, <2>2
    <3> QED
      BY <1>1, <3>1 DEF In
  <2> QED
    BY <2>1, <2>2
<1>6. In(Tail(s), c) \/ Head(s) = c => In(s, c)
  BY <1>1, <1>3 DEF In
<1>7. ASSUME Once(s, c) PROVE Once(Tail(s), c) /\ ~(In(Tail(s), c) /\ Head(s) = c)
  BY <1>1, <1>3, <1>4, <1>7 DEF In, Once
<1> QED
  BY <1>5, <1>6, <1>7
==============================================================================
