------------------------ MODULE BarberShopSysVProofs ------------------------
(***************************************************************************)
(* Safety of the System V sleeping barber, for every number of clients,    *)
(* every waiting room and every number of haircuts, up to the moment the   *)
(* barber quits and removes the semaphore set.                             *)
(*                                                                         *)
(* The invariant's heart is Handshake.  BARBER is posted twice each time   *)
(* the barber is woken, by two separate semops, and its value alone says   *)
(* how far the waker has come: not there, between the two posts, or        *)
(* seated.                                                                 *)
(***************************************************************************)
EXTENDS BarberShopSysV, MyQueueLemmas, FiniteSetTheorems, TLAPS

(***************************************************************************)
(* The inductive invariant                                                 *)
(***************************************************************************)
\* A client, or none, is about to make one of these calls.
SomeAt(calls) == \E c \in Clients : cpc[c] \in calls
NoneAt(calls) == \A c \in Clients : cpc[c] \notin calls

\* Who holds QUEUE.
BarberHolds == bpc \in {"read_chair", "taken", "pop", "popped", "doze", "dozed"}

ClientHolds(c) ==
  cpc[c] \in {"look", "wake", "mark_awake", "sit", "push", "unlock_queue"}

QueueExclusion ==
  /\ \A c, d \in Clients : ClientHolds(c) /\ ClientHolds(d) => c = d
  /\ \A c \in Clients : ~(ClientHolds(c) /\ BarberHolds)
  /\ (sem["QUEUE"] = 1) <=> ~(BarberHolds \/ \E c \in Clients : ClientHolds(c))
  /\ sem["QUEUE"] \in {0, 1}

\* BARBER says where the waker is: it is posted twice while the barber sleeps,
\* and he may take the first post before the second is made.
Handshake ==
  /\ bpc = "sleep" =>
       /\ sem["BARBER"] \in {0, 1, 2}
       /\ sem["BARBER"] = 0 => NoneAt({"mark_awake", "sit", "push"})
       /\ sem["BARBER"] = 1 <=> SomeAt({"mark_awake"})
       /\ sem["BARBER"] = 2 => NoneAt({"wake"})
  /\ bpc = "take" =>
       /\ sem["BARBER"] \in {0, 1}
       /\ sem["BARBER"] = 0 <=> SomeAt({"mark_awake"})
       /\ NoneAt({"wake"})
  /\ bpc \notin {"sleep", "take"} =>
       /\ sem["BARBER"] = IF bpc = "dozed" THEN 0 ELSE 1
       /\ NoneAt({"wake", "mark_awake", "sit"})

EmptyWhenAsleep == Asleep => IsEmpty(queue_handler)

ClientsWait ==
  \A i \in 1 .. Length(queue_handler) : Contents(queue_handler)[i] \in Clients

\* The barber is done with one client and has not called the next.
BetweenClients == bpc \in {"lock_queue", "pop"}

ChairIsClient == Asleep \/ BetweenClients \/ InChair \in Clients

\* All of it holds as long as the set exists; the barber takes it with him.
IInv ==
  /\ TypeOK
  /\ removed <=> bpc = "exited"
  /\ ~removed => /\ QueueExclusion
                 /\ Handshake
                 /\ EmptyWhenAsleep
                 /\ ClientsWait
                 /\ ChairIsClient

\* Every variable keeps its type, and only his exit takes the set away.
LEMMA TypeStep ==
  ASSUME TypeOK, removed <=> bpc = "exited", [Next]_vars
  PROVE  TypeOK' /\ (removed' <=> bpc' = "exited")
<1> USE DEF TypeOK, BarberCalls, ClientCalls
<1>1. CASE BarberNext
  <2>1. CASE Sleep
    BY <2>1 DEF Sleep, BarberSem, Down, Up, BarberStep, clientVars
  <2>2. CASE Take
    BY <2>2 DEF Take, BarberSem, Down, Up, BarberStep, clientVars
  <2>3. CASE ReadChair
    BY <2>3 DEF ReadChair, BarberStep, clientVars, Queues
  <2>4. CASE Taken
    BY <2>4 DEF Taken, BarberSem, Down, Up, BarberStep, clientVars
  <2>5. ASSUME NEW from \in {"cut_waker", "cut_next"}, Cut(from)
        PROVE  TypeOK' /\ (removed' <=> bpc' = "exited")
    BY <2>5 DEF Cut, BarberStep
  <2>6. CASE LockQueue
    BY <2>6 DEF LockQueue, BarberSem, Down, Up, BarberStep, clientVars
  <2>7. CASE PopNext
    BY <2>7, PopType DEF PopNext, BarberStep, clientVars
  <2>8. CASE UnlockAfterPop
    BY <2>8 DEF UnlockAfterPop, BarberSem, Down, Up, BarberStep, clientVars
  <2>9. CASE Doze
    BY <2>9 DEF Doze, BarberSem, Down, Up, BarberStep, clientVars
  <2>10. CASE UnlockAsleep
    BY <2>10 DEF UnlockAsleep, BarberSem, Down, Up, BarberStep, clientVars
  <2> QED
    BY <1>1, <2>1, <2>2, <2>3, <2>4, <2>5, <2>6, <2>7, <2>8, <2>9, <2>10 DEF BarberNext
<1>2. ASSUME NEW c \in Clients, ClientNext(c) PROVE TypeOK' /\ (removed' <=> bpc' = "exited")
  <2>1. CASE LockCheck(c)
    BY <2>1 DEF LockCheck, ClientSem, Down, Up, ClientStep, barberVars, visitVars
  <2>2. CASE ClientLockQueue(c)
    BY <2>2 DEF ClientLockQueue, ClientSem, Down, Up, ClientStep, barberVars, visitVars
  <2>3. CASE Look(c)
    BY <2>3 DEF Look, ClientStep, barberVars, visitVars
  <2>4. CASE Wake(c)
    BY <2>4 DEF Wake, ClientSem, Down, Up, ClientStep, barberVars, visitVars
  <2>5. CASE MarkAwake(c)
    BY <2>5 DEF MarkAwake, ClientSem, Down, Up, ClientStep, barberVars, visitVars
  <2>6. CASE Sit(c)
    BY <2>6, SitType DEF Sit, ClientStep, barberVars
  <2>7. CASE PushSelf(c)
    BY <2>7, PushType DEF PushSelf, ClientStep, barberVars
  <2>8. CASE ClientUnlockQueue(c)
    BY <2>8 DEF ClientUnlockQueue, ClientSem, Down, Up, ClientStep, barberVars, visitVars
  <2>9. CASE UnlockCheck(c)
    BY <2>9 DEF UnlockCheck, ClientSem, Down, Up, ClientStep, barberVars, visitVars
  <2>10. CASE Suspend(c)
    BY <2>10 DEF Suspend, ClientStep, barberVars, visitVars
  <2>11. CASE Finish(c)
    BY <2>11 DEF Finish, ClientStep, barberVars, visitVars
  <2>12. CASE Fail(c)
    BY <2>12 DEF Fail, barberVars, visitVars
  <2> QED
    BY <1>2, <2>1, <2>2, <2>3, <2>4, <2>5, <2>6, <2>7, <2>8, <2>9, <2>10, <2>11, <2>12
       DEF ClientNext
<1>3. CASE ParentNext
  BY <1>3
     DEF ParentNext, AllForked, ParentExit, Fork, ClientStep, barberVars, clientVars, visitVars
<1>4. CASE BarberQuits
  BY <1>4 DEF BarberQuits, clientVars
<1>5. CASE UNCHANGED vars
  BY <1>5 DEF vars
<1> QED
  BY <1>1, <1>2, <1>3, <1>4, <1>5 DEF Next, Closed

\* While the set exists a step is one of the shop.
LEMMA OpenStep ==
  ASSUME ~removed', [Next]_vars
  PROVE  /\ ~removed
         /\ BarberNext \/ (\E c \in Clients : ClientNext(c)) \/ ParentNext \/ UNCHANGED vars
<1>1. BarberNext => ~removed
  BY
     DEF BarberNext, Sleep, Take, ReadChair, Taken, Cut, LockQueue, PopNext, UnlockAfterPop,
         Doze,
         UnlockAsleep, BarberSem
<1>2. ASSUME NEW c \in Clients, ClientNext(c) PROVE ~removed
  BY <1>2
  DEF ClientNext, LockCheck, ClientLockQueue, Look, Wake, MarkAwake, Sit, PushSelf,
      ClientUnlockQueue, UnlockCheck, Suspend, Finish, Fail, ClientSem
<1>3. ParentNext \/ UNCHANGED vars => ~removed
  BY DEF ParentNext, AllForked, ParentExit, Fork, vars
<1>4. ~BarberQuits
  BY DEF BarberQuits
<1> QED
  BY <1>1, <1>2, <1>3, <1>4 DEF Next, Closed

\* Each semop on QUEUE keeps it and the sections it guards in step.
LEMMA QueueExclusionStep ==
  ASSUME TypeOK, QueueExclusion, ~removed', [Next]_vars
  PROVE  QueueExclusion'
<1> USE DEF TypeOK, QueueExclusion, BarberHolds, ClientHolds
<1>1. CASE BarberNext
  <2>1. CASE Sleep
    BY <2>1 DEF Sleep, BarberSem, Down, Up, BarberStep, clientVars
  <2>2. CASE Take
    BY <2>2 DEF Take, BarberSem, Down, Up, BarberStep, clientVars
  <2>3. CASE ReadChair
    BY <2>3 DEF ReadChair, BarberStep, clientVars
  <2>4. CASE Taken
    BY <2>4 DEF Taken, BarberSem, Down, Up, BarberStep, clientVars
  <2>5. ASSUME NEW from \in {"cut_waker", "cut_next"}, Cut(from) PROVE QueueExclusion'
    BY <2>5 DEF Cut, BarberStep
  <2>6. CASE LockQueue
    BY <2>6 DEF LockQueue, BarberSem, Down, Up, BarberStep, clientVars
  <2>7. CASE PopNext
    BY <2>7 DEF PopNext, BarberStep, clientVars
  <2>8. CASE UnlockAfterPop
    BY <2>8 DEF UnlockAfterPop, BarberSem, Down, Up, BarberStep, clientVars
  <2>9. CASE Doze
    BY <2>9 DEF Doze, BarberSem, Down, Up, BarberStep, clientVars
  <2>10. CASE UnlockAsleep
    BY <2>10 DEF UnlockAsleep, BarberSem, Down, Up, BarberStep, clientVars
  <2> QED
    BY <1>1, <2>1, <2>2, <2>3, <2>4, <2>5, <2>6, <2>7, <2>8, <2>9, <2>10 DEF BarberNext
<1>2. ASSUME NEW c \in Clients, ClientNext(c) PROVE QueueExclusion'
  <2>1. CASE LockCheck(c)
    BY <2>1 DEF LockCheck, ClientSem, Down, Up, ClientStep, barberVars, visitVars
  <2>2. CASE ClientLockQueue(c)
    BY <2>2 DEF ClientLockQueue, ClientSem, Down, Up, ClientStep, barberVars, visitVars
  <2>3. CASE Look(c)
    BY <2>3 DEF Look, ClientStep, barberVars, visitVars
  <2>4. CASE Wake(c)
    BY <2>4 DEF Wake, ClientSem, Down, Up, ClientStep, barberVars, visitVars
  <2>5. CASE MarkAwake(c)
    BY <2>5 DEF MarkAwake, ClientSem, Down, Up, ClientStep, barberVars, visitVars
  <2>6. CASE Sit(c)
    BY <2>6 DEF Sit, ClientStep, barberVars, visitVars
  <2>7. CASE PushSelf(c)
    BY <2>7 DEF PushSelf, ClientStep, barberVars, visitVars
  <2>8. CASE ClientUnlockQueue(c)
    BY <2>8 DEF ClientUnlockQueue, ClientSem, Down, Up, ClientStep, barberVars, visitVars
  <2>9. CASE UnlockCheck(c)
    BY <2>9 DEF UnlockCheck, ClientSem, Down, Up, ClientStep, barberVars, visitVars
  <2>10. CASE Suspend(c)
    BY <2>10 DEF Suspend, ClientStep, barberVars, visitVars
  <2>11. CASE Finish(c)
    BY <2>11 DEF Finish, ClientStep, barberVars, visitVars
  <2>12. CASE Fail(c)
    BY <2>12 DEF Fail, barberVars, visitVars
  <2> QED
    BY <1>2, <2>1, <2>2, <2>3, <2>4, <2>5, <2>6, <2>7, <2>8, <2>9, <2>10, <2>11, <2>12
       DEF ClientNext
<1>3. CASE ParentNext
  BY <1>3
     DEF ParentNext, AllForked, ParentExit, Fork, ClientStep, barberVars, clientVars, visitVars
<1>4. CASE BarberQuits
  BY <1>4 DEF BarberQuits, clientVars
<1>5. CASE UNCHANGED vars
  BY <1>5 DEF vars
<1> QED
  BY <1>1, <1>2, <1>3, <1>4, <1>5 DEF Next, Closed

\* The barber and the client that wakes him go through their semops in step.
LEMMA HandshakeStep ==
  ASSUME TypeOK, QueueExclusion, Handshake, ~removed', [Next]_vars
  PROVE  Handshake'
<1> USE DEF TypeOK, Handshake, SomeAt, NoneAt, QueueExclusion, BarberHolds, ClientHolds
<1>1. CASE BarberNext
  <2>1. CASE Sleep
    BY <2>1 DEF Sleep, BarberSem, Down, Up, BarberStep, clientVars
  <2>2. CASE Take
    BY <2>2 DEF Take, BarberSem, Down, Up, BarberStep, clientVars
  <2>3. CASE ReadChair
    BY <2>3 DEF ReadChair, BarberStep, clientVars
  <2>4. CASE Taken
    BY <2>4 DEF Taken, BarberSem, Down, Up, BarberStep, clientVars
  <2>5. ASSUME NEW from \in {"cut_waker", "cut_next"}, Cut(from) PROVE Handshake'
    BY <2>5 DEF Cut, BarberStep
  <2>6. CASE LockQueue
    BY <2>6 DEF LockQueue, BarberSem, Down, Up, BarberStep, clientVars
  <2>7. CASE PopNext
    BY <2>7 DEF PopNext, BarberStep, clientVars
  <2>8. CASE UnlockAfterPop
    BY <2>8 DEF UnlockAfterPop, BarberSem, Down, Up, BarberStep, clientVars
  <2>9. CASE Doze
    BY <2>9 DEF Doze, BarberSem, Down, Up, BarberStep, clientVars
  <2>10. CASE UnlockAsleep
    BY <2>10 DEF UnlockAsleep, BarberSem, Down, Up, BarberStep, clientVars
  <2> QED
    BY <1>1, <2>1, <2>2, <2>3, <2>4, <2>5, <2>6, <2>7, <2>8, <2>9, <2>10 DEF BarberNext
<1>2. ASSUME NEW c \in Clients, ClientNext(c) PROVE Handshake'
  <2>1. CASE LockCheck(c)
    BY <2>1 DEF LockCheck, ClientSem, Down, Up, ClientStep, barberVars, visitVars
  <2>2. CASE ClientLockQueue(c)
    BY <2>2 DEF ClientLockQueue, ClientSem, Down, Up, ClientStep, barberVars, visitVars
  <2>3. CASE Look(c)
    BY <2>3 DEF Look, ClientStep, barberVars, visitVars
  <2>4. CASE Wake(c)
    BY <2>4 DEF Wake, ClientSem, Down, Up, ClientStep, barberVars, visitVars
  <2>5. CASE MarkAwake(c)
    BY <2>5 DEF MarkAwake, ClientSem, Down, Up, ClientStep, barberVars, visitVars
  <2>6. CASE Sit(c)
    BY <2>6 DEF Sit, ClientStep, barberVars, visitVars
  <2>7. CASE PushSelf(c)
    BY <2>7 DEF PushSelf, ClientStep, barberVars, visitVars
  <2>8. CASE ClientUnlockQueue(c)
    BY <2>8 DEF ClientUnlockQueue, ClientSem, Down, Up, ClientStep, barberVars, visitVars
  <2>9. CASE UnlockCheck(c)
    BY <2>9 DEF UnlockCheck, ClientSem, Down, Up, ClientStep, barberVars, visitVars
  <2>10. CASE Suspend(c)
    BY <2>10 DEF Suspend, ClientStep, barberVars, visitVars
  <2>11. CASE Finish(c)
    BY <2>11 DEF Finish, ClientStep, barberVars, visitVars
  <2>12. CASE Fail(c)
    BY <2>12 DEF Fail, barberVars, visitVars
  <2> QED
    BY <1>2, <2>1, <2>2, <2>3, <2>4, <2>5, <2>6, <2>7, <2>8, <2>9, <2>10, <2>11, <2>12
       DEF ClientNext
<1>3. CASE ParentNext
  BY <1>3
     DEF ParentNext, AllForked, ParentExit, Fork, ClientStep, barberVars, clientVars, visitVars
<1>4. CASE BarberQuits
  BY <1>4 DEF BarberQuits, clientVars
<1>5. CASE UNCHANGED vars
  BY <1>5 DEF vars
<1> QED
  BY <1>1, <1>2, <1>3, <1>4, <1>5 DEF Next, Closed

(***************************************************************************)
(* What a step does to the room, to the chair and to the barber's sleep    *)
(***************************************************************************)
Room == Contents(queue_handler)

Quiet ==
  /\ queue_handler' = queue_handler
  /\ InChair' = InChair
  /\ Asleep' <=> Asleep
  /\ BetweenClients' <=> BetweenClients

\* A client on its way to the chair holds QUEUE, and the barber does not.
LEMMA NobodyWaking ==
  ASSUME IInv, ~removed, sem["QUEUE"] # 0 \/ BarberHolds
  PROVE  ~Waking
BY DEF IInv, QueueExclusion, ClientHolds, Waking

\* A waker sits down; the barber sleeps, or has taken the waker's first post.
LEMMA SitEffect ==
  ASSUME IInv, ~removed, NEW c \in Clients, Sit(c)
  PROVE  /\ Room' = Room
         /\ Asleep /\ ~Asleep'
         /\ InChair = NoPid /\ InChair' = c
<1>1. queue_handler \in Queues /\ cpc[c] = "sit" /\ cpc \in [Clients -> ClientCalls]
  BY DEF IInv, TypeOK, Sit, ClientStep
<1>2. /\ bpc = "take" \/ (bpc = "sleep" /\ sem["BARBER"] = 2)
      /\ UNCHANGED <<bpc, sem>>
  BY <1>1 DEF IInv, Sit, barberVars, Handshake, QueueExclusion, ClientHolds, SomeAt,
              NoneAt
<1>3. Waking
  BY <1>1 DEF Waking
<1>4. ~Waking'
  <2> SUFFICES ASSUME NEW d \in Clients, cpc'[d] \in {"mark_awake", "sit"} PROVE FALSE
    BY DEF Waking
  <2>1. cpc' = [cpc EXCEPT ![c] = "unlock_queue"]
    BY DEF Sit, ClientStep
  <2>2. d # c /\ cpc[d] \in {"mark_awake", "sit"}
    BY <1>1, <2>1
  <2> QED
    BY <1>1, <2>2 DEF IInv, QueueExclusion, ClientHolds
<1>5. Room' = Room /\ queue_handler'.chair = c
  BY <1>1, SitType DEF Sit, Room
<1> QED
  BY <1>2, <1>3, <1>4, <1>5 DEF Asleep, InChair, WakerSeated

\* A client takes a place only while the barber is awake.
LEMMA PushEffect ==
  ASSUME IInv, ~removed, NEW c \in Clients, PushSelf(c)
  PROVE  /\ ~Asleep /\ ~Asleep'
         /\ InChair' = InChair
         /\ BetweenClients' <=> BetweenClients
         /\ Room' = IF IsFull(queue_handler) THEN Room ELSE Append(Room, c)
<1>1. queue_handler \in Queues /\ cpc[c] = "push" /\ cpc \in [Clients -> ClientCalls]
  BY DEF IInv, TypeOK, PushSelf, ClientStep
<1>2. /\ bpc \notin {"doze", "dozed"}
      /\ bpc = "sleep" => sem["BARBER"] = 2
  BY <1>1 DEF IInv, Handshake, QueueExclusion, BarberHolds, ClientHolds, SomeAt,
              NoneAt
<1>3. ~Waking
  BY <1>1 DEF IInv, QueueExclusion, ClientHolds, Waking
<1>4. ~Waking'
  BY <1>1, <1>3 DEF PushSelf, ClientStep, Waking
<1>5. UNCHANGED <<bpc, client_pid, sem>> /\ queue_handler'.chair = queue_handler.chair
  BY <1>1, PushKeepsChair DEF PushSelf, barberVars
<1>6. Room' = IF IsFull(queue_handler) THEN Room ELSE Append(Room, c)
  <2>1. CASE IsFull(queue_handler)
    BY <2>1 DEF PushSelf, Push, Room
  <2>2. CASE ~IsFull(queue_handler)
    BY <1>1, <2>2, PushContents DEF PushSelf, Room
  <2> QED
    BY <2>1, <2>2
<1>7. ~Asleep /\ ~Asleep'
  BY <1>2, <1>3, <1>4, <1>5 DEF Asleep, WakerSeated
<1> QED
  BY <1>3, <1>4, <1>5, <1>6, <1>7 DEF InChair, WakerSeated, BetweenClients

\* The barber invites the first in the room, or falls asleep over an empty one.
LEMMA PopEffect ==
  ASSUME IInv, ~removed, PopNext
  PROVE  /\ ~Asleep
         /\ InChair = NoPid
         /\ IF IsEmpty(queue_handler)
            THEN /\ Room = << >> /\ queue_handler' = queue_handler
                 /\ InChair' = NoPid /\ Asleep'
            ELSE /\ Room # << >> /\ Room' = Tail(Room)
                 /\ InChair' = Head(Room) /\ InChair' \in Clients /\ ~Asleep'
<1>1. queue_handler \in Queues /\ bpc = "pop" /\ client_pid' = Popped(queue_handler)
  BY DEF IInv, TypeOK, PopNext, BarberStep
<1>2. ~Asleep /\ InChair = NoPid
  BY <1>1 DEF Asleep, InChair, WakerSeated
<1>3. CASE IsEmpty(queue_handler)
  <2>1. Room = << >> /\ queue_handler' = queue_handler
    BY <1>1, <1>3, LengthBounds, ContentsType, EmptySeq DEF PopNext, Pop, Room
  <2>2. bpc' = "doze"
    BY <1>3 DEF PopNext, BarberStep
  <2> QED
    BY <1>2, <1>3, <2>1, <2>2 DEF Asleep, InChair, WakerSeated
<1>4. CASE ~IsEmpty(queue_handler)
  <2>1. /\ Room # << >> /\ Room' = Tail(Room)
        /\ Popped(queue_handler) = Head(Room)
    BY <1>1, <1>4, PopContents DEF PopNext, Room
  <2>2. bpc' = "popped"
    BY <1>4 DEF PopNext, BarberStep
  <2>3. Popped(queue_handler) \in Clients
    BY <1>1, <1>4, PopKeepsClients DEF IInv, ClientsWait
  <2> QED
    BY <1>1, <1>2, <1>4, <2>1, <2>2, <2>3 DEF Asleep, InChair, WakerSeated
<1> QED
  BY <1>3, <1>4

\* A cut empties the chair.
LEMMA CutEffect ==
  ASSUME IInv, ~removed, NEW from \in {"cut_waker", "cut_next"}, Cut(from)
  PROVE  /\ ~Asleep /\ ~Asleep' /\ BetweenClients'
         /\ InChair = client_pid /\ InChair \in Clients /\ InChair' = NoPid
         /\ queue_handler' = queue_handler
<1>1. bpc = from /\ bpc' = "lock_queue" /\ UNCHANGED <<queue_handler, client_pid, cpc>>
  BY DEF Cut, BarberStep
<1> QED
  BY <1>1 DEF IInv, ChairIsClient, BetweenClients, Asleep, InChair, WakerSeated

\* The barber's other steps change nothing a client could tell.
LEMMA BarberEffect ==
  ASSUME IInv, ~removed, BarberNext
  PROVE  \/ PopNext
         \/ \E from \in {"cut_waker", "cut_next"} : Cut(from)
         \/ Quiet /\ UNCHANGED <<cpc, res, pending, cuts_number_already>>
<1> USE DEF BarberStep, BarberSem, Down, Up, clientVars, Quiet, Asleep, InChair, WakerSeated,
            BetweenClients
<1>1. CASE Sleep
  <2>1. (sem["BARBER"] = 2 \/ Waking) /\ (Waking' <=> Waking)
    BY <1>1 DEF Sleep, IInv, Handshake, SomeAt, Waking, TypeOK
  <2> QED
    BY <1>1, <2>1 DEF Sleep
<1>2. CASE Take
  <2>1. ~Waking /\ ~Waking'
    <3>1. ~Waking
      BY <1>2, NobodyWaking DEF Take
    <3> QED
      BY <1>2, <3>1 DEF Take, Waking
  <2> QED
    BY <1>2, <2>1 DEF Take
<1>3. CASE ReadChair
  <2>1. ~Waking
    BY <1>3, NobodyWaking DEF ReadChair, BarberHolds
  <2> QED
    BY <1>3, <2>1 DEF ReadChair
<1>4. CASE Taken
  BY <1>4 DEF Taken
<1>5. CASE LockQueue
  BY <1>5 DEF LockQueue
<1>6. CASE UnlockAfterPop
  BY <1>6 DEF UnlockAfterPop
<1>7. CASE Doze
  BY <1>7 DEF Doze
<1>8. CASE UnlockAsleep
  BY <1>8 DEF UnlockAsleep, IInv, Handshake, TypeOK
<1> QED
  BY <1>1, <1>2, <1>3, <1>4, <1>5, <1>6, <1>7, <1>8 DEF BarberNext

\* A client's other steps change neither, and only the end of sigsuspend ends
\* a visit.
LEMMA ClientEffect ==
  ASSUME IInv, ~removed, NEW c \in Clients, ClientNext(c)
  PROVE  /\ \A d \in Clients \ {c} : Visiting(d)' <=> Visiting(d)
         /\ \/ Sit(c) \/ PushSelf(c)
            \/ Quiet /\ Suspend(c)
            \/ /\ Quiet /\ (Visiting(c)' <=> Visiting(c))
               /\ UNCHANGED <<pending, cuts_number_already>>
<1> USE DEF IInv, TypeOK, ClientStep, ClientSem
<1>1. ~Fail(c)
  BY DEF Fail
<1>2. \A d \in Clients \ {c} : cpc'[d] = cpc[d] /\ res'[d] = res[d]
  BY <1>1 DEF ClientNext, LockCheck, ClientLockQueue, Look, Wake, MarkAwake, Sit, PushSelf,
         ClientUnlockQueue, UnlockCheck, Suspend, Finish, visitVars
<1>3. \A d \in Clients \ {c} : Visiting(d)' <=> Visiting(d)
  BY <1>2 DEF Visiting
<1>4. ASSUME UNCHANGED <<queue_handler, bpc, client_pid>>, sem'["BARBER"] = sem["BARBER"],
             cpc[c] \in {"mark_awake", "sit"} <=> cpc'[c] \in {"mark_awake", "sit"}
      PROVE  Quiet
  <2>1. Waking' <=> Waking
    BY <1>2, <1>4 DEF Waking
  <2> QED
    BY <1>4, <2>1 DEF Quiet, Asleep, InChair, WakerSeated, BetweenClients
<1>5. CASE LockCheck(c) \/ ClientLockQueue(c) \/ Look(c) \/ Finish(c)
  BY <1>4, <1>5
  DEF LockCheck, ClientLockQueue, Look, Finish, Visiting, barberVars, visitVars, Down
<1>6. CASE Wake(c)
  <2>1. /\ cpc[c] = "wake"
        /\ UNCHANGED <<queue_handler, bpc, client_pid, res, pending, cuts_number_already>>
        /\ sem'["BARBER"] = sem["BARBER"] + 1 /\ cpc'[c] = "mark_awake"
    BY <1>6 DEF Wake, Up, barberVars, visitVars
  <2>2. bpc = "sleep" /\ sem["BARBER"] = 0
    BY <2>1 DEF Handshake, NoneAt, SomeAt, QueueExclusion, ClientHolds
  <2> QED
    BY <1>3, <2>1, <2>2 DEF Quiet, Asleep, InChair, WakerSeated, BetweenClients, Visiting
<1>7. CASE MarkAwake(c)
  <2>1. /\ cpc[c] = "mark_awake" /\ cpc'[c] = "sit"
        /\ UNCHANGED <<queue_handler, bpc, client_pid, res, pending, cuts_number_already>>
    BY <1>7 DEF MarkAwake, barberVars, visitVars
  <2>2. Waking /\ Waking'
    BY <2>1 DEF Waking
  <2> QED
    BY <1>3, <2>1, <2>2 DEF Quiet, Asleep, InChair, WakerSeated, BetweenClients, Visiting
<1>8. CASE ClientUnlockQueue(c)
  BY <1>3, <1>4, <1>8 DEF ClientUnlockQueue, Visiting, barberVars, visitVars, Up
<1>9. CASE UnlockCheck(c)
  <2>1. Quiet
    BY <1>4, <1>9 DEF UnlockCheck, barberVars, Up
  <2>2. Visiting(c)' <=> Visiting(c)
    BY <1>9 DEF UnlockCheck, Visiting, visitVars
  <2> QED
    BY <1>3, <1>9, <2>1, <2>2 DEF UnlockCheck, visitVars
<1>10. CASE Suspend(c)
  <2>1. Quiet
    BY <1>4, <1>10 DEF Suspend, barberVars
  <2> QED
    BY <1>3, <1>10, <2>1
<1> QED
  BY <1>1, <1>3, <1>5, <1>6, <1>7, <1>8, <1>9, <1>10 DEF ClientNext

\* Forking and reaping leave the shop as it is.
LEMMA OtherEffect ==
  ASSUME IInv, ParentNext \/ UNCHANGED vars
  PROVE  /\ Quiet /\ UNCHANGED <<pending, cuts_number_already>>
         /\ \A d \in Clients : Visiting(d)' <=> Visiting(d)
<1>1. \A d \in Clients : \/ cpc'[d] = cpc[d]
                         \/ cpc[d] = "unborn" /\ cpc'[d] = "lock_check"
  BY DEF IInv, TypeOK, ParentNext, AllForked, ParentExit, Fork, ClientStep, clientVars, vars
<1>2. UNCHANGED <<sem, queue_handler, bpc, client_pid, pending, cuts_number_already, res>>
  BY DEF ParentNext, AllForked, ParentExit, Fork, barberVars, clientVars, visitVars, vars
<1> QED
  BY <1>1, <1>2 DEF Quiet, Asleep, InChair, WakerSeated, Waking, BetweenClients, Visiting

\* The sleeping barber's room is empty, only clients wait, and one who is not
\* asleep nor between two clients has one in his chair.
LEMMA ShopStep ==
  ASSUME IInv, ~removed', [Next]_vars
  PROVE  EmptyWhenAsleep' /\ ClientsWait' /\ ChairIsClient'
<1> USE DEF EmptyWhenAsleep, ClientsWait, ChairIsClient
<1>0. ~removed => queue_handler \in Queues /\ EmptyWhenAsleep /\ ClientsWait /\ ChairIsClient
  BY DEF IInv, TypeOK
<1>1. CASE ~removed /\ Quiet
  BY <1>0, <1>1 DEF Quiet
<1>2. CASE ~removed /\ PopNext
  <2>1. ClientsWait'
    BY <1>0, <1>2, PopKeepsClients DEF PopNext
  <2> QED
    BY <1>2, <2>1, PopEffect
<1>3. ASSUME ~removed, NEW from \in {"cut_waker", "cut_next"}, Cut(from)
      PROVE  EmptyWhenAsleep' /\ ClientsWait' /\ ChairIsClient'
  BY <1>0, <1>3, CutEffect
<1>4. ASSUME ~removed, NEW c \in Clients, Sit(c)
      PROVE  EmptyWhenAsleep' /\ ClientsWait' /\ ChairIsClient'
  <2>1. ClientsWait'
    BY <1>0, <1>4, SitType DEF Sit
  <2> QED
    BY <1>4, <2>1, SitEffect
<1>5. ASSUME ~removed, NEW c \in Clients, PushSelf(c)
      PROVE  EmptyWhenAsleep' /\ ClientsWait' /\ ChairIsClient'
  <2>1. ClientsWait'
    BY <1>0, <1>5, PushKeepsClients DEF PushSelf
  <2> QED
    BY <1>0, <1>5, <2>1, PushEffect
<1>6. ~removed
  BY OpenStep
<1> QED
  BY <1>1, <1>2, <1>3, <1>4, <1>5, <1>6, OpenStep, BarberEffect, ClientEffect, OtherEffect

\* The invariant holds initially and every step keeps it.
THEOREM InductiveInvariant == Spec => []IInv
<1>1. Init => IInv
  <2> SUFFICES ASSUME Init PROVE IInv
    OBVIOUS
  <2>1. removed = FALSE /\ ~removed /\ bpc = "sleep"
    BY DEF Init
  <2>5. sem \in [{"BARBER", "QUEUE", "CHECKER"} -> Nat]
    BY DEF Init
  <2>4. TypeOK
    BY <2>1, <2>5, InitQueueType DEF Init, TypeOK, BarberCalls, ClientCalls, Pids
  <2>2. QueueExclusion /\ Handshake
    BY DEF Init, QueueExclusion, Handshake, BarberHolds, ClientHolds, SomeAt, NoneAt
  <2>3. EmptyWhenAsleep /\ ClientsWait /\ ChairIsClient
    BY DEF Init, EmptyWhenAsleep, ClientsWait, ChairIsClient, InitQueue, IsEmpty, Length,
           Asleep, WakerSeated
  <2> QED
    BY <2>1, <2>2, <2>3, <2>4 DEF IInv
<1>2. IInv /\ [Next]_vars => IInv'
  <2> SUFFICES ASSUME IInv, [Next]_vars PROVE IInv'
    OBVIOUS
  <2>1. TypeOK' /\ (removed' <=> bpc' = "exited")
    BY TypeStep DEF IInv
  <2>2. ASSUME ~removed'
        PROVE  /\ QueueExclusion' /\ Handshake'
               /\ EmptyWhenAsleep' /\ ClientsWait' /\ ChairIsClient'
    <3>1. ~removed
      BY <2>2, OpenStep
    <3> QED
      BY <2>2, <3>1, QueueExclusionStep, HandshakeStep, ShopStep DEF IInv
  <2> QED
    BY <2>1, <2>2 DEF IInv
<1> QED
  BY <1>1, <1>2, PTL DEF Spec

(***************************************************************************)
(* What follows                                                            *)
(***************************************************************************)
\* Every variable keeps its type; head and tail stay inside the shared tab and
\* no value of the set is ever negative.
THEOREM TypeCorrect == Spec => []TypeOK
<1>1. IInv => TypeOK
  BY DEF IInv
<1> QED
  BY <1>1, InductiveInvariant, PTL

\* The barber sleeps only when nobody waits.
THEOREM SleepsWhenEmpty == Spec => []SleepsOnlyWhenEmpty
<1>1. IInv => SleepsOnlyWhenEmpty
  <2> SUFFICES ASSUME IInv, Asleep PROVE Contents(queue_handler) = << >>
    BY DEF SleepsOnlyWhenEmpty
  <2>1. ~removed
    BY DEF IInv, Asleep
  <2>2. IsEmpty(queue_handler) /\ queue_handler \in Queues
    BY <2>1 DEF IInv, TypeOK, EmptyWhenAsleep
  <2> QED
    BY <2>2, LengthBounds, ContentsType, EmptySeq
<1> QED
  BY <1>1, InductiveInvariant, PTL

\* The second semop on BARBER, made while he holds QUEUE, never blocks.
THEOREM NoBlockInDoze == Spec => []DozeNeverBlocks
<1>1. IInv => DozeNeverBlocks
  BY DEF IInv, Handshake, DozeNeverBlocks
<1> QED
  BY <1>1, InductiveInvariant, PTL

\* A visiting client waits, or sits in the chair, or has a cut on its way: one
\* of the three, and once.
OnePlace(c) ==
  /\ Once(Room, c)
  /\ pending[c] \in {0, 1}
  /\ Visiting(c) <=> (In(Room, c) \/ InChair = c \/ pending[c] = 1)
  /\ ~(In(Room, c) /\ InChair = c)
  /\ ~(In(Room, c) /\ pending[c] = 1)
  /\ ~(InChair = c /\ pending[c] = 1)

VisitInOnePlace == ~removed => \A c \in Clients : OnePlace(c)

\* The contents are a sequence of clients' pids.
LEMMA RoomType ==
  ASSUME IInv
  PROVE  /\ Room \in Seq(Pids)
         /\ Len(Room) = Length(queue_handler)
         /\ Len(Room) \in 0 .. MaxChairs
         /\ IsFull(queue_handler) <=> Len(Room) = MaxChairs
         /\ NoPid \notin Clients
BY ContentsType, LengthBounds, NoPidAssumption DEF IInv, TypeOK, Room

\* Each step moves a client from one place to the next.
LEMMA VisitStep ==
  ASSUME IInv, VisitInOnePlace, [Next]_vars
  PROVE  VisitInOnePlace'
<1> SUFFICES ASSUME ~removed', NEW d \in Clients PROVE OnePlace(d)'
  BY DEF VisitInOnePlace
<1>0. ~removed
  BY OpenStep
<1>1. /\ \A c \in Clients : OnePlace(c)
      /\ pending \in [Clients -> Nat] /\ cpc \in [Clients -> ClientCalls]
      /\ res \in [Clients -> {-1, 0, 1}]
      /\ d \in Pids /\ d # NoPid
  BY <1>0, RoomType DEF VisitInOnePlace, IInv, TypeOK, Pids
<1>2. ASSUME Quiet, Visiting(d)' <=> Visiting(d), pending'[d] = pending[d]
      PROVE  OnePlace(d)'
  BY <1>1, <1>2 DEF OnePlace, Quiet, Room, Once, In
<1>3. CASE PopNext
  <2>1. UNCHANGED <<cpc, res, pending>>
    BY <1>3 DEF PopNext, clientVars
  <2>2. Visiting(d)' <=> Visiting(d)
    BY <2>1 DEF Visiting
  <2>3. /\ InChair = NoPid
        /\ IF IsEmpty(queue_handler)
           THEN Room' = Room /\ InChair' = NoPid
           ELSE Room # << >> /\ Room' = Tail(Room) /\ InChair' = Head(Room)
    BY <1>0, <1>3, PopEffect DEF Room
  <2>4. CASE IsEmpty(queue_handler)
    BY <1>1, <2>1, <2>2, <2>3, <2>4 DEF OnePlace, Once, In
  <2>5. CASE ~IsEmpty(queue_handler)
    <3>1. /\ In(Room, d) <=> In(Tail(Room), d) \/ Head(Room) = d
          /\ Once(Room, d) => /\ Once(Tail(Room), d)
                                 /\ ~(In(Tail(Room), d) /\ Head(Room) = d)
      BY <2>3, <2>5, RoomType, TailPlaces
    <3>2. /\ In(Room, d)' <=> In(Tail(Room), d)
          /\ Once(Room, d)' <=> Once(Tail(Room), d)
      BY <2>3, <2>5 DEF In, Once
    <3> QED
      BY <1>1, <2>1, <2>2, <2>3, <2>5, <3>1, <3>2 DEF OnePlace
  <2> QED
    BY <2>4, <2>5
<1>4. ASSUME NEW from \in {"cut_waker", "cut_next"}, Cut(from)
      PROVE  OnePlace(d)'
  <2>1. UNCHANGED <<cpc, res>>
    BY <1>4 DEF Cut
  <2>2. /\ InChair = client_pid /\ InChair' = NoPid /\ Room' = Room
    BY <1>0, <1>4, CutEffect DEF Room
  <2>3. /\ Visiting(d)' <=> Visiting(d)
        /\ In(Room, d)' <=> In(Room, d)
        /\ Once(Room, d)' <=> Once(Room, d)
    BY <2>1, <2>2 DEF Visiting, In, Once
  <2>4. pending'[d] = IF d = InChair THEN pending[d] + 1 ELSE pending[d]
    BY <1>4, <2>2 DEF Cut
  <2> QED
    BY <1>1, <2>2, <2>3, <2>4 DEF OnePlace
<1>5. ASSUME NEW c \in Clients, ClientNext(c)
      PROVE  OnePlace(d)'
  <2>1. \A e \in Clients \ {c} : Visiting(e)' <=> Visiting(e)
    BY <1>0, <1>5, ClientEffect
  <2>2. CASE Sit(c)
    <3>1. /\ ~Visiting(c) /\ Visiting(c)' /\ UNCHANGED pending
      BY <1>1, <2>2 DEF Sit, ClientStep, Visiting
    <3>2. Room' = Room /\ InChair = NoPid /\ InChair' = c
      BY <1>0, <2>2, SitEffect
    <3>3. (In(Room, d)' <=> In(Room, d)) /\ (Once(Room, d)' <=> Once(Room, d))
      BY <3>2 DEF In, Once
    <3> QED
      BY <1>1, <2>1, <3>1, <3>2, <3>3 DEF OnePlace
  <2>3. CASE PushSelf(c)
    <3>1. /\ ~Visiting(c) /\ UNCHANGED pending
          /\ Visiting(c)' <=> ~IsFull(queue_handler)
      BY <1>1, <2>3 DEF PushSelf, ClientStep, Visiting
    <3>2. /\ InChair' = InChair
          /\ Room' = IF IsFull(queue_handler) THEN Room ELSE Append(Room, c)
      BY <1>0, <2>3, PushEffect
    <3>3. CASE IsFull(queue_handler)
      <4>1. (In(Room, d)' <=> In(Room, d)) /\ (Once(Room, d)' <=> Once(Room, d))
        BY <3>2, <3>3 DEF In, Once
      <4> QED
        BY <1>1, <2>1, <3>1, <3>2, <3>3, <4>1 DEF OnePlace
    <3>4. CASE ~IsFull(queue_handler)
      <4>1. /\ In(Append(Room, c), d) <=> In(Room, d) \/ c = d
            /\ Once(Room, d) /\ ~(In(Room, d) /\ c = d) => Once(Append(Room, c), d)
        BY RoomType, AppendPlaces DEF Pids
      <4>2. /\ In(Room, d)' <=> In(Append(Room, c), d)
            /\ Once(Room, d)' <=> Once(Append(Room, c), d)
        BY <3>2, <3>4 DEF In, Once
      <4>3. ~In(Room, c) /\ InChair # c /\ pending[c] # 1
        BY <1>1, <3>1 DEF OnePlace
      <4> QED
        BY <1>1, <2>1, <3>1, <3>2, <3>4, <4>1, <4>2, <4>3 DEF OnePlace
    <3> QED
      BY <3>3, <3>4
  <2>4. CASE Quiet /\ Suspend(c)
    <3>1. /\ Visiting(c) /\ ~Visiting(c)'
          /\ pending[c] = 1 /\ pending'[c] = 0
          /\ c # d => pending'[d] = pending[d]
      BY <1>1, <2>4 DEF Suspend, ClientStep, Visiting, OnePlace
    <3>2. CASE d = c
      BY <1>1, <2>4, <3>1, <3>2 DEF OnePlace, Quiet, Room, In, Once
    <3>3. CASE d # c
      BY <1>2, <2>1, <2>4, <3>1, <3>3
    <3> QED
      BY <3>2, <3>3
  <2>5. CASE Quiet /\ (Visiting(c)' <=> Visiting(c)) /\ UNCHANGED pending
    BY <1>2, <2>1, <2>5
  <2> QED
    BY <1>0, <1>5, <2>2, <2>3, <2>4, <2>5, ClientEffect
<1>6. CASE Quiet /\ UNCHANGED <<cpc, res, pending>>
  BY <1>2, <1>6 DEF Visiting
<1>7. CASE ParentNext \/ UNCHANGED vars
  BY <1>2, <1>7, OtherEffect
<1> QED
  BY <1>0, <1>3, <1>4, <1>5, <1>6, <1>7, OpenStep, BarberEffect

\* Until the barber quits every visiting client, and no other, is in one place.
THEOREM VisitsInOnePlace == Spec => [](IInv /\ VisitInOnePlace)
<1>1. Init => VisitInOnePlace
  <2> SUFFICES ASSUME Init, NEW c \in Clients PROVE OnePlace(c)
    BY DEF VisitInOnePlace
  <2>1. Length(queue_handler) = 0 /\ queue_handler \in Queues
    BY InitQueueType DEF Init, InitQueue, Length
  <2>2. Len(Room) = 0
    BY <2>1, ContentsType DEF Room
  <2>3. InChair = NoPid /\ c # NoPid
    BY NoPidAssumption DEF Init, InChair, WakerSeated
  <2> QED
    BY <2>2, <2>3 DEF Init, OnePlace, In, Once, Visiting
<1>2. IInv /\ VisitInOnePlace /\ [Next]_vars => VisitInOnePlace'
  BY VisitStep
<1> QED
  BY <1>1, <1>2, InductiveInvariant, PTL DEF Spec

\* Until the barber quits each visit gets exactly one haircut.
THEOREM EveryVisitAccounted == Spec => []VisitAccounted
<1>1. IInv /\ VisitInOnePlace => VisitAccounted
  <2> SUFFICES ASSUME IInv, VisitInOnePlace, ~removed, NEW c \in Clients
               PROVE  Ones(Visiting(c)) =
                        Cardinality({i \in 1 .. Length(queue_handler) : Room[i] = c})
                        + Ones(InChair = c) + pending[c]
    BY DEF VisitAccounted, Room
  <2> DEFINE places == {i \in 1 .. Length(queue_handler) : Room[i] = c}
  <2>1. OnePlace(c) /\ Len(Room) = Length(queue_handler)
    BY RoomType DEF VisitInOnePlace
  <2>2. Cardinality(places) = Ones(In(Room, c))
    <3>1. CASE In(Room, c)
      <4>1. PICK i \in 1 .. Len(Room) : Room[i] = c
        BY <3>1 DEF In
      <4>2. places = {i}
        BY <2>1, <4>1 DEF OnePlace, Once
      <4> QED
        BY <3>1, <4>2, FS_Singleton DEF Ones
    <3>2. CASE ~In(Room, c)
      <4>1. places = {}
        BY <2>1, <3>2 DEF In
      <4> QED
        BY <3>2, <4>1, FS_EmptySet DEF Ones
    <3> QED
      BY <3>1, <3>2
  <2> HIDE DEF places
  <2>3. Ones(Visiting(c)) = Ones(In(Room, c)) + Ones(InChair = c) + pending[c]
    BY <2>1 DEF OnePlace, Ones
  <2> QED
    BY <2>2, <2>3 DEF places
<1> QED
  BY <1>1, VisitsInOnePlace, PTL

CutsGiven == [c \in Clients |-> cuts_number_already[c] + pending[c]]

\* The double post on BARBER does the work of the wait semaphore: until the
\* barber quits this shop, too, works as its description says.
THEOREM Refinement == Spec => ImplementsShopUntilQuit
<1> DEFINE Inv == IInv /\ VisitInOnePlace
<1>1. Init => Shop!Init
  <2> SUFFICES ASSUME Init PROVE Shop!Init
    OBVIOUS
  <2>1. Contents(queue_handler) = << >>
    BY DEF Init, InitQueue, Length, Contents
  <2> QED
    BY <2>1 DEF Init, Shop!Init, InChair, Asleep, WakerSeated
<1>2. Inv /\ [Next]_vars => [Shop!Next \/ removed']_<<Room, InChair, Asleep, CutsGiven>>
  <2> SUFFICES ASSUME Inv, [Next]_vars, ~removed'
               PROVE  Shop!Next \/ UNCHANGED <<Room, InChair, Asleep, CutsGiven>>
    OBVIOUS
  <2>0. /\ ~removed
        /\ pending \in [Clients -> Nat] /\ cuts_number_already \in [Clients -> Nat]
    BY OpenStep DEF IInv, TypeOK
  <2>10. (Asleep' <=> Asleep) => Asleep' = Asleep
    BY DEF Asleep
  <2>1. CASE Quiet /\ UNCHANGED <<pending, cuts_number_already>>
    BY <2>1, <2>10 DEF Quiet, Room, CutsGiven
  <2>2. CASE PopNext
    <3>1. UNCHANGED CutsGiven
      BY <2>2 DEF PopNext, clientVars, CutsGiven
    <3>2. CASE IsEmpty(queue_handler)
      <4>1. Shop!FallAsleep
        BY <2>0, <2>2, <3>1, <3>2, PopEffect DEF Shop!FallAsleep, Room, CutsGiven
      <4> QED
        BY <4>1 DEF Shop!Next
    <3>3. CASE ~IsEmpty(queue_handler)
      <4>1. Shop!InviteNext
        BY <2>0, <2>2, <2>10, <3>1, <3>3, PopEffect DEF Shop!InviteNext, Room, CutsGiven
      <4> QED
        BY <4>1 DEF Shop!Next
    <3> QED
      BY <3>2, <3>3
  <2>3. ASSUME NEW from \in {"cut_waker", "cut_next"}, Cut(from) PROVE Shop!FinishCut
    <3>1. /\ InChair = client_pid /\ InChair \in Clients /\ InChair' = NoPid
          /\ Room' = Room /\ ~Asleep /\ ~Asleep'
      BY <2>0, <2>3, CutEffect DEF Room
    <3>2. \A c \in Clients :
            pending'[c] = IF c = InChair THEN pending[c] + 1 ELSE pending[c]
      BY <2>3, <3>1 DEF Cut
    <3>3. UNCHANGED cuts_number_already
      BY <2>3 DEF Cut
    <3>4. CutsGiven' = [CutsGiven EXCEPT ![InChair] = @ + 1]
      <4> DEFINE ch == InChair
      <4>1. \A c \in Clients : cuts_number_already'[c] + pending'[c] =
                                IF c = ch THEN cuts_number_already[c] + pending[c] + 1
                                ELSE cuts_number_already[c] + pending[c]
        BY <2>0, <3>2, <3>3
      <4> HIDE DEF ch
      <4> QED
        BY <4>1 DEF CutsGiven, ch
    <3> QED
      BY <2>10, <3>1, <3>4, NoPidAssumption DEF Shop!FinishCut, Room, CutsGiven
  <2>4. ASSUME NEW c \in Clients, Sit(c) PROVE Shop!WakeBarber(c)
    <3>1. UNCHANGED CutsGiven
      BY <2>4 DEF Sit, CutsGiven
    <3> QED
      BY <2>0, <2>4, <3>1, SitEffect DEF Shop!WakeBarber, Room, CutsGiven
  <2>5. ASSUME NEW c \in Clients, PushSelf(c)
        PROVE  Shop!TakePlace(c) \/ UNCHANGED <<Room, InChair, Asleep, CutsGiven>>
    <3>1. UNCHANGED CutsGiven
      BY <2>5 DEF PushSelf, CutsGiven
    <3>2. /\ ~Asleep /\ ~Asleep' /\ InChair' = InChair
          /\ Room' = IF IsFull(queue_handler) THEN Room ELSE Append(Room, c)
      BY <2>0, <2>5, PushEffect
    <3>3. CASE IsFull(queue_handler)
      BY <2>10, <3>1, <3>2, <3>3
    <3>4. CASE ~IsFull(queue_handler)
      <4>1. Len(Room) < MaxChairs
        BY <3>4, RoomType, MaxChairsAssumption
      <4>2. ~Visiting(c)
        BY <2>5 DEF PushSelf, ClientStep, Visiting
      <4>3. ~(In(Room, c) \/ InChair = c)
        BY <2>0, <4>2 DEF VisitInOnePlace, OnePlace
      <4>4. ~Shop!Present(c)
        BY <4>3 DEF Shop!Present, In, Room
      <4> QED
        BY <2>10, <3>1, <3>2, <3>4, <4>1, <4>4 DEF Shop!TakePlace, Room, CutsGiven
    <3> QED
      BY <3>3, <3>4
  <2>6. ASSUME NEW c \in Clients, Quiet, Suspend(c)
        PROVE  UNCHANGED <<Room, InChair, Asleep, CutsGiven>>
    <3>1. \A d \in Clients : cuts_number_already'[d] + pending'[d]
                              = cuts_number_already[d] + pending[d]
      BY <2>0, <2>6 DEF Suspend
    <3> QED
      BY <2>6, <2>10, <3>1 DEF Quiet, Room, CutsGiven
  <2>7. ASSUME NEW c \in Clients, ClientNext(c)
        PROVE  Shop!Next \/ UNCHANGED <<Room, InChair, Asleep, CutsGiven>>
    BY <2>0, <2>1, <2>4, <2>5, <2>6, <2>7, ClientEffect DEF Shop!Next
  <2>8. CASE BarberNext
    BY <2>0, <2>1, <2>2, <2>3, <2>8, BarberEffect DEF Shop!Next
  <2>9. CASE ParentNext \/ UNCHANGED vars
    BY <2>1, <2>9, OtherEffect
  <2> QED
    BY <2>7, <2>8, <2>9, OpenStep
<1> QED
  BY <1>1, <1>2, VisitsInOnePlace, PTL
  DEF Spec, ImplementsShopUntilQuit, Shop!shop, Room, CutsGiven
=============================================================================
