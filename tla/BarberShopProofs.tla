--------------------------- MODULE BarberShopProofs ---------------------------
(***************************************************************************)
(* Safety of the POSIX sleeping barber, for every number of clients, every *)
(* waiting room, every number of haircuts and whoever is interrupted.      *)
(***************************************************************************)
EXTENDS BarberShop, MyQueueLemmas, FiniteSetTheorems, TLAPS

(***************************************************************************)
(* Type correctness                                                        *)
(***************************************************************************)
\* Every variable keeps its type; head and tail stay inside the shared tab and
\* no semaphore is ever negative.
THEOREM TypeCorrect == Spec => []TypeOK
<1>1. Init => TypeOK
  BY InitQueueType DEF Init, TypeOK, Semaphores, BarberCalls, ClientCalls, Pids
<1>2. TypeOK /\ [Next]_vars => TypeOK'
  <2> SUFFICES ASSUME TypeOK, [Next]_vars PROVE TypeOK'
    OBVIOUS
  <2> USE DEF TypeOK, Semaphores
  <2>1. CASE BarberNext
    <3> USE DEF BarberStep, BarberCalls, clientVars, Wait, Post
    <3>1. CASE Sleep
      BY <3>1 DEF Sleep
    <3>2. CASE StayAwake
      BY <3>2 DEF StayAwake
    <3>3. CASE Admit
      BY <3>3 DEF Admit
    <3>4. CASE Take
      BY <3>4 DEF Take
    <3>5. CASE ReadChair
      BY <3>5 DEF ReadChair, Queues
    <3>6. CASE Taken
      BY <3>6 DEF Taken
    <3>7. ASSUME NEW from \in {"cut_waker", "cut_next"}, Cut(from) PROVE TypeOK'
      BY <3>7 DEF Cut, Signal
    <3>8. CASE LockQueue
      BY <3>8 DEF LockQueue
    <3>9. CASE PopNext
      BY <3>9, PopType DEF PopNext
    <3>10. CASE UnlockAfterPop
      BY <3>10 DEF UnlockAfterPop
    <3>11. CASE Doze
      BY <3>11 DEF Doze
    <3>12. CASE UnlockAsleep
      BY <3>12 DEF UnlockAsleep
    <3> QED
      BY <2>1, <3>1, <3>2, <3>3, <3>4, <3>5, <3>6, <3>7, <3>8, <3>9, <3>10, <3>11, <3>12
         DEF BarberNext
  <2>2. ASSUME NEW c \in Clients, ClientNext(c) PROVE TypeOK'
    <3> USE DEF ClientStep, ClientCalls, barberVars, Wait, Post
    <3>1. CASE LockCheck(c)
      BY <3>1 DEF LockCheck
    <3>2. CASE ClientLockQueue(c)
      BY <3>2 DEF ClientLockQueue
    <3>3. CASE Look(c)
      BY <3>3 DEF Look
    <3>4. CASE Wake(c)
      BY <3>4 DEF Wake
    <3>5. CASE BeAdmitted(c)
      BY <3>5 DEF BeAdmitted
    <3>6. CASE Sit(c)
      BY <3>6, SitType DEF Sit
    <3>7. CASE PushSelf(c)
      BY <3>7, PushType DEF PushSelf
    <3>8. CASE ClientUnlockQueue(c)
      BY <3>8 DEF ClientUnlockQueue
    <3>9. CASE UnlockCheck(c)
      BY <3>9 DEF UnlockCheck
    <3>10. CASE Suspend(c)
      BY <3>10 DEF Suspend
    <3>11. CASE Finish(c)
      BY <3>11 DEF Finish
    <3> QED
      BY <2>2, <3>1, <3>2, <3>3, <3>4, <3>5, <3>6, <3>7, <3>8, <3>9, <3>10, <3>11
         DEF ClientNext
  <2>3. CASE ParentNext
    BY <2>3 DEF ParentNext, AllForked, ParentExit, Fork, ClientStep, ClientCalls,
                barberVars, clientVars
  <2>4. CASE Interrupt
    BY <2>4, InterruptAssumption
       DEF Interrupt, InterruptClient, BarberQuits, barberVars, clientVars
  <2>5. CASE UNCHANGED vars
    BY <2>5 DEF vars
  <2> QED
    BY <2>1, <2>2, <2>3, <2>4, <2>5 DEF Next, Closed
<1> QED
  BY <1>1, <1>2, PTL DEF Spec

(***************************************************************************)
(* The queue lock                                                          *)
(***************************************************************************)

\* Each semaphore call keeps "/queue" and the sections it guards in step.
LEMMA QueueExclusionStep ==
  ASSUME TypeOK, QueueExclusion, [Next]_vars
  PROVE  QueueExclusion'
<1> USE DEF TypeOK, QueueExclusion, BarberHoldsQueue, ClientHoldsQueue, Semaphores
<1>1. CASE BarberNext
  <2> USE DEF BarberStep, clientVars, Wait, Post
  <2>1. CASE Sleep
    BY <2>1 DEF Sleep
  <2>2. CASE StayAwake
    BY <2>2 DEF StayAwake
  <2>3. CASE Admit
    BY <2>3 DEF Admit
  <2>4. CASE Take
    BY <2>4 DEF Take
  <2>5. CASE ReadChair
    BY <2>5 DEF ReadChair
  <2>6. CASE Taken
    BY <2>6 DEF Taken
  <2>7. ASSUME NEW from \in {"cut_waker", "cut_next"}, Cut(from) PROVE QueueExclusion'
    BY <2>7 DEF Cut
  <2>8. CASE LockQueue
    BY <2>8 DEF LockQueue
  <2>9. CASE PopNext
    BY <2>9 DEF PopNext
  <2>10. CASE UnlockAfterPop
    BY <2>10 DEF UnlockAfterPop
  <2>11. CASE Doze
    BY <2>11 DEF Doze
  <2>12. CASE UnlockAsleep
    BY <2>12 DEF UnlockAsleep
  <2> QED
    BY <1>1, <2>1, <2>2, <2>3, <2>4, <2>5, <2>6, <2>7, <2>8, <2>9, <2>10, <2>11, <2>12
       DEF BarberNext
<1>2. ASSUME NEW c \in Clients, ClientNext(c) PROVE QueueExclusion'
  <2> USE DEF ClientStep, ClientCalls, barberVars, Wait, Post
  <2>1. CASE LockCheck(c)
    BY <2>1 DEF LockCheck
  <2>2. CASE ClientLockQueue(c)
    BY <2>2 DEF ClientLockQueue
  <2>3. CASE Look(c)
    BY <2>3 DEF Look
  <2>4. CASE Wake(c)
    BY <2>4 DEF Wake
  <2>5. CASE BeAdmitted(c)
    BY <2>5 DEF BeAdmitted
  <2>6. CASE Sit(c)
    BY <2>6 DEF Sit
  <2>7. CASE PushSelf(c)
    BY <2>7 DEF PushSelf
  <2>8. CASE ClientUnlockQueue(c)
    BY <2>8 DEF ClientUnlockQueue
  <2>9. CASE UnlockCheck(c)
    BY <2>9 DEF UnlockCheck
  <2>10. CASE Suspend(c)
    BY <2>10 DEF Suspend
  <2>11. CASE Finish(c)
    BY <2>11 DEF Finish
  <2> QED
    BY <1>2, <2>1, <2>2, <2>3, <2>4, <2>5, <2>6, <2>7, <2>8, <2>9, <2>10, <2>11
       DEF ClientNext
<1>3. CASE ParentNext
  BY <1>3 DEF ParentNext, AllForked, ParentExit, Fork, ClientStep, barberVars, clientVars
<1>4. CASE Interrupt
  BY <1>4 DEF Interrupt, InterruptClient, BarberQuits, barberVars, clientVars
<1>5. CASE UNCHANGED vars
  BY <1>5 DEF vars
<1> QED
  BY <1>1, <1>2, <1>3, <1>4, <1>5 DEF Next, Closed

(***************************************************************************)
(* The handshake on "/barber" and "/wait"                                  *)
(***************************************************************************)

\* The barber and the client that wakes him go through their calls in step.
LEMMA HandshakeStep ==
  ASSUME TypeOK, QueueExclusion, Handshake, [Next]_vars
  PROVE  Handshake'
<1> USE DEF TypeOK, Handshake, SomeAt, NoneAt, Semaphores
<1>1. CASE BarberNext
  <2> USE DEF BarberStep, clientVars, Wait, Post
  <2>1. CASE Sleep
    BY <2>1 DEF Sleep, QueueExclusion, BarberHoldsQueue, ClientHoldsQueue
  <2>2. CASE StayAwake
    BY <2>2 DEF StayAwake, QueueExclusion, BarberHoldsQueue, ClientHoldsQueue
  <2>3. CASE Admit
    BY <2>3 DEF Admit, QueueExclusion, BarberHoldsQueue, ClientHoldsQueue
  <2>4. CASE Take
    BY <2>4 DEF Take, QueueExclusion, BarberHoldsQueue, ClientHoldsQueue
  <2>5. CASE ReadChair
    BY <2>5 DEF ReadChair, QueueExclusion, BarberHoldsQueue, ClientHoldsQueue
  <2>6. CASE Taken
    BY <2>6 DEF Taken, QueueExclusion, BarberHoldsQueue, ClientHoldsQueue
  <2>7. ASSUME NEW from \in {"cut_waker", "cut_next"}, Cut(from) PROVE Handshake'
    BY <2>7 DEF Cut
  <2>8. CASE LockQueue
    BY <2>8 DEF LockQueue, QueueExclusion, BarberHoldsQueue, ClientHoldsQueue
  <2>9. CASE PopNext
    BY <2>9 DEF PopNext, QueueExclusion, BarberHoldsQueue, ClientHoldsQueue
  <2>10. CASE UnlockAfterPop
    BY <2>10 DEF UnlockAfterPop, QueueExclusion, BarberHoldsQueue, ClientHoldsQueue
  <2>11. CASE Doze
    BY <2>11 DEF Doze, QueueExclusion, BarberHoldsQueue, ClientHoldsQueue
  <2>12. CASE UnlockAsleep
    BY <2>12 DEF UnlockAsleep, QueueExclusion, BarberHoldsQueue, ClientHoldsQueue
  <2> QED
    BY <1>1, <2>1, <2>2, <2>3, <2>4, <2>5, <2>6, <2>7, <2>8, <2>9, <2>10, <2>11, <2>12
       DEF BarberNext
<1>2. ASSUME NEW c \in Clients, ClientNext(c) PROVE Handshake'
  <2> USE DEF ClientStep, ClientCalls, barberVars, Wait, Post
  <2>1. CASE LockCheck(c)
    BY <2>1 DEF LockCheck, QueueExclusion, BarberHoldsQueue, ClientHoldsQueue
  <2>2. CASE ClientLockQueue(c)
    BY <2>2 DEF ClientLockQueue, QueueExclusion, BarberHoldsQueue, ClientHoldsQueue
  <2>3. CASE Look(c)
    BY <2>3 DEF Look, QueueExclusion, BarberHoldsQueue, ClientHoldsQueue
  <2>4. CASE Wake(c)
    BY <2>4 DEF Wake, QueueExclusion, BarberHoldsQueue, ClientHoldsQueue
  <2>5. CASE BeAdmitted(c)
    BY <2>5 DEF BeAdmitted, QueueExclusion, BarberHoldsQueue, ClientHoldsQueue
  <2>6. CASE Sit(c)
    BY <2>6 DEF Sit, QueueExclusion, BarberHoldsQueue, ClientHoldsQueue
  <2>7. CASE PushSelf(c)
    BY <2>7 DEF PushSelf, QueueExclusion, BarberHoldsQueue, ClientHoldsQueue
  <2>8. CASE ClientUnlockQueue(c)
    BY <2>8 DEF ClientUnlockQueue, QueueExclusion, BarberHoldsQueue, ClientHoldsQueue
  <2>9. CASE UnlockCheck(c)
    BY <2>9 DEF UnlockCheck, QueueExclusion, BarberHoldsQueue, ClientHoldsQueue
  <2>10. CASE Suspend(c)
    BY <2>10 DEF Suspend, QueueExclusion, BarberHoldsQueue, ClientHoldsQueue
  <2>11. CASE Finish(c)
    BY <2>11 DEF Finish, QueueExclusion, BarberHoldsQueue, ClientHoldsQueue
  <2> QED
    BY <1>2, <2>1, <2>2, <2>3, <2>4, <2>5, <2>6, <2>7, <2>8, <2>9, <2>10, <2>11
       DEF ClientNext
<1>3. CASE ParentNext
  BY <1>3 DEF ParentNext, AllForked, ParentExit, Fork, ClientStep, barberVars, clientVars
<1>4. CASE Interrupt
  BY <1>4 DEF Interrupt, InterruptClient, BarberQuits, barberVars, clientVars
<1>5. CASE UNCHANGED vars
  BY <1>5 DEF vars
<1> QED
  BY <1>1, <1>2, <1>3, <1>4, <1>5 DEF Next, Closed

(***************************************************************************)
(* The waiting room                                                        *)
(***************************************************************************)

\* Only three actions write the shared queue; any other step keeps it.
LEMMA QueueWriters ==
  ASSUME [Next]_vars
  PROVE  \/ PopNext
         \/ \E c \in Clients : Sit(c) \/ PushSelf(c)
         \/ UNCHANGED m_queue
<1>1. CASE BarberNext
  BY <1>1 DEF BarberNext, Sleep, StayAwake, Admit, Take, ReadChair, Taken, Cut, LockQueue,
              UnlockAfterPop, Doze, UnlockAsleep
<1>2. ASSUME NEW c \in Clients, ClientNext(c) PROVE Sit(c) \/ PushSelf(c) \/ UNCHANGED m_queue
  BY <1>2 DEF ClientNext, LockCheck, ClientLockQueue, Look, Wake, BeAdmitted,
              ClientUnlockQueue, UnlockCheck, Suspend, Finish
<1>3. CASE ParentNext
  BY <1>3 DEF ParentNext, AllForked, ParentExit, Fork
<1>4. CASE Interrupt
  BY <1>4 DEF Interrupt, InterruptClient, BarberQuits
<1>5. CASE UNCHANGED vars
  BY <1>5 DEF vars
<1> QED
  BY <1>1, <1>2, <1>3, <1>4, <1>5 DEF Next, Closed

\* Only the barber's own steps move him.
LEMMA BarberMoves ==
  ASSUME [Next]_vars
  PROVE  BarberNext \/ UNCHANGED <<bpc, tmp_client_pid>>
<1>1. ASSUME NEW c \in Clients, ClientNext(c) PROVE UNCHANGED <<bpc, tmp_client_pid>>
  BY <1>1 DEF ClientNext, LockCheck, ClientLockQueue, Look, Wake, BeAdmitted, Sit, PushSelf,
              ClientUnlockQueue, UnlockCheck, Suspend, Finish, barberVars
<1>2. CASE ParentNext
  BY <1>2 DEF ParentNext, AllForked, ParentExit, Fork, barberVars
<1>3. CASE Interrupt
  BY <1>3 DEF Interrupt, InterruptClient, BarberQuits, barberVars
<1>4. CASE UNCHANGED vars
  BY <1>4 DEF vars
<1> QED
  BY <1>1, <1>2, <1>3, <1>4 DEF Next, Closed

\* The barber turns to sleep only from an empty queue he holds, and nobody
\* pushes until a client has woken him.
LEMMA EmptyWhenAsleepStep ==
  ASSUME TypeOK, QueueExclusion, Handshake, EmptyWhenAsleep, [Next]_vars
  PROVE  EmptyWhenAsleep'
<1> USE DEF EmptyWhenAsleep
<1>1. CASE PopNext
  BY <1>1 DEF PopNext, BarberStep, Pop, IsEmpty
<1>2. ASSUME NEW c \in Clients, Sit(c) PROVE EmptyWhenAsleep'
  BY <1>2, SitType DEF Sit, barberVars, TypeOK, IsEmpty
<1>3. ASSUME NEW c \in Clients, PushSelf(c) PROVE EmptyWhenAsleep'
  <2>1. bpc' = bpc /\ cpc[c] = "push"
    BY <1>3 DEF PushSelf, barberVars, ClientStep
  <2>2. bpc \notin {"sleep", "stay_awake", "admit", "doze", "dozed"}
    BY <2>1 DEF Handshake, QueueExclusion, BarberHoldsQueue, ClientHoldsQueue, SomeAt, NoneAt
  <2> QED
    BY <2>1, <2>2
<1>4. CASE UNCHANGED m_queue
  <2>1. CASE UNCHANGED bpc
    BY <1>4, <2>1 DEF IsEmpty
  <2>2. CASE BarberNext
    BY <1>4, <2>2
       DEF BarberNext, BarberStep, Sleep, StayAwake, Admit, Take, ReadChair, Taken, Cut,
           LockQueue, PopNext, UnlockAfterPop, Doze, UnlockAsleep, IsEmpty
  <2> QED
    BY <2>1, <2>2, BarberMoves
<1> QED
  BY <1>1, <1>2, <1>3, <1>4, QueueWriters

\* Only clients push, and each pushes itself.
LEMMA OnlyClientsWaitStep ==
  ASSUME TypeOK, OnlyClientsWait, [Next]_vars
  PROVE  OnlyClientsWait'
<1>0. m_queue \in Queues
  BY DEF TypeOK
<1>1. CASE PopNext
  BY <1>0, <1>1, PopKeepsClients DEF PopNext, OnlyClientsWait
<1>2. ASSUME NEW c \in Clients, Sit(c) PROVE OnlyClientsWait'
  BY <1>0, <1>2, SitType DEF Sit, OnlyClientsWait
<1>3. ASSUME NEW c \in Clients, PushSelf(c) PROVE OnlyClientsWait'
  BY <1>0, <1>3, PushKeepsClients DEF PushSelf, OnlyClientsWait
<1>4. CASE UNCHANGED m_queue
  BY <1>4 DEF OnlyClientsWait
<1> QED
  BY <1>1, <1>2, <1>3, <1>4, QueueWriters

(***************************************************************************)
(* The chair                                                               *)
(***************************************************************************)

\* The waker writes its pid before the barber can read the chair, and the
\* barber pops only pids of clients.
LEMMA ChairIsClientStep ==
  ASSUME TypeOK, QueueExclusion, Handshake, OnlyClientsWait, ChairIsClient, [Next]_vars
  PROVE  ChairIsClient'
<1> USE DEF ChairIsClient, SomeAt
<1>0. m_queue \in Queues
  BY DEF TypeOK
<1>1. CASE BarberNext
  <2> USE DEF BarberStep, clientVars
  <2>1. CASE Sleep
    BY <2>1 DEF Sleep
  <2>2. CASE StayAwake
    BY <2>2 DEF StayAwake
  <2>3. CASE Admit
    BY <2>3 DEF Admit, Handshake
  <2>4. CASE Take
    BY <2>4 DEF Take, Wait, QueueExclusion, ClientHoldsQueue
  <2>5. CASE ReadChair
    BY <2>5 DEF ReadChair
  <2>6. CASE Taken
    BY <2>6 DEF Taken
  <2>7. ASSUME NEW from \in {"cut_waker", "cut_next"}, Cut(from) PROVE ChairIsClient'
    BY <2>7 DEF Cut
  <2>8. CASE LockQueue
    BY <2>8 DEF LockQueue
  <2>9. CASE PopNext
    BY <1>0, <2>9, PopKeepsClients DEF PopNext, OnlyClientsWait
  <2>10. CASE UnlockAfterPop
    BY <2>10 DEF UnlockAfterPop
  <2>11. CASE Doze
    BY <2>11 DEF Doze
  <2>12. CASE UnlockAsleep
    BY <2>12 DEF UnlockAsleep
  <2> QED
    BY <1>1, <2>1, <2>2, <2>3, <2>4, <2>5, <2>6, <2>7, <2>8, <2>9, <2>10, <2>11, <2>12
       DEF BarberNext
<1>2. ASSUME NEW c \in Clients, ClientNext(c) PROVE ChairIsClient'
  <2> USE DEF ClientStep, barberVars, TypeOK
  <2>1. CASE LockCheck(c)
    BY <2>1 DEF LockCheck
  <2>2. CASE ClientLockQueue(c)
    BY <2>2 DEF ClientLockQueue
  <2>3. CASE Look(c)
    BY <2>3 DEF Look
  <2>4. CASE Wake(c)
    BY <2>4 DEF Wake
  <2>5. CASE BeAdmitted(c)
    BY <2>5 DEF BeAdmitted
  <2>6. CASE Sit(c)
    BY <1>0, <2>6, SitType DEF Sit, QueueExclusion, BarberHoldsQueue, ClientHoldsQueue
  <2>7. CASE PushSelf(c)
    BY <1>0, <2>7, PushKeepsChair DEF PushSelf
  <2>8. CASE ClientUnlockQueue(c)
    BY <2>8 DEF ClientUnlockQueue
  <2>9. CASE UnlockCheck(c)
    BY <2>9 DEF UnlockCheck
  <2>10. CASE Suspend(c)
    BY <2>10 DEF Suspend
  <2>11. CASE Finish(c)
    BY <2>11 DEF Finish
  <2> QED
    BY <1>2, <2>1, <2>2, <2>3, <2>4, <2>5, <2>6, <2>7, <2>8, <2>9, <2>10, <2>11
       DEF ClientNext
<1>3. CASE ParentNext
  BY <1>3
     DEF ParentNext, AllForked, ParentExit, Fork, ClientStep, barberVars, clientVars, TypeOK
<1>4. CASE Interrupt
  BY <1>4 DEF Interrupt, InterruptClient, BarberQuits, barberVars, clientVars
<1>5. CASE UNCHANGED vars
  BY <1>5 DEF vars
<1> QED
  BY <1>1, <1>2, <1>3, <1>4, <1>5 DEF Next, Closed

(***************************************************************************)
(* The inductive invariant and what follows from it                        *)
(***************************************************************************)

\* The strengthening holds initially and every step keeps it.
THEOREM InductiveInvariant == Spec => []IInv
<1>1. Init => IInv
  <2> SUFFICES ASSUME Init PROVE IInv
    OBVIOUS
  <2>1. TypeOK
    BY InitQueueType DEF Init, TypeOK, Semaphores, BarberCalls, ClientCalls, Pids
  <2>2. QueueExclusion /\ Handshake
    BY DEF Init, QueueExclusion, Handshake, BarberHoldsQueue, ClientHoldsQueue, SomeAt, NoneAt
  <2>3. EmptyWhenAsleep /\ OnlyClientsWait /\ ChairIsClient
    BY DEF Init, EmptyWhenAsleep, OnlyClientsWait, ChairIsClient, InitQueue, IsEmpty, Length
  <2> QED
    BY <2>1, <2>2, <2>3 DEF IInv
<1>2. IInv /\ TypeOK' /\ [Next]_vars => IInv'
  BY QueueExclusionStep, HandshakeStep, EmptyWhenAsleepStep, OnlyClientsWaitStep,
     ChairIsClientStep DEF IInv
<1> QED
  BY <1>1, <1>2, TypeCorrect, PTL DEF Spec

\* One process at a time is inside the sections "/queue" guards.
THEOREM Exclusion == Spec => []QueueExclusion
<1>1. IInv => QueueExclusion
  BY DEF IInv
<1> QED
  BY <1>1, InductiveInvariant, PTL

\* The barber never blocks on "/barber" while he holds the queue.
THEOREM NoBlockInDoze == Spec => []DozeNeverBlocks
<1>1. IInv => DozeNeverBlocks
  BY DEF IInv, Handshake, DozeNeverBlocks
<1> QED
  BY <1>1, InductiveInvariant, PTL

\* The barber sleeps only when nobody waits.
THEOREM SleepsWhenEmpty == Spec => []SleepsOnlyWhenEmpty
<1>1. IInv => SleepsOnlyWhenEmpty
  <2> SUFFICES ASSUME IInv, IsEmpty(m_queue) PROVE Contents(m_queue) = << >>
    BY DEF IInv, EmptyWhenAsleep, SleepsOnlyWhenEmpty
  <2>1. m_queue \in Queues
    BY DEF IInv, TypeOK
  <2> QED
    BY <2>1, LengthBounds, ContentsType, EmptySeq
<1> QED
  BY <1>1, InductiveInvariant, PTL

\* The barber signals nothing but clients.
THEOREM CutsOnlyClients == Spec => []CutsClientsOnly
<1>1. IInv => CutsClientsOnly
  BY DEF IInv, ChairIsClient, CutsClientsOnly
<1> QED
  BY <1>1, InductiveInvariant, PTL

(***************************************************************************)
(* One haircut a visit                                                     *)
(***************************************************************************)
Room == Contents(m_queue)

\* A visiting client waits, or sits in the chair, or has a cut on its way: one
\* of the three, and once.
OnePlace(c) ==
  /\ Once(Room, c)
  /\ pending[c] \in {0, 1}
  /\ Visiting(c) <=> (In(Room, c) \/ InChair = c \/ pending[c] = 1)
  /\ ~(In(Room, c) /\ InChair = c)
  /\ ~(In(Room, c) /\ pending[c] = 1)
  /\ ~(InChair = c /\ pending[c] = 1)

VisitInOnePlace == \A c \in Clients \ dead : OnePlace(c)

(***************************************************************************)
(* What a step does to the room, to the chair and to the barber's sleep    *)
(***************************************************************************)
Quiet == Room' = Room /\ InChair' = InChair /\ (Asleep' <=> Asleep)

\* A client on its way to the chair holds the queue, and the barber does not.
LEMMA NobodyWaking ==
  ASSUME IInv, sem["queue"] # 0 \/ BarberHoldsQueue
  PROVE  \A c \in Clients : ~Waking(c)
BY DEF IInv, QueueExclusion, ClientHoldsQueue, Waking

\* A waker sits down while the barber comes to take it.
LEMMA SitEffect ==
  ASSUME IInv, NEW c \in Clients, Sit(c)
  PROVE  /\ Room' = Room
         /\ Asleep /\ ~Asleep'
         /\ InChair = NoPid /\ InChair' = c
<1>1. m_queue \in Queues /\ cpc[c] = "sit" /\ cpc \in [Clients -> ClientCalls]
  BY DEF IInv, TypeOK, Sit, ClientStep
<1>2. bpc = "take" /\ bpc' = "take"
  BY <1>1
     DEF IInv, Sit, barberVars, Handshake, QueueExclusion, ClientHoldsQueue, SomeAt, NoneAt
<1>3. Waking(c)
  BY <1>1 DEF Waking
<1>4. \A d \in Clients : ~Waking(d)'
  <2> SUFFICES ASSUME NEW d \in Clients, Waking(d)' PROVE FALSE
    OBVIOUS
  <2>1. cpc' = [cpc EXCEPT ![c] = "unlock_queue"]
    BY DEF Sit, ClientStep
  <2>2. d # c
    BY <1>1, <2>1 DEF Waking
  <2>3. Waking(d)
    BY <1>1, <2>1, <2>2 DEF Waking
  <2> QED
    BY <1>3, <2>2, <2>3 DEF IInv, QueueExclusion, ClientHoldsQueue, Waking
<1>5. Room' = Room /\ m_queue'.chair = c
  BY <1>1, SitType DEF Sit, Room
<1> QED
  BY <1>2, <1>3, <1>4, <1>5 DEF Asleep, InChair

\* A client takes a place only while the barber is awake.
LEMMA PushEffect ==
  ASSUME IInv, NEW c \in Clients, PushSelf(c)
  PROVE  /\ ~Asleep /\ ~Asleep'
         /\ InChair' = InChair
         /\ Room' = IF IsFull(m_queue) THEN Room ELSE Append(Room, c)
<1>1. m_queue \in Queues /\ cpc[c] = "push" /\ cpc \in [Clients -> ClientCalls]
  BY DEF IInv, TypeOK, PushSelf, ClientStep
<1>2. bpc \notin {"doze", "dozed", "sleep", "stay_awake", "admit"}
  BY <1>1
     DEF IInv, Handshake, QueueExclusion, BarberHoldsQueue, ClientHoldsQueue, SomeAt, NoneAt
<1>3. \A d \in Clients : ~Waking(d)
  BY <1>1 DEF IInv, QueueExclusion, ClientHoldsQueue, Waking
<1>4. \A d \in Clients : ~Waking(d)'
  BY <1>1, <1>3 DEF PushSelf, ClientStep, Waking
<1>5. UNCHANGED <<bpc, tmp_client_pid>> /\ m_queue'.chair = m_queue.chair
  BY <1>1, PushKeepsChair DEF PushSelf, barberVars
<1>6. Room' = IF IsFull(m_queue) THEN Room ELSE Append(Room, c)
  <2>1. CASE IsFull(m_queue)
    BY <2>1 DEF PushSelf, Push, Room
  <2>2. CASE ~IsFull(m_queue)
    BY <1>1, <2>2, PushContents DEF PushSelf, Room
  <2> QED
    BY <2>1, <2>2
<1>7. ~Asleep /\ ~Asleep'
  BY <1>2, <1>3, <1>4, <1>5 DEF Asleep
<1> QED
  BY <1>5, <1>6, <1>7 DEF InChair

\* The barber invites the first in the room, or falls asleep over an empty one.
LEMMA PopEffect ==
  ASSUME IInv, PopNext
  PROVE  /\ ~Asleep
         /\ InChair = NoPid
         /\ IF IsEmpty(m_queue)
            THEN Room = << >> /\ Room' = Room /\ InChair' = NoPid /\ Asleep'
            ELSE Room # << >> /\ Room' = Tail(Room) /\ InChair' = Head(Room) /\ ~Asleep'
<1>1. m_queue \in Queues /\ bpc = "pop" /\ tmp_client_pid' = Popped(m_queue)
  BY DEF IInv, TypeOK, PopNext, BarberStep
<1>2. ~Asleep /\ InChair = NoPid
  BY <1>1 DEF Asleep, InChair
<1>3. CASE IsEmpty(m_queue)
  <2>1. Room = << >> /\ Room' = Room
    BY <1>1, <1>3, LengthBounds, ContentsType, EmptySeq DEF PopNext, Pop, Room
  <2>2. bpc' = "doze"
    BY <1>3 DEF PopNext, BarberStep
  <2> QED
    BY <1>2, <1>3, <2>1, <2>2 DEF Asleep, InChair
<1>4. CASE ~IsEmpty(m_queue)
  <2>1. Room # << >> /\ Room' = Tail(Room) /\ Popped(m_queue) = Head(Room)
    BY <1>1, <1>4, PopContents DEF PopNext, Room
  <2>2. bpc' = "popped"
    BY <1>4 DEF PopNext, BarberStep
  <2> QED
    BY <1>1, <1>2, <1>4, <2>1, <2>2 DEF Asleep, InChair
<1> QED
  BY <1>3, <1>4

\* A cut empties the chair.
LEMMA CutEffect ==
  ASSUME IInv, NEW from \in {"cut_waker", "cut_next"}, Cut(from)
  PROVE  /\ ~Asleep /\ ~Asleep'
         /\ InChair = tmp_client_pid /\ InChair \in Clients /\ InChair' = NoPid
         /\ Room' = Room
<1>1. bpc = from /\ bpc' = "lock_queue" /\ UNCHANGED <<m_queue, tmp_client_pid, cpc>>
  BY DEF Cut, BarberStep
<1> QED
  BY <1>1 DEF IInv, ChairIsClient, Asleep, InChair, Room

\* The barber's other steps change nothing a client could tell.
LEMMA BarberEffect ==
  ASSUME IInv, BarberNext
  PROVE  \/ PopNext
         \/ \E from \in {"cut_waker", "cut_next"} : Cut(from)
         \/ Quiet /\ UNCHANGED <<cpc, res, pending, cuts_already, dead>>
<1> USE DEF BarberStep, clientVars, Quiet, Room, Asleep, InChair
<1>1. CASE Sleep
  BY <1>1 DEF Sleep
<1>2. CASE StayAwake
  BY <1>2 DEF StayAwake
<1>3. CASE Admit
  <2>1. PICK c \in Clients : Waking(c)
    BY <1>3 DEF Admit, IInv, Handshake, SomeAt, Waking
  <2>2. Waking(c)'
    BY <1>3, <2>1 DEF Admit, Waking
  <2> QED
    BY <1>3, <2>2 DEF Admit
<1>4. CASE Take
  <2>1. \A c \in Clients : ~Waking(c)
    BY <1>4, NobodyWaking DEF Take, Wait, IInv, TypeOK, Semaphores
  <2>2. \A c \in Clients : ~Waking(c)'
    BY <1>4, <2>1 DEF Take, Waking
  <2> QED
    BY <1>4, <2>1, <2>2 DEF Take
<1>5. CASE ReadChair
  <2>1. \A c \in Clients : ~Waking(c)
    BY <1>5, NobodyWaking DEF ReadChair, BarberHoldsQueue
  <2> QED
    BY <1>5, <2>1 DEF ReadChair
<1>6. CASE Taken
  BY <1>6 DEF Taken
<1>7. CASE LockQueue
  BY <1>7 DEF LockQueue
<1>8. CASE UnlockAfterPop
  BY <1>8 DEF UnlockAfterPop
<1>9. CASE Doze
  BY <1>9 DEF Doze
<1>10. CASE UnlockAsleep
  BY <1>10 DEF UnlockAsleep
<1> QED
  BY <1>1, <1>2, <1>3, <1>4, <1>5, <1>6, <1>7, <1>8, <1>9, <1>10 DEF BarberNext

\* A client's other steps change neither, and only the end of sigsuspend ends
\* a visit.
LEMMA ClientEffect ==
  ASSUME IInv, NEW c \in Clients, ClientNext(c)
  PROVE  /\ c \notin dead /\ UNCHANGED dead
         /\ \A d \in Clients \ {c} : Visiting(d)' <=> Visiting(d)
         /\ \/ Sit(c) \/ PushSelf(c)
            \/ Quiet /\ Suspend(c)
            \/ Quiet /\ (Visiting(c)' <=> Visiting(c)) /\ UNCHANGED <<pending, cuts_already>>
<1> USE DEF IInv, TypeOK, ClientStep
<1>1. c \notin dead /\ UNCHANGED dead
  BY DEF ClientNext, LockCheck, ClientLockQueue, Look, Wake, BeAdmitted, Sit, PushSelf,
         ClientUnlockQueue, UnlockCheck, Suspend, Finish
<1>2. \A d \in Clients \ {c} : cpc'[d] = cpc[d] /\ res'[d] = res[d]
  BY DEF ClientNext, LockCheck, ClientLockQueue, Look, Wake, BeAdmitted, Sit, PushSelf,
         ClientUnlockQueue, UnlockCheck, Suspend, Finish
<1>3. \A d \in Clients \ {c} : Visiting(d)' <=> Visiting(d)
  BY <1>2 DEF Visiting
<1>4. ASSUME UNCHANGED <<m_queue, bpc, tmp_client_pid>>,
             (Waking(c)' <=> Waking(c)) \/ bpc \notin {"take", "read_chair"}
      PROVE  Quiet
  <2>1. (\A d \in Clients : Waking(d)' <=> Waking(d)) \/ bpc \notin {"take", "read_chair"}
    BY <1>2, <1>4 DEF Waking
  <2> QED
    BY <1>4, <2>1 DEF Quiet, Room, Asleep, InChair
<1>5. CASE LockCheck(c) \/ ClientLockQueue(c) \/ Look(c) \/ Finish(c)
  BY <1>4, <1>5
  DEF LockCheck, ClientLockQueue, Look, Finish, Waking, Visiting, barberVars
<1>6. CASE Wake(c)
  BY <1>4, <1>6 DEF Wake, Visiting, barberVars, Handshake, NoneAt
<1>7. CASE BeAdmitted(c) \/ ClientUnlockQueue(c)
  <2>1. CASE BeAdmitted(c)
    BY <1>4, <2>1 DEF BeAdmitted, Waking, Visiting, barberVars
  <2>2. CASE ClientUnlockQueue(c)
    BY <1>4, <2>2 DEF ClientUnlockQueue, Waking, Visiting, barberVars
  <2> QED
    BY <1>7, <2>1, <2>2
<1>8. CASE UnlockCheck(c)
  <2>1. Quiet
    BY <1>4, <1>8 DEF UnlockCheck, Waking, barberVars
  <2>2. Visiting(c)' <=> Visiting(c)
    BY <1>8 DEF UnlockCheck, Visiting
  <2> QED
    BY <1>1, <1>3, <1>8, <2>1, <2>2 DEF UnlockCheck
<1>9. CASE Suspend(c)
  <2>1. Quiet
    BY <1>4, <1>9 DEF Suspend, Waking, barberVars
  <2> QED
    BY <1>1, <1>3, <1>9, <2>1
<1> QED
  BY <1>1, <1>3, <1>5, <1>6, <1>7, <1>8, <1>9 DEF ClientNext

\* Forking, reaping and SIGINT leave the shop as it is.
LEMMA OtherEffect ==
  ASSUME IInv, ParentNext \/ Interrupt \/ UNCHANGED vars
  PROVE  /\ Quiet /\ UNCHANGED <<pending, cuts_already>>
         /\ dead \subseteq dead'
         /\ \A d \in Clients : Visiting(d)' <=> Visiting(d)
<1>1. \A d \in Clients : \/ cpc'[d] = cpc[d]
                         \/ cpc[d] = "unborn" /\ cpc'[d] = "lock_check"
  BY DEF IInv, TypeOK, ParentNext, AllForked, ParentExit, Fork, ClientStep, Interrupt,
         InterruptClient, BarberQuits, clientVars, vars
<1>2. UNCHANGED <<m_queue, bpc, tmp_client_pid, pending, cuts_already, res>>
  BY DEF ParentNext, AllForked, ParentExit, Fork, Interrupt, InterruptClient, BarberQuits,
         barberVars, clientVars, vars
<1>3. dead \subseteq dead'
  BY DEF ParentNext, AllForked, ParentExit, Fork, Interrupt, InterruptClient, BarberQuits, vars
<1> QED
  BY <1>1, <1>2, <1>3 DEF Quiet, Room, Asleep, InChair, Waking, Visiting

\* The contents are a sequence of clients' pids.
LEMMA RoomType ==
  ASSUME IInv
  PROVE  /\ Room \in Seq(Pids)
         /\ Len(Room) = Length(m_queue)
         /\ Len(Room) \in 0 .. MaxChairs
         /\ IsFull(m_queue) <=> Len(Room) = MaxChairs
         /\ NoPid \notin Clients
BY ContentsType, LengthBounds, NoPidAssumption DEF IInv, TypeOK, Room

\* Each step moves a client from one place to the next.
LEMMA VisitStep ==
  ASSUME IInv, VisitInOnePlace, [Next]_vars
  PROVE  VisitInOnePlace'
<1>0. /\ \A c \in Clients \ dead : OnePlace(c)
      /\ pending \in [Clients -> Nat] /\ cpc \in [Clients -> ClientCalls]
      /\ res \in [Clients -> {-1, 0, 1}]
  BY DEF VisitInOnePlace, IInv, TypeOK
<1>1. ASSUME NEW d \in Clients \ dead, Quiet, Visiting(d)' <=> Visiting(d),
             pending'[d] = pending[d]
      PROVE  OnePlace(d)'
  BY <1>0, <1>1 DEF OnePlace, Quiet, Once, In
<1>2. CASE PopNext
  <2>1. UNCHANGED <<cpc, res, pending, dead>>
    BY <1>2 DEF PopNext, clientVars
  <2> SUFFICES ASSUME NEW d \in Clients \ dead PROVE OnePlace(d)'
    BY <2>1 DEF VisitInOnePlace
  <2>2. Visiting(d)' <=> Visiting(d)
    BY <2>1 DEF Visiting
  <2>3. /\ InChair = NoPid /\ d # NoPid
        /\ IF IsEmpty(m_queue)
           THEN Room' = Room /\ InChair' = NoPid
           ELSE Room # << >> /\ Room' = Tail(Room) /\ InChair' = Head(Room)
    BY <1>2, PopEffect, RoomType
  <2>4. CASE IsEmpty(m_queue)
    BY <1>0, <2>1, <2>2, <2>3, <2>4 DEF OnePlace, Once, In
  <2>5. CASE ~IsEmpty(m_queue)
    <3>1. /\ In(Room, d) <=> In(Tail(Room), d) \/ Head(Room) = d
          /\ Once(Room, d) => Once(Tail(Room), d) /\ ~(In(Tail(Room), d) /\ Head(Room) = d)
      BY <2>3, <2>5, RoomType, TailPlaces
    <3>2. /\ In(Room, d)' <=> In(Tail(Room), d)
          /\ Once(Room, d)' <=> Once(Tail(Room), d)
      BY <2>3, <2>5 DEF In, Once
    <3> QED
      BY <1>0, <2>1, <2>2, <2>3, <2>5, <3>1, <3>2 DEF OnePlace
  <2> QED
    BY <2>4, <2>5
<1>3. ASSUME NEW from \in {"cut_waker", "cut_next"}, Cut(from)
      PROVE  VisitInOnePlace'
  <2>1. UNCHANGED <<cpc, res, dead>> /\ Signal(tmp_client_pid)
    BY <1>3 DEF Cut
  <2> SUFFICES ASSUME NEW d \in Clients \ dead PROVE OnePlace(d)'
    BY <2>1 DEF VisitInOnePlace
  <2>2. /\ InChair = tmp_client_pid /\ InChair' = NoPid /\ Room' = Room /\ d # NoPid
    BY <1>3, CutEffect, RoomType
  <2>3. /\ Visiting(d)' <=> Visiting(d)
        /\ In(Room, d)' <=> In(Room, d)
        /\ Once(Room, d)' <=> Once(Room, d)
    BY <2>1, <2>2 DEF Visiting, In, Once
  <2>4. pending'[d] = IF d = InChair THEN pending[d] + 1 ELSE pending[d]
    BY <2>1, <2>2 DEF Signal
  <2> QED
    BY <1>0, <2>2, <2>3, <2>4 DEF OnePlace
<1>4. ASSUME NEW c \in Clients, ClientNext(c)
      PROVE  VisitInOnePlace'
  <2>1. /\ c \notin dead /\ UNCHANGED dead
        /\ \A d \in Clients \ {c} : Visiting(d)' <=> Visiting(d)
    BY <1>4, ClientEffect
  <2> SUFFICES ASSUME NEW d \in Clients \ dead PROVE OnePlace(d)'
    BY <2>1 DEF VisitInOnePlace
  <2>2. c \in Pids /\ d \in Pids /\ d # NoPid
    BY RoomType DEF Pids
  <2>3. CASE Sit(c)
    <3>1. /\ ~Visiting(c) /\ Visiting(c)' /\ UNCHANGED pending
      BY <1>0, <2>3 DEF Sit, ClientStep, Visiting
    <3>2. Room' = Room /\ InChair = NoPid /\ InChair' = c
      BY <2>3, SitEffect
    <3>3. (In(Room, d)' <=> In(Room, d)) /\ (Once(Room, d)' <=> Once(Room, d))
      BY <3>2 DEF In, Once
    <3> QED
      BY <1>0, <2>1, <2>2, <3>1, <3>2, <3>3 DEF OnePlace
  <2>4. CASE PushSelf(c)
    <3>1. /\ ~Visiting(c) /\ UNCHANGED pending
          /\ Visiting(c)' <=> ~IsFull(m_queue)
      BY <1>0, <2>4 DEF PushSelf, ClientStep, Visiting
    <3>2. /\ InChair' = InChair
          /\ Room' = IF IsFull(m_queue) THEN Room ELSE Append(Room, c)
      BY <2>4, PushEffect
    <3>3. CASE IsFull(m_queue)
      <4>1. (In(Room, d)' <=> In(Room, d)) /\ (Once(Room, d)' <=> Once(Room, d))
        BY <3>2, <3>3 DEF In, Once
      <4> QED
        BY <1>0, <2>1, <3>1, <3>2, <3>3, <4>1 DEF OnePlace
    <3>4. CASE ~IsFull(m_queue)
      <4>1. /\ In(Append(Room, c), d) <=> In(Room, d) \/ c = d
            /\ Once(Room, d) /\ ~(In(Room, d) /\ c = d) => Once(Append(Room, c), d)
        BY <2>2, RoomType, AppendPlaces
      <4>2. /\ In(Room, d)' <=> In(Append(Room, c), d)
            /\ Once(Room, d)' <=> Once(Append(Room, c), d)
        BY <3>2, <3>4 DEF In, Once
      <4>3. ~In(Room, c) /\ InChair # c /\ pending[c] # 1
        BY <1>0, <2>1, <3>1 DEF OnePlace
      <4> QED
        BY <1>0, <2>1, <3>1, <3>2, <3>4, <4>1, <4>2, <4>3 DEF OnePlace
    <3> QED
      BY <3>3, <3>4
  <2>5. CASE Quiet /\ Suspend(c)
    <3>1. /\ Visiting(c) /\ ~Visiting(c)'
          /\ pending[c] = 1 /\ pending'[c] = 0
          /\ c # d => pending'[d] = pending[d]
      BY <1>0, <2>1, <2>5 DEF Suspend, ClientStep, Visiting, OnePlace
    <3>2. CASE d = c
      BY <1>0, <2>5, <3>1, <3>2 DEF OnePlace, Quiet, In, Once
    <3>3. CASE d # c
      BY <1>1, <2>1, <2>5, <3>1, <3>3
    <3> QED
      BY <3>2, <3>3
  <2>6. CASE Quiet /\ (Visiting(c)' <=> Visiting(c)) /\ UNCHANGED pending
    BY <1>1, <2>1, <2>6
  <2> QED
    BY <1>4, <2>3, <2>4, <2>5, <2>6, ClientEffect
<1>5. CASE Quiet /\ UNCHANGED <<cpc, res, pending, dead>>
  BY <1>1, <1>5 DEF VisitInOnePlace, Visiting
<1>6. CASE ParentNext \/ Interrupt \/ UNCHANGED vars
  BY <1>1, <1>6, OtherEffect DEF VisitInOnePlace
<1> QED
  BY <1>2, <1>3, <1>4, <1>5, <1>6, BarberEffect DEF Next, Closed

\* Nobody is anywhere before the clients come.
LEMMA VisitInit == Init => VisitInOnePlace
<1> SUFFICES ASSUME Init, NEW c \in Clients PROVE OnePlace(c)
  BY DEF VisitInOnePlace
<1>1. Length(m_queue) = 0 /\ m_queue \in Queues
  BY InitQueueType DEF Init, InitQueue, Length
<1>2. Len(Room) = 0
  BY <1>1, ContentsType DEF Room
<1>3. InChair = NoPid /\ c # NoPid
  BY NoPidAssumption DEF Init, InChair
<1> QED
  BY <1>2, <1>3 DEF Init, OnePlace, In, Once, Visiting

\* Every visiting client, and no other, is in one place, and once.
THEOREM VisitsInOnePlace == Spec => [](IInv /\ VisitInOnePlace)
<1>1. IInv /\ VisitInOnePlace /\ [Next]_vars => VisitInOnePlace'
  BY VisitStep
<1> QED
  BY <1>1, VisitInit, InductiveInvariant, PTL DEF Spec

\* Each visit gets exactly one haircut: no client is forgotten in the waiting
\* room, waits twice, or is cut twice.
THEOREM EveryVisitAccounted == Spec => []VisitAccounted
<1>1. IInv /\ VisitInOnePlace => VisitAccounted
  <2> SUFFICES ASSUME IInv, VisitInOnePlace, NEW c \in Clients \ dead
               PROVE  Ones(Visiting(c)) =
                        Cardinality({i \in 1 .. Length(m_queue) : Room[i] = c})
                        + Ones(InChair = c) + pending[c]
    BY DEF VisitAccounted, Room
  <2> DEFINE places == {i \in 1 .. Length(m_queue) : Room[i] = c}
  <2>1. OnePlace(c) /\ Len(Room) = Length(m_queue)
    BY RoomType DEF VisitInOnePlace
  <2>2. Cardinality(places) = Ones(In(Room, c))
    <3>1. CASE In(Room, c)
      <4>1. PICK i \in 1 .. Len(Room) : Room[i] = c
        BY <3>1 DEF In
      <4>2. places = {i}
        BY <2>1, <4>1 DEF OnePlace, Once
      <4> QED
        BY <3>1, <4>2, FS_Singleton DEF Ones
    <3>2. CASE ~In(Room, c)
      <4>1. places = {}
        BY <2>1, <3>2 DEF In
      <4> QED
        BY <3>2, <4>1, FS_EmptySet DEF Ones
    <3> QED
      BY <3>1, <3>2
  <2> HIDE DEF places
  <2>3. Ones(Visiting(c)) = Ones(In(Room, c)) + Ones(InChair = c) + pending[c]
    BY <2>1 DEF OnePlace, Ones
  <2> QED
    BY <2>2, <2>3 DEF places
<1> QED
  BY <1>1, VisitsInOnePlace, PTL

(***************************************************************************)
(* The shop of the description                                             *)
(***************************************************************************)
\* Only those who may get SIGINT exit early.
THEOREM OnlyInterruptibleDie == Spec => [](dead \cap Clients \subseteq Interruptible)
<1> DEFINE Inv == dead \cap Clients \subseteq Interruptible
<1>1. Init => Inv
  BY DEF Init
<1>2. Inv /\ [Next]_vars => Inv'
  <2> SUFFICES ASSUME Inv, [Next]_vars PROVE Inv'
    OBVIOUS
  <2>1. CASE UNCHANGED dead
    BY <2>1
  <2>2. CASE Interrupt
    BY <2>2, ClientsAssumption DEF Interrupt, InterruptClient, BarberQuits
  <2>3. CASE BarberNext
    BY <2>1, <2>3
    DEF BarberNext, Sleep, StayAwake, Admit, Take, ReadChair, Taken, Cut, LockQueue, PopNext,
        UnlockAfterPop, Doze, UnlockAsleep
  <2>4. ASSUME NEW c \in Clients, ClientNext(c) PROVE Inv'
    BY <2>1, <2>4
    DEF ClientNext, LockCheck, ClientLockQueue, Look, Wake, BeAdmitted, Sit, PushSelf,
        ClientUnlockQueue, UnlockCheck, Suspend, Finish
  <2>5. CASE ParentNext
    BY <2>1, <2>5 DEF ParentNext, AllForked, ParentExit, Fork
  <2>6. CASE UNCHANGED vars
    BY <2>1, <2>6 DEF vars
  <2> QED
    BY <2>2, <2>3, <2>4, <2>5, <2>6 DEF Next, Closed
<1> QED
  BY <1>1, <1>2, PTL DEF Spec

CutsGiven == [c \in Clients |-> cuts_already[c] + pending[c]]

\* If no client is interrupted, and whether the barber quits or not, the shop
\* works as its description says: woken by the first, he takes the others in
\* the order in which they found a place.
THEOREM Refinement ==
  ASSUME Interruptible = {}
  PROVE  Spec => ImplementsSleepingBarber
<1> DEFINE Inv == IInv /\ VisitInOnePlace /\ dead \cap Clients \subseteq Interruptible
<1>1. Init => Shop!Init
  <2> SUFFICES ASSUME Init PROVE Shop!Init
    OBVIOUS
  <2>1. Contents(m_queue) = << >>
    BY DEF Init, InitQueue, Length, Contents
  <2> QED
    BY <2>1 DEF Init, Shop!Init, InChair, Asleep
<1>2. Inv /\ [Next]_vars => [Shop!Next]_<<Room, InChair, Asleep, CutsGiven>>
  <2> SUFFICES ASSUME Inv, [Next]_vars
               PROVE  Shop!Next \/ UNCHANGED <<Room, InChair, Asleep, CutsGiven>>
    OBVIOUS
  <2>0. /\ dead \cap Clients = {}
        /\ pending \in [Clients -> Nat] /\ cuts_already \in [Clients -> Nat]
    BY DEF IInv, TypeOK
  <2> DEFINE SleepsOn == Asleep' = Asleep
  <2>10. (Asleep' <=> Asleep) => SleepsOn
    BY DEF Asleep
  <2>1. CASE Quiet /\ UNCHANGED <<pending, cuts_already>>
    BY <2>1, <2>10 DEF Quiet, CutsGiven
  <2>2. CASE PopNext
    <3>1. UNCHANGED CutsGiven
      BY <2>2 DEF PopNext, clientVars, CutsGiven
    <3>2. CASE IsEmpty(m_queue)
      <4>1. Shop!FallAsleep
        BY <2>2, <3>1, <3>2, PopEffect DEF Shop!FallAsleep, Room, CutsGiven
      <4> QED
        BY <4>1 DEF Shop!Next
    <3>3. CASE ~IsEmpty(m_queue)
      <4>1. Shop!InviteNext
        BY <2>2, <2>10, <3>1, <3>3, PopEffect DEF Shop!InviteNext, Room, CutsGiven
      <4> QED
        BY <4>1 DEF Shop!Next
    <3> QED
      BY <3>2, <3>3
  <2>3. ASSUME NEW from \in {"cut_waker", "cut_next"}, Cut(from) PROVE Shop!FinishCut
    <3>1. /\ InChair = tmp_client_pid /\ InChair \in Clients /\ InChair' = NoPid
          /\ Room' = Room /\ ~Asleep /\ ~Asleep'
      BY <2>3, CutEffect
    <3>2. \A c \in Clients :
            pending'[c] = IF c = InChair THEN pending[c] + 1 ELSE pending[c]
      BY <2>0, <2>3, <3>1 DEF Cut, Signal
    <3>3. UNCHANGED cuts_already
      BY <2>3 DEF Cut
    <3>4. CutsGiven' = [CutsGiven EXCEPT ![InChair] = @ + 1]
      <4> DEFINE ch == InChair
      <4>1. \A c \in Clients : cuts_already'[c] + pending'[c] =
                                IF c = ch THEN cuts_already[c] + pending[c] + 1
                                ELSE cuts_already[c] + pending[c]
        BY <2>0, <3>2, <3>3
      <4> HIDE DEF ch
      <4> QED
        BY <4>1 DEF CutsGiven, ch
    <3> QED
      BY <2>10, <3>1, <3>4, NoPidAssumption DEF Shop!FinishCut, Room, CutsGiven
  <2>4. ASSUME NEW c \in Clients, Sit(c) PROVE Shop!WakeBarber(c)
    <3>1. UNCHANGED CutsGiven
      BY <2>4 DEF Sit, CutsGiven
    <3> QED
      BY <2>4, <3>1, SitEffect DEF Shop!WakeBarber, Room, CutsGiven
  <2>5. ASSUME NEW c \in Clients, PushSelf(c)
        PROVE  Shop!TakePlace(c) \/ UNCHANGED <<Room, InChair, Asleep, CutsGiven>>
    <3>1. UNCHANGED CutsGiven
      BY <2>5 DEF PushSelf, CutsGiven
    <3>2. /\ ~Asleep /\ ~Asleep' /\ InChair' = InChair
          /\ Room' = IF IsFull(m_queue) THEN Room ELSE Append(Room, c)
      BY <2>5, PushEffect
    <3>3. CASE IsFull(m_queue)
      BY <2>10, <3>1, <3>2, <3>3
    <3>4. CASE ~IsFull(m_queue)
      <4>1. Len(Room) < MaxChairs
        BY <3>4, RoomType, MaxChairsAssumption
      <4>2. ~Visiting(c) /\ c \notin dead
        BY <2>5 DEF PushSelf, ClientStep, Visiting
      <4>3. ~(In(Room, c) \/ InChair = c)
        BY <4>2 DEF VisitInOnePlace, OnePlace
      <4>4. ~Shop!Present(c)
        BY <4>3 DEF Shop!Present, In, Room
      <4> QED
        BY <2>10, <3>1, <3>2, <3>4, <4>1, <4>4 DEF Shop!TakePlace, Room, CutsGiven
    <3> QED
      BY <3>3, <3>4
  <2>6. ASSUME NEW c \in Clients, Quiet, Suspend(c)
        PROVE  UNCHANGED <<Room, InChair, Asleep, CutsGiven>>
    <3>1. \A d \in Clients : cuts_already'[d] + pending'[d] = cuts_already[d] + pending[d]
      BY <2>0, <2>6 DEF Suspend
    <3> QED
      BY <2>6, <2>10, <3>1 DEF Quiet, CutsGiven
  <2>7. ASSUME NEW c \in Clients, ClientNext(c)
        PROVE  Shop!Next \/ UNCHANGED <<Room, InChair, Asleep, CutsGiven>>
    BY <2>1, <2>4, <2>5, <2>6, <2>7, ClientEffect DEF Shop!Next
  <2>8. CASE BarberNext
    BY <2>1, <2>2, <2>3, <2>8, BarberEffect DEF Shop!Next
  <2>9. CASE ParentNext \/ Interrupt \/ UNCHANGED vars
    BY <2>1, <2>9, OtherEffect
  <2> QED
    BY <2>7, <2>8, <2>9 DEF Next, Closed
<1>3. Spec => []Inv
  BY VisitsInOnePlace, OnlyInterruptibleDie, PTL
<1> QED
  BY <1>1, <1>2, <1>3, PTL
  DEF Spec, ImplementsSleepingBarber, Shop!Spec, Shop!shop, Room, CutsGiven
==============================================================================
