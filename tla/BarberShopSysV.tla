---------------------------- MODULE BarberShopSysV ----------------------------
(***************************************************************************)
(* The sleeping barber of cw07/zad1: barber.c and clients.c over System V  *)
(* shared memory and one System V semaphore set (BARBER, QUEUE, CHECKER).  *)
(*                                                                         *)
(* It differs from cw07/zad2 (module BarberShop) in two ways.  There is no *)
(* fourth semaphore: the client that wakes the barber posts BARBER twice,  *)
(* once for him to take and once to mark him awake.  And the barber's exit *)
(* removes the semaphore set: every semop on it, blocked or to come, then  *)
(* fails and the caller exits in print_error.                              *)
(***************************************************************************)
EXTENDS MyQueue, FiniteSets

CONSTANTS
  Cuts,         \* number_of_cuts
  BarberMayQuit \* whether the barber may get SIGINT

ASSUME CutsAssumption == Cuts \in Nat \ {0}
ASSUME QuitAssumption == BarberMayQuit \in BOOLEAN

VARIABLES
  sem,                 \* the values of the semaphore set
  removed,             \* the set has been removed (IPC_RMID)
  queue_handler,       \* the shared ring buffer
  bpc, client_pid,     \* the barber: his next call, the client he is to cut
  cpc, res,            \* each client: its next call, what enter_barber_shop returned
  cuts_number_already, \* each client: SIGRTMINs its handler has counted
  pending,             \* each client: SIGRTMINs sent and not yet delivered
  parent               \* the process that forks the clients and waits for them

vars == <<sem, removed, queue_handler, bpc, client_pid, cpc, res,
          cuts_number_already, pending, parent>>
barberVars == <<bpc, client_pid>>
clientVars == <<cpc, res, cuts_number_already, pending>>
visitVars == <<res, cuts_number_already, pending>>

BarberCalls == {"sleep", "take", "read_chair", "taken", "cut_waker", "lock_queue",
                "pop", "popped", "cut_next", "doze", "dozed", "exited"}

ClientCalls == {"unborn", "lock_check", "lock_queue", "look", "wake", "mark_awake",
                "sit", "push", "unlock_queue", "unlock_check", "suspend",
                "done", "failed"}

\* semget and SETVAL in semaphores_init.
Init ==
  /\ sem = [BARBER |-> 0, QUEUE |-> 1, CHECKER |-> 1]
  /\ removed = FALSE
  /\ queue_handler = InitQueue
  /\ bpc = "sleep"
  /\ client_pid = NoPid
  /\ cpc = [c \in Clients |-> "unborn"]
  /\ res = [c \in Clients |-> 0]
  /\ cuts_number_already = [c \in Clients |-> 0]
  /\ pending = [c \in Clients |-> 0]
  /\ parent = "forking"

\* semop with sem_op -1 and +1 on a set that exists.
Down(s) == ~removed /\ sem[s] > 0 /\ sem' = [sem EXCEPT ![s] = @ - 1]
Up(s)   == ~removed /\ sem' = [sem EXCEPT ![s] = @ + 1]

(***************************************************************************)
(* The barber: work(), take_client_from_queue(), cut().                    *)
(***************************************************************************)
BarberStep(from, to) == bpc = from /\ bpc' = to

\* A step of the barber that is one semop.
BarberSem(from, op, to) ==
  /\ BarberStep(from, to)
  /\ op
  /\ UNCHANGED <<removed, queue_handler, client_pid, clientVars, parent>>

Sleep == BarberSem("sleep", Down("BARBER"), "take")

Take  == BarberSem("take", Down("QUEUE"), "read_chair")
Taken == BarberSem("taken", Up("QUEUE"), "cut_waker")

ReadChair ==
  /\ BarberStep("read_chair", "taken")
  /\ client_pid' = queue_handler.chair
  /\ UNCHANGED <<sem, removed, queue_handler, clientVars, parent>>

\* kill(pid, SIGRTMIN) is queued until the client unblocks it in sigsuspend.
Cut(from) ==
  /\ BarberStep(from, "lock_queue")
  /\ pending' = [c \in Clients |-> IF c = client_pid THEN pending[c] + 1 ELSE pending[c]]
  /\ UNCHANGED <<sem, removed, queue_handler, client_pid, cpc, res,
                 cuts_number_already, parent>>

LockQueue == BarberSem("lock_queue", Down("QUEUE"), "pop")

PopNext ==
  /\ BarberStep("pop", IF IsEmpty(queue_handler) THEN "doze" ELSE "popped")
  /\ client_pid' = Popped(queue_handler)
  /\ queue_handler' = Pop(queue_handler)
  /\ UNCHANGED <<sem, removed, clientVars, parent>>

UnlockAfterPop == BarberSem("popped", Up("QUEUE"), "cut_next")

\* Mutant of Doze: the barber gives up the queue before he has dozed off.
DozeUnlocked ==
  \/ BarberSem("doze", Down("BARBER") /\ sem["QUEUE"] = 1, "sleep")
  \/ BarberSem("doze", sem["QUEUE"] = 0 /\ Up("QUEUE"), "doze")

Doze         == BarberSem("doze", Down("BARBER"), "dozed")
UnlockAsleep == BarberSem("dozed", Up("QUEUE"), "sleep")

\* Mutant of BarberQuits: the semaphore set is left in place.
BarberQuitsLeavingSet ==
  /\ BarberMayQuit
  /\ bpc # "exited"
  /\ bpc' = "exited"
  /\ UNCHANGED <<sem, removed, queue_handler, client_pid, clientVars, parent>>

\* SIGINT: exit(2) runs detach_and_delete, which removes the semaphore set.
BarberQuits ==
  /\ BarberMayQuit
  /\ bpc # "exited"
  /\ bpc' = "exited"
  /\ removed' = TRUE
  /\ UNCHANGED <<sem, queue_handler, client_pid, clientVars, parent>>

BarberNext ==
  \/ Sleep \/ Take \/ ReadChair \/ Taken \/ Cut("cut_waker")
  \/ LockQueue \/ PopNext \/ UnlockAfterPop \/ Cut("cut_next")
  \/ Doze \/ UnlockAsleep

(***************************************************************************)
(* A client: get_cut() and enter_barber_shop().                            *)
(***************************************************************************)
ClientStep(c, from, to) == cpc[c] = from /\ cpc' = [cpc EXCEPT ![c] = to]

\* A step of a client that is one semop.
ClientSem(c, from, op, to) ==
  /\ ClientStep(c, from, to)
  /\ op
  /\ UNCHANGED <<removed, queue_handler, barberVars, visitVars, parent>>

LockCheck(c) ==
  /\ cuts_number_already[c] < Cuts
  /\ ClientSem(c, "lock_check", Down("CHECKER"), "lock_queue")

ClientLockQueue(c) == ClientSem(c, "lock_queue", Down("QUEUE"), "look")

\* semctl(GETVAL): 0 means that the barber sleeps.
Look(c) ==
  /\ ~removed
  /\ ClientStep(c, "look", IF sem["BARBER"] = 0 THEN "wake" ELSE "push")
  /\ UNCHANGED <<sem, removed, queue_handler, barberVars, visitVars, parent>>

\* Mutant of Wake: BARBER is posted once only.
WakeOnce(c) == ClientSem(c, "wake", Up("BARBER"), "sit")

Wake(c)      == ClientSem(c, "wake", Up("BARBER"), "mark_awake")
MarkAwake(c) == ClientSem(c, "mark_awake", Up("BARBER"), "sit")

Sit(c) ==
  /\ ClientStep(c, "sit", "unlock_queue")
  /\ queue_handler' = [queue_handler EXCEPT !.chair = c]
  /\ res' = [res EXCEPT ![c] = 1]
  /\ UNCHANGED <<sem, removed, barberVars, cuts_number_already, pending, parent>>

PushSelf(c) ==
  /\ ClientStep(c, "push", "unlock_queue")
  /\ res' = [res EXCEPT ![c] = IF IsFull(queue_handler) THEN -1 ELSE 0]
  /\ queue_handler' = Push(queue_handler, c)
  /\ UNCHANGED <<sem, removed, barberVars, cuts_number_already, pending, parent>>

ClientUnlockQueue(c) == ClientSem(c, "unlock_queue", Up("QUEUE"), "unlock_check")

\* Mutant of UnlockCheck: the client waits for a cut although it found no place.
UnlockCheckAndWait(c) == ClientSem(c, "unlock_check", Up("CHECKER"), "suspend")

UnlockCheck(c) ==
  ClientSem(c, "unlock_check", Up("CHECKER"),
            IF res[c] # -1 THEN "suspend" ELSE "lock_check")

Suspend(c) ==
  /\ ClientStep(c, "suspend", "lock_check")
  /\ pending[c] > 0
  /\ pending' = [pending EXCEPT ![c] = @ - 1]
  /\ cuts_number_already' = [cuts_number_already EXCEPT ![c] = @ + 1]
  /\ res' = [res EXCEPT ![c] = 0]
  /\ UNCHANGED <<sem, removed, queue_handler, barberVars, parent>>

Finish(c) ==
  /\ ClientStep(c, "lock_check", "done")
  /\ cuts_number_already[c] >= Cuts
  /\ UNCHANGED <<sem, removed, queue_handler, barberVars, visitVars, parent>>

\* semop or semctl on a removed set: print_error, exit(3).
SemCall(c) ==
  \/ cpc[c] = "lock_check" /\ cuts_number_already[c] < Cuts
  \/ cpc[c] \in {"lock_queue", "look", "wake", "mark_awake", "unlock_queue", "unlock_check"}

Fail(c) ==
  /\ removed
  /\ SemCall(c)
  /\ cpc' = [cpc EXCEPT ![c] = "failed"]
  /\ UNCHANGED <<sem, removed, queue_handler, barberVars, visitVars, parent>>

ClientNext(c) ==
  \/ LockCheck(c) \/ ClientLockQueue(c) \/ Look(c)
  \/ Wake(c) \/ MarkAwake(c) \/ Sit(c) \/ PushSelf(c)
  \/ ClientUnlockQueue(c) \/ UnlockCheck(c) \/ Suspend(c) \/ Finish(c)
  \/ Fail(c)

(***************************************************************************)
(* The parent.                                                             *)
(***************************************************************************)
Fork(c) ==
  /\ parent = "forking"
  /\ ClientStep(c, "unborn", "lock_check")
  /\ UNCHANGED <<sem, removed, queue_handler, barberVars, visitVars, parent>>

AllForked ==
  /\ parent = "forking"
  /\ \A c \in Clients : cpc[c] # "unborn"
  /\ parent' = "waiting"
  /\ UNCHANGED <<sem, removed, queue_handler, barberVars, clientVars>>

ParentExit ==
  /\ parent = "waiting"
  /\ \A c \in Clients : cpc[c] \in {"done", "failed"}
  /\ parent' = "exited"
  /\ UNCHANGED <<sem, removed, queue_handler, barberVars, clientVars>>

ParentNext == AllForked \/ ParentExit \/ \E c \in Clients : Fork(c)

\* The clients have gone and the barber sleeps on, or has quit.
Closed ==
  /\ parent = "exited"
  /\ bpc = "exited" \/ (bpc = "sleep" /\ sem["BARBER"] = 0)
  /\ UNCHANGED vars

Next ==
  \/ BarberNext
  \/ \E c \in Clients : ClientNext(c)
  \/ ParentNext
  \/ BarberQuits
  \/ Closed

Spec == Init /\ [][Next]_vars

\* Processes blocked in semop are woken in the order they came (semop(2)), so
\* none is passed over for ever.
Fairness ==
  /\ WF_vars(BarberNext) /\ SF_vars(Take) /\ SF_vars(LockQueue)
  /\ WF_vars(ParentNext)
  /\ \A c \in Clients : /\ WF_vars(ClientNext(c))
                        /\ SF_vars(LockCheck(c))
                        /\ SF_vars(ClientLockQueue(c))

FairSpec == Spec /\ Fairness

(***************************************************************************)
(* Properties                                                              *)
(***************************************************************************)
TypeOK ==
  /\ sem \in [{"BARBER", "QUEUE", "CHECKER"} -> Nat]
  /\ removed \in BOOLEAN
  /\ queue_handler \in Queues
  /\ bpc \in BarberCalls
  /\ client_pid \in Pids
  /\ cpc \in [Clients -> ClientCalls]
  /\ res \in [Clients -> {-1, 0, 1}]
  /\ cuts_number_already \in [Clients -> Nat]
  /\ pending \in [Clients -> Nat]
  /\ parent \in {"forking", "waiting", "exited"}

\* The barber's second semop on BARBER, made while he holds QUEUE, never
\* blocks: the waker's second post is always there for it.
DozeNeverBlocks == bpc = "doze" => sem["BARBER"] = 1

\* The barber is asleep until the client who woke him has sat down; that may be
\* before he has made his own semop on BARBER, which then stands at 2.
Waking == \E c \in Clients : cpc[c] \in {"mark_awake", "sit"}

WakerSeated ==
  /\ ~Waking
  /\ bpc \in {"take", "read_chair"} \/ (bpc = "sleep" /\ sem["BARBER"] = 2)

Asleep == bpc \in {"doze", "dozed", "sleep", "take", "read_chair"} /\ ~WakerSeated

InChair ==
  IF bpc \in {"taken", "cut_waker", "popped", "cut_next"} THEN client_pid
  ELSE IF WakerSeated THEN queue_handler.chair
  ELSE NoPid

\* While the barber sleeps nobody waits.
SleepsOnlyWhenEmpty == Asleep => Contents(queue_handler) = << >>

Visiting(c) ==
  \/ cpc[c] \in {"unlock_queue", "unlock_check"} /\ res[c] # -1
  \/ cpc[c] = "suspend"

Ones(P) == IF P THEN 1 ELSE 0

\* Until the barber quits, a visiting client is in the waiting room, or in the
\* chair, or has its SIGRTMIN pending, once; one that is not visiting is in none.
VisitAccounted ==
  ~removed => \A c \in Clients :
    Ones(Visiting(c)) =
      Cardinality({i \in 1 .. Length(queue_handler) : Contents(queue_handler)[i] = c})
      + Ones(InChair = c) + pending[c]

\* The double post does the work of zad2's wait semaphore: until the barber
\* quits, taking the semaphores with him, this is the same shop.
Shop == INSTANCE SleepingBarber WITH
          waiting <- Contents(queue_handler),
          inChair <- InChair,
          asleep <- Asleep,
          cuts <- [c \in Clients |-> cuts_number_already[c] + pending[c]]

ImplementsShopUntilQuit == Shop!Init /\ [][Shop!Next \/ removed']_(Shop!shop)

\* Unless the barber quits, every client gets all its haircuts and leaves.
AllServedOrQuit ==
  <>(removed \/ (parent = "exited" /\ \A c \in Clients : cuts_number_already[c] = Cuts))

\* A barber who quits takes the semaphores with him.  No client stays blocked
\* on one: each ends, or is in sigsuspend, which nobody will end any more.
QuitUnblocksClients ==
  \A c \in Clients : bpc = "exited" ~> cpc[c] \in {"done", "failed", "suspend"}
==============================================================================
