------------------------------ MODULE BarberShop ------------------------------
(***************************************************************************)
(* The sleeping barber of cw07/zad2: barber.c and clients.c, processes     *)
(* that share my_queue (shm_open "/shm") and four named POSIX semaphores.  *)
(*                                                                         *)
(* A step is one semaphore call, one signal call, or the accesses to       *)
(* shared memory between two of them.  A program counter names the call    *)
(* the process makes next.                                                 *)
(*                                                                         *)
(* SIGINT (the only way to stop the barber) runs exit(2) in a handler      *)
(* wherever it arrives: the process stops and what it did to semaphores    *)
(* and memory stays.  Interruptible and BarberMayQuit say who may get one. *)
(***************************************************************************)
EXTENDS MyQueue, FiniteSets

CONSTANTS
  Cuts,          \* number_of_cuts, the haircuts each client comes for
  Interruptible, \* the clients that may get SIGINT
  BarberMayQuit  \* whether the barber may get SIGINT

Barber == "barber"

ASSUME CutsAssumption == Cuts \in Nat \ {0}
ASSUME ClientsAssumption == IsFiniteSet(Clients) /\ Barber \notin Clients
ASSUME InterruptAssumption ==
  Interruptible \subseteq Clients /\ BarberMayQuit \in BOOLEAN

VARIABLES
  sem,            \* the values of "/barber", "/queue", "/check" and "/wait"
  m_queue,        \* the shared ring buffer and the chair in it
  bpc,            \* the barber: the call he makes next
  tmp_client_pid, \* the barber: the client he is to cut
  cpc,            \* each client: the call it makes next
  res,            \* each client: what enter_barber_shop returned
  cuts_already,   \* each client: SIGRTMINs its handler has counted
  pending,        \* each client: SIGRTMINs sent and not yet delivered
  parent,         \* the process that forks the clients and waits for them
  dead            \* the processes that exited in sigint_hr

vars == <<sem, m_queue, bpc, tmp_client_pid, cpc, res, cuts_already, pending,
          parent, dead>>
barberVars == <<bpc, tmp_client_pid>>
clientVars == <<cpc, res, cuts_already, pending>>

Semaphores == {"barber", "queue", "check", "wait"}

BarberCalls == {"sleep", "stay_awake", "admit", "take", "read_chair", "taken",
                "cut_waker", "lock_queue", "pop", "popped", "cut_next",
                "doze", "dozed"}

ClientCalls == {"unborn", "lock_check", "lock_queue", "look", "wake", "be_admitted",
                "sit", "push", "unlock_queue", "unlock_check", "suspend", "done"}

Init ==
  /\ sem = [barber |-> 0, queue |-> 1, check |-> 1, wait |-> 0]
  /\ m_queue = InitQueue
  /\ bpc = "sleep"
  /\ tmp_client_pid = NoPid
  /\ cpc = [c \in Clients |-> "unborn"]
  /\ res = [c \in Clients |-> 0]
  /\ cuts_already = [c \in Clients |-> 0]
  /\ pending = [c \in Clients |-> 0]
  /\ parent = "forking"
  /\ dead = {}

Wait(s) == sem[s] > 0 /\ sem' = [sem EXCEPT ![s] = @ - 1]

Post(s) == sem' = [sem EXCEPT ![s] = @ + 1]

(***************************************************************************)
(* The barber: work(), with take_client_from_queue() and cut() in line.    *)
(***************************************************************************)
BarberStep(from, to) == Barber \notin dead /\ bpc = from /\ bpc' = to

\* The outer sem_wait: the barber sleeps here until a client wakes him.
Sleep ==
  /\ BarberStep("sleep", "stay_awake")
  /\ Wait("barber")
  /\ UNCHANGED <<m_queue, tmp_client_pid, clientVars, parent, dead>>

\* Mutant of StayAwake: the count is not put back.
StayAwakeForgotten ==
  /\ BarberStep("stay_awake", "admit")
  /\ UNCHANGED <<sem, m_queue, tmp_client_pid, clientVars, parent, dead>>

\* He puts the count back: a value of 1 tells clients that he is awake.
StayAwake ==
  /\ BarberStep("stay_awake", "admit")
  /\ Post("barber")
  /\ UNCHANGED <<m_queue, tmp_client_pid, clientVars, parent, dead>>

Admit ==
  /\ BarberStep("admit", "take")
  /\ Post("wait")
  /\ UNCHANGED <<m_queue, tmp_client_pid, clientVars, parent, dead>>

\* Mutant of Take: the chair is read without the queue semaphore.
TakeWithoutLock ==
  /\ BarberStep("take", "read_chair")
  /\ UNCHANGED <<sem, m_queue, tmp_client_pid, clientVars, parent, dead>>

\* take_client_from_queue: the waker, whose pid is in the chair.
Take ==
  /\ BarberStep("take", "read_chair")
  /\ Wait("queue")
  /\ UNCHANGED <<m_queue, tmp_client_pid, clientVars, parent, dead>>

ReadChair ==
  /\ BarberStep("read_chair", "taken")
  /\ tmp_client_pid' = m_queue.chair
  /\ UNCHANGED <<sem, m_queue, clientVars, parent, dead>>

Taken ==
  /\ BarberStep("taken", "cut_waker")
  /\ Post("queue")
  /\ UNCHANGED <<m_queue, tmp_client_pid, clientVars, parent, dead>>

\* Mutant of Signal: a signal that is not queued while one is pending, sent to
\* a client that has not reached sigsuspend, is lost.
SignalIfSuspended(pid) ==
  pending' = [c \in Clients |->
                IF c = pid /\ c \notin dead /\ cpc[c] = "suspend"
                THEN pending[c] + 1 ELSE pending[c]]

\* kill(pid, SIGRTMIN): a real-time signal, so each one sent is delivered.  A
\* process that has exited gets nothing and the result is not looked at.
Signal(pid) ==
  pending' = [c \in Clients |->
                IF c = pid /\ c \notin dead THEN pending[c] + 1 ELSE pending[c]]

\* Mutant of Cut: the barber stops over a client who has exited.
CutTheLiving(from) ==
  /\ tmp_client_pid \notin dead
  /\ BarberStep(from, "lock_queue")
  /\ Signal(tmp_client_pid)
  /\ UNCHANGED <<sem, m_queue, tmp_client_pid, cpc, res, cuts_already, parent, dead>>

Cut(from) ==
  /\ BarberStep(from, "lock_queue")
  /\ Signal(tmp_client_pid)
  /\ UNCHANGED <<sem, m_queue, tmp_client_pid, cpc, res, cuts_already, parent, dead>>

LockQueue ==
  /\ BarberStep("lock_queue", "pop")
  /\ Wait("queue")
  /\ UNCHANGED <<m_queue, tmp_client_pid, clientVars, parent, dead>>

\* Mutant of PopNext: an empty queue is unlocked before the barber dozes off.
PopNextReleasing ==
  /\ BarberStep("pop", IF IsEmpty(m_queue) THEN "doze" ELSE "popped")
  /\ tmp_client_pid' = Popped(m_queue)
  /\ m_queue' = Pop(m_queue)
  /\ IF IsEmpty(m_queue) THEN Post("queue") ELSE UNCHANGED sem
  /\ UNCHANGED <<clientVars, parent, dead>>

\* With nobody waiting he keeps the queue locked: no client can look at the
\* barber semaphore until he has dozed off.
PopNext ==
  /\ BarberStep("pop", IF IsEmpty(m_queue) THEN "doze" ELSE "popped")
  /\ tmp_client_pid' = Popped(m_queue)
  /\ m_queue' = Pop(m_queue)
  /\ UNCHANGED <<sem, clientVars, parent, dead>>

UnlockAfterPop ==
  /\ BarberStep("popped", "cut_next")
  /\ Post("queue")
  /\ UNCHANGED <<m_queue, tmp_client_pid, clientVars, parent, dead>>

Doze ==
  /\ BarberStep("doze", "dozed")
  /\ Wait("barber")
  /\ UNCHANGED <<m_queue, tmp_client_pid, clientVars, parent, dead>>

\* Mutant of UnlockAsleep: the barber falls asleep holding the queue.
AsleepHoldingQueue ==
  /\ BarberStep("dozed", "sleep")
  /\ UNCHANGED <<sem, m_queue, tmp_client_pid, clientVars, parent, dead>>

UnlockAsleep ==
  /\ BarberStep("dozed", "sleep")
  /\ Post("queue")
  /\ UNCHANGED <<m_queue, tmp_client_pid, clientVars, parent, dead>>

BarberNext ==
  \/ Sleep \/ StayAwake \/ Admit
  \/ Take \/ ReadChair \/ Taken \/ Cut("cut_waker")
  \/ LockQueue \/ PopNext \/ UnlockAfterPop \/ Cut("cut_next")
  \/ Doze \/ UnlockAsleep

(***************************************************************************)
(* A client: get_cut(), with enter_barber_shop() in line.  SIGRTMIN is     *)
(* blocked except inside sigsuspend.                                       *)
(***************************************************************************)
ClientStep(c, from, to) ==
  c \notin dead /\ cpc[c] = from /\ cpc' = [cpc EXCEPT ![c] = to]

LockCheck(c) ==
  /\ ClientStep(c, "lock_check", "lock_queue")
  /\ cuts_already[c] < Cuts
  /\ Wait("check")
  /\ UNCHANGED <<m_queue, barberVars, res, cuts_already, pending, parent, dead>>

ClientLockQueue(c) ==
  /\ ClientStep(c, "lock_queue", "look")
  /\ Wait("queue")
  /\ UNCHANGED <<m_queue, barberVars, res, cuts_already, pending, parent, dead>>

\* sem_getvalue(barber_semaphore): 0 means that the barber sleeps.
Look(c) ==
  /\ ClientStep(c, "look", IF sem["barber"] = 0 THEN "wake" ELSE "push")
  /\ UNCHANGED <<sem, m_queue, barberVars, res, cuts_already, pending, parent, dead>>

Wake(c) ==
  /\ ClientStep(c, "wake", "be_admitted")
  /\ Post("barber")
  /\ UNCHANGED <<m_queue, barberVars, res, cuts_already, pending, parent, dead>>

BeAdmitted(c) ==
  /\ ClientStep(c, "be_admitted", "sit")
  /\ Wait("wait")
  /\ UNCHANGED <<m_queue, barberVars, res, cuts_already, pending, parent, dead>>

Sit(c) ==
  /\ ClientStep(c, "sit", "unlock_queue")
  /\ m_queue' = [m_queue EXCEPT !.chair = c]
  /\ res' = [res EXCEPT ![c] = 1]
  /\ UNCHANGED <<sem, barberVars, cuts_already, pending, parent, dead>>

\* Mutant of PushSelf: the client who finds no place unlocks the queue at once,
\* and get_cut unlocks it again.
PushSelfReleasing(c) ==
  /\ ClientStep(c, "push", "unlock_queue")
  /\ res' = [res EXCEPT ![c] = IF IsFull(m_queue) THEN -1 ELSE 0]
  /\ m_queue' = Push(m_queue, c)
  /\ IF IsFull(m_queue) THEN Post("queue") ELSE UNCHANGED sem
  /\ UNCHANGED <<barberVars, cuts_already, pending, parent, dead>>

\* res = -1: no free place, the client leaves the shop and comes again.
PushSelf(c) ==
  /\ ClientStep(c, "push", "unlock_queue")
  /\ res' = [res EXCEPT ![c] = IF IsFull(m_queue) THEN -1 ELSE 0]
  /\ m_queue' = Push(m_queue, c)
  /\ UNCHANGED <<sem, barberVars, cuts_already, pending, parent, dead>>

ClientUnlockQueue(c) ==
  /\ ClientStep(c, "unlock_queue", "unlock_check")
  /\ Post("queue")
  /\ UNCHANGED <<m_queue, barberVars, res, cuts_already, pending, parent, dead>>

\* Mutant of UnlockCheck: only the client who woke the barber waits for its cut.
UnlockCheckWakerWaits(c) ==
  /\ ClientStep(c, "unlock_check", IF res[c] = 1 THEN "suspend" ELSE "lock_check")
  /\ Post("check")
  /\ UNCHANGED <<m_queue, barberVars, res, cuts_already, pending, parent, dead>>

UnlockCheck(c) ==
  /\ ClientStep(c, "unlock_check", IF res[c] # -1 THEN "suspend" ELSE "lock_check")
  /\ Post("check")
  /\ UNCHANGED <<m_queue, barberVars, res, cuts_already, pending, parent, dead>>

\* sigsuspend returns after one SIGRTMIN has been handled; it is the end of the
\* loop body, where the local res goes out of scope.
Suspend(c) ==
  /\ ClientStep(c, "suspend", "lock_check")
  /\ pending[c] > 0
  /\ pending' = [pending EXCEPT ![c] = @ - 1]
  /\ cuts_already' = [cuts_already EXCEPT ![c] = @ + 1]
  /\ res' = [res EXCEPT ![c] = 0]
  /\ UNCHANGED <<sem, m_queue, barberVars, parent, dead>>

Finish(c) ==
  /\ ClientStep(c, "lock_check", "done")
  /\ cuts_already[c] >= Cuts
  /\ UNCHANGED <<sem, m_queue, barberVars, res, cuts_already, pending, parent, dead>>

ClientNext(c) ==
  \/ LockCheck(c) \/ ClientLockQueue(c) \/ Look(c)
  \/ Wake(c) \/ BeAdmitted(c) \/ Sit(c) \/ PushSelf(c)
  \/ ClientUnlockQueue(c) \/ UnlockCheck(c) \/ Suspend(c) \/ Finish(c)

(***************************************************************************)
(* The parent forks every client, then reaps them until none is left.      *)
(***************************************************************************)
Fork(c) ==
  /\ parent = "forking"
  /\ ClientStep(c, "unborn", "lock_check")
  /\ UNCHANGED <<sem, m_queue, barberVars, res, cuts_already, pending, parent, dead>>

AllForked ==
  /\ parent = "forking"
  /\ \A c \in Clients : cpc[c] # "unborn"
  /\ parent' = "waiting"
  /\ UNCHANGED <<sem, m_queue, barberVars, clientVars, dead>>

Gone(c) == cpc[c] = "done" \/ c \in dead

ParentExit ==
  /\ parent = "waiting"
  /\ \A c \in Clients : Gone(c)
  /\ parent' = "exited"
  /\ UNCHANGED <<sem, m_queue, barberVars, clientVars, dead>>

ParentNext == AllForked \/ ParentExit \/ \E c \in Clients : Fork(c)

(***************************************************************************)
(* SIGINT                                                                  *)
(***************************************************************************)
InterruptClient(c) ==
  /\ c \in Interruptible \ dead
  /\ cpc[c] \notin {"unborn", "done"}
  /\ dead' = dead \cup {c}
  /\ UNCHANGED <<sem, m_queue, barberVars, clientVars, parent>>

\* detach_and_delete unlinks the names only: processes that opened the
\* semaphores go on using them.
BarberQuits ==
  /\ BarberMayQuit
  /\ Barber \notin dead
  /\ dead' = dead \cup {Barber}
  /\ UNCHANGED <<sem, m_queue, barberVars, clientVars, parent>>

Interrupt == BarberQuits \/ \E c \in Clients : InterruptClient(c)

\* The clients have gone and the barber sleeps on, or has quit.
Closed ==
  /\ parent = "exited"
  /\ Barber \in dead \/ (bpc = "sleep" /\ sem["barber"] = 0)
  /\ UNCHANGED vars

Next ==
  \/ BarberNext
  \/ \E c \in Clients : ClientNext(c)
  \/ ParentNext
  \/ Interrupt
  \/ Closed

Spec == Init /\ [][Next]_vars

(***************************************************************************)
(* Fairness.  A process that can run is run.  A post wakes one of the      *)
(* processes blocked in sem_wait: none of them is passed over for ever.    *)
(***************************************************************************)
Fairness ==
  /\ WF_vars(BarberNext) /\ SF_vars(Take) /\ SF_vars(LockQueue)
  /\ WF_vars(ParentNext)
  /\ \A c \in Clients : /\ WF_vars(ClientNext(c))
                        /\ SF_vars(LockCheck(c))
                        /\ SF_vars(ClientLockQueue(c))

FairSpec == Spec /\ Fairness

(***************************************************************************)
(* Properties                                                              *)
(***************************************************************************)
TypeOK ==
  /\ sem \in [Semaphores -> Nat]
  /\ m_queue \in Queues
  /\ bpc \in BarberCalls
  /\ tmp_client_pid \in Pids
  /\ cpc \in [Clients -> ClientCalls]
  /\ res \in [Clients -> {-1, 0, 1}]
  /\ cuts_already \in [Clients -> Nat]
  /\ pending \in [Clients -> Nat]
  /\ parent \in {"forking", "waiting", "exited"}
  /\ dead \subseteq Clients \cup {Barber}

\* Who holds the queue: the barber in his three critical sections, a client
\* from its sem_wait to its sem_post.
BarberHoldsQueue == bpc \in {"read_chair", "taken", "pop", "popped", "doze", "dozed"}

ClientHoldsQueue(c) ==
  cpc[c] \in {"look", "wake", "be_admitted", "sit", "push", "unlock_queue"}

\* The ring buffer and the chair have one user at a time, interrupted
\* processes included: "/queue" is free exactly when nobody is in between its
\* sem_wait and its sem_post.
QueueExclusion ==
  /\ \A c, d \in Clients : ClientHoldsQueue(c) /\ ClientHoldsQueue(d) => c = d
  /\ \A c \in Clients : ~(ClientHoldsQueue(c) /\ BarberHoldsQueue)
  /\ (sem["queue"] = 1) <=> ~(BarberHoldsQueue \/ \E c \in Clients : ClientHoldsQueue(c))
  /\ sem["queue"] \in {0, 1}

\* The barber takes "/barber" a second time while he holds the queue.  If that
\* sem_wait could block, no client could ever wake him: it never does.
DozeNeverBlocks == bpc = "doze" => sem["barber"] = 1

\* When the barber goes to sleep, and as long as no client has woken him,
\* nobody is waiting (tresc.txt: he sleeps if the waiting room is empty).
SleepsOnlyWhenEmpty == bpc \in {"doze", "dozed", "sleep"} => Contents(m_queue) = << >>

\* The waker has sat down once it has left the critical section it woke him in.
Waking(c) == cpc[c] \in {"be_admitted", "sit"}

Asleep ==
  \/ bpc \in {"doze", "dozed", "sleep", "stay_awake", "admit"}
  \/ bpc \in {"take", "read_chair"} /\ \E c \in Clients : Waking(c)

InChair ==
  IF bpc \in {"taken", "cut_waker", "popped", "cut_next"} THEN tmp_client_pid
  ELSE IF bpc \in {"take", "read_chair"} /\ ~Asleep THEN m_queue.chair
  ELSE NoPid

\* A visit: from sitting down, or taking a place, to the cut.
Visiting(c) ==
  \/ cpc[c] \in {"unlock_queue", "unlock_check"} /\ res[c] # -1
  \/ cpc[c] = "suspend"

Ones(P) == IF P THEN 1 ELSE 0

\* Each visit gets exactly one haircut.  A visiting client is in the waiting
\* room, or in the chair, or has its SIGRTMIN pending, in one place and one
\* only; a client that is not visiting is in none.
VisitAccounted ==
  \A c \in Clients \ dead :
    Ones(Visiting(c)) =
      Cardinality({i \in 1 .. Length(m_queue) : Contents(m_queue)[i] = c})
      + Ones(InChair = c) + pending[c]

\* The barber cuts clients only: the 0 my_queue_init leaves in chair and the -1
\* of an empty queue never reach kill(), where they mean a group of processes.
CutsClientsOnly == bpc \in {"cut_waker", "cut_next"} => tmp_client_pid \in Clients

\* The shop works as its description says, first come first served.
Shop == INSTANCE SleepingBarber WITH
          waiting <- Contents(m_queue),
          inChair <- InChair,
          asleep <- Asleep,
          cuts <- [c \in Clients |-> cuts_already[c] + pending[c]]

ImplementsSleepingBarber == Shop!Spec

(***************************************************************************)
(* The inductive invariant behind the safety properties: where the waking  *)
(* client can be, and what "/barber" and "/wait" are, at each of the       *)
(* barber's calls.                                                         *)
(***************************************************************************)
SomeAt(calls) == \E c \in Clients : cpc[c] \in calls
NoneAt(calls) == \A c \in Clients : cpc[c] \notin calls

\* One client at a time is between looking at the barber and unlocking the
\* queue, and the barber is then outside his critical sections.
Handshake ==
  /\ bpc = "sleep" =>
       /\ sem["wait"] = 0
       /\ sem["barber"] \in {0, 1}
       /\ sem["barber"] = 1 <=> SomeAt({"be_admitted"})
       /\ NoneAt({"sit", "push"})
  /\ bpc = "stay_awake" => sem["wait"] = 0 /\ sem["barber"] = 0 /\ SomeAt({"be_admitted"})
  /\ bpc = "admit" => sem["wait"] = 0 /\ sem["barber"] = 1 /\ SomeAt({"be_admitted"})
  /\ bpc = "take" =>
       /\ sem["wait"] \in {0, 1}
       /\ sem["barber"] = 1
       /\ sem["wait"] = 1 <=> SomeAt({"be_admitted"})
       /\ NoneAt({"wake"})
  /\ bpc \notin {"sleep", "stay_awake", "admit", "take"} =>
       /\ sem["wait"] = 0
       /\ sem["barber"] = IF bpc = "dozed" THEN 0 ELSE 1
       /\ NoneAt({"wake", "be_admitted", "sit"})

EmptyWhenAsleep ==
  bpc \in {"doze", "dozed", "sleep", "stay_awake", "admit"} => IsEmpty(m_queue)

OnlyClientsWait ==
  \A i \in 1 .. Length(m_queue) : Contents(m_queue)[i] \in Clients

ChairIsClient ==
  /\ bpc = "take" => m_queue.chair \in Clients \/ SomeAt({"be_admitted", "sit"})
  /\ bpc = "read_chair" => m_queue.chair \in Clients
  /\ bpc \in {"taken", "cut_waker", "popped", "cut_next"} => tmp_client_pid \in Clients

IInv ==
  /\ TypeOK
  /\ QueueExclusion
  /\ Handshake
  /\ EmptyWhenAsleep
  /\ OnlyClientsWait
  /\ ChairIsClient

\* Unless somebody is interrupted every client gets all its haircuts and
\* leaves, and the parent then exits.
AllServed ==
  <>(dead # {} \/ (parent = "exited" /\ \A c \in Clients : cuts_already[c] = Cuts))

\* tresc.txt: "Synchronizacja procesow musi wykluczac zakleszczenia" (the
\* synchronization has to exclude deadlocks).  A client nobody interrupts, in a
\* shop whose barber does not quit, comes to its end.
OthersServed ==
  \A c \in Clients \ Interruptible : <>(cpc[c] = "done")

HoldsCheck(c) ==
  cpc[c] \in {"lock_queue", "look", "wake", "be_admitted", "sit", "push",
              "unlock_queue", "unlock_check"}

\* An interrupted client holds the others up only if it was between taking and
\* releasing "/check".  One that exits in the waiting room or in the chair is
\* cut like any other, its signal going nowhere, and the others are served.
OnlyLockHoldersHarm ==
  \A c \in Clients \ Interruptible :
    <>(cpc[c] = "done" \/ Barber \in dead \/ \E d \in dead \cap Clients : HoldsCheck(d))
==============================================================================
