------------------------ MODULE PermissionSignals ------------------------
(* Children ask their parent for permission with signals (cw04/zad2, parent.c
   and child.c). Sleeps only delay: how long each step takes is open. *)
EXTENDS Naturals, Sequences

CONSTANTS Children,               \* pids: forks_number of them
          child_requests_number,  \* K
          None                    \* no pid

(* What the constants have to be. *)
RequestsAssumption == child_requests_number \in Nat \ {0} /\ None \notin Children

VARIABLES parent,     \* "forking", "counting", "allowing", "exited" or "killed"
          count_requests,
          requested_child_processes,
          rt7_handled,  \* the handler of SIGRTMIN+7 is installed
          i,            \* the handler's index
          child,        \* each child's place in its program
          usr1,         \* the sender of the pending SIGUSR1: it does not queue
          usr2,         \* usr2[c]: SIGUSR2 is pending for c
          rt7           \* SIGRTMIN+7 is pending for the parent

handlerVars == <<count_requests, requested_child_processes, rt7_handled, i>>
vars == <<parent, handlerVars, child, usr1, usr2, rt7>>

ParentAlive == parent \notin {"exited", "killed"}

TypeOK ==
    /\ parent \in {"forking", "counting", "allowing", "exited", "killed"}
    /\ count_requests \in Nat /\ requested_child_processes \in Seq(Children)
    /\ rt7_handled \in BOOLEAN /\ rt7 \in BOOLEAN /\ i \in Nat
    /\ child \in [Children -> {"unborn", "starting", "sleeping", "requested", "paused", "over"}]
    /\ usr1 \in Children \cup {None} /\ usr2 \in [Children -> BOOLEAN]

Init ==
    /\ parent = "forking"
    /\ count_requests = 0 /\ requested_child_processes = <<>>
    /\ rt7_handled = FALSE /\ i = 0
    /\ child = [c \in Children |-> "unborn"]
    /\ usr1 = None /\ usr2 = [c \in Children |-> FALSE] /\ rt7 = FALSE
-----------------------------------------------------------------------------
Fork(c) ==
    /\ parent = "forking" /\ child[c] = "unborn"
    /\ child' = [child EXCEPT ![c] = "starting"]
    /\ UNCHANGED <<parent, handlerVars, usr1, usr2, rt7>>

InstallHandler ==
    /\ parent = "forking" /\ \A c \in Children : child[c] # "unborn"
    /\ parent' = "counting"
    /\ UNCHANGED <<handlerVars, child, usr1, usr2, rt7>>

(* The child runs its own program, or fails to, and installs its handler. *)
Start(c) ==
    /\ child[c] = "starting"
    /\ child' \in {[child EXCEPT ![c] = "sleeping"], [child EXCEPT ![c] = "over"]}
    /\ UNCHANGED <<parent, handlerVars, usr1, usr2, rt7>>

(* A second SIGUSR1 is lost while one is pending. An orphan asks init. *)
Request(c) ==
    /\ child[c] = "sleeping"
    /\ child' = [child EXCEPT ![c] = "requested"]
    /\ usr1' = IF ParentAlive /\ usr1 = None THEN c ELSE usr1
    /\ UNCHANGED <<parent, handlerVars, usr2, rt7>>

Pause(c) ==
    /\ child[c] = "requested"
    /\ child' = [child EXCEPT ![c] = "paused"]
    /\ UNCHANGED <<parent, handlerVars, usr1, usr2, rt7>>

(* child_sigusr2_handler: rand() was not seeded, so every child draws glibc's
   first number, 1804289383, and 1804289383 % 32 is 7. Then pause() ends, or
   begins and has nothing left to wait for. *)
ChildHandler(c) ==
    /\ usr2[c] /\ child[c] \in {"requested", "paused"}
    /\ usr2' = [usr2 EXCEPT ![c] = FALSE]
    /\ rt7' = (ParentAlive \/ rt7)
    /\ child' = IF child[c] = "paused" THEN [child EXCEPT ![c] = "over"] ELSE child
    /\ UNCHANGED <<parent, handlerVars, usr1>>
-----------------------------------------------------------------------------
(* SIGUSR1 while there is no handler for it. *)
DieOfRequest ==
    /\ parent = "forking" /\ usr1 # None
    /\ parent' = "killed"
    /\ UNCHANGED <<handlerVars, child, usr1, usr2, rt7>>

Counted ==
    /\ parent = "counting" /\ usr1 # None
    /\ usr1' = None
    /\ count_requests' = count_requests + 1
    /\ UNCHANGED <<usr2, rt7>>

(* Mutant: the handler of the answer is installed after the permissions. *)
HandlerForgotten ==
    /\ Counted
    /\ requested_child_processes' = Append(requested_child_processes, usr1)
    /\ IF count_requests' = child_requests_number
          THEN parent' = "allowing" /\ i' = 1
          ELSE UNCHANGED <<parent, i>>
    /\ child' = IF count_requests' > child_requests_number
                THEN [child EXCEPT ![usr1] = "over"] ELSE child
    /\ UNCHANGED rt7_handled

(* parent_sigusr1_handler, SIGUSR1 being masked. A request past the K-th is
   stored behind the table, in what is left of the chunk or in a header nobody
   reads again, and its child is killed. At the K-th the handler for the answer
   is installed; sigfillset(NULL) only fails. *)
parent_sigusr1_handler ==
    /\ Counted
    /\ requested_child_processes' = Append(requested_child_processes, usr1)
    /\ IF count_requests' = child_requests_number
          THEN parent' = "allowing" /\ i' = 1 /\ rt7_handled' = TRUE
          ELSE UNCHANGED <<parent, i, rt7_handled>>
    /\ child' = IF count_requests' > child_requests_number
                THEN [child EXCEPT ![usr1] = "over"] ELSE child

(* The handler's loop: one SIGUSR2 at a time, to those that asked. *)
Allow ==
    /\ parent = "allowing"
    /\ IF i <= child_requests_number
          THEN /\ usr2' = [usr2 EXCEPT ![requested_child_processes[i]] = TRUE]
               /\ i' = i + 1 /\ UNCHANGED parent
          ELSE parent' = "counting" /\ UNCHANGED <<usr2, i>>
    /\ UNCHANGED <<count_requests, requested_child_processes, rt7_handled, child, usr1, rt7>>

(* SIGRTMIN+7 is not masked, so it may end the parent in the middle of Allow. *)
real_time_signal_handler ==
    /\ ParentAlive /\ rt7
    /\ parent' = IF rt7_handled THEN "exited" ELSE "killed"
    /\ rt7' = FALSE
    /\ UNCHANGED <<handlerVars, child, usr1, usr2>>

ParentStep == InstallHandler \/ DieOfRequest \/ parent_sigusr1_handler \/ Allow \/ real_time_signal_handler
ChildStep(c) == Start(c) \/ Request(c) \/ Pause(c) \/ ChildHandler(c)
Next == ParentStep \/ \E c \in Children : Fork(c) \/ ChildStep(c)

(* The scheduler runs every process; a pending signal is delivered. *)
Fairness == WF_vars(ParentStep) /\ \A c \in Children : WF_vars(Fork(c)) /\ WF_vars(ChildStep(c))
Spec == Init /\ [][Next]_vars /\ Fairness
-----------------------------------------------------------------------------
(* The K-th request that is counted leads to exit(44), whatever permissions and
   answers overtake each other: the parent neither spins for ever nor is killed
   by an answer it has no handler for (parent.c:41-63). *)
ParentExits == (count_requests >= child_requests_number) ~> (parent = "exited")
=============================================================================
