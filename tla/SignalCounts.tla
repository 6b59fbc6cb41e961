--------------------------- MODULE SignalCounts ---------------------------
(* A parent sends its child L signals in one of three ways, and both count
   (cw04/zad3, parent.c and child.c). Sleeps only delay. A standard signal is
   pending once at the most; real-time signals queue. *)
EXTENDS Naturals

CONSTANT MaxSignals   \* bound of the model: the largest L

(* What the constants have to be. *)
SignalsAssumption == MaxSignals \in Nat

VARIABLES type, signals_number,  \* the arguments
          parent,    \* "start", "sending", "exited" or "killed"
          sent,      \* calls of my_kill_function for the child, the last one included
          answers,   \* received_signals_counter of the parent
          child,     \* "unborn", "starting", "running", "counting", "answering", "exited", "killed"
          received,  \* received_signals_counter of the child
          usr1, usr2, rt1,    \* how often each is pending for the child
          answer1, answerRT   \* pending for the parent: SIGUSR1 and SIGRTMIN+1

args == <<type, signals_number>>
childVars == <<child, received>>
toChild == <<usr1, usr2, rt1>>
toParent == <<answer1, answerRT>>
vars == <<args, parent, sent, answers, childVars, toChild, toParent>>

TYPE_KILL == 1
TYPE_SIGQUEUE == 2
TYPE_SIGRT_KILL == 3
OtherType == 4   \* any other number
In(state) == IF child = state THEN 1 ELSE 0

TypeOK ==
    /\ type \in 1 .. 4 /\ signals_number \in 0 .. MaxSignals
    /\ parent \in {"start", "sending", "exited", "killed"}
    /\ sent \in Nat /\ answers \in Nat /\ received \in Nat /\ rt1 \in Nat /\ answerRT \in Nat
    /\ child \in {"unborn", "starting", "running", "counting", "answering", "exited", "killed"}
    /\ usr1 \in 0 .. 1 /\ usr2 \in 0 .. 1 /\ answer1 \in 0 .. 1

Init ==
    /\ type \in 1 .. 4 /\ signals_number \in 0 .. MaxSignals
    /\ parent = "start" /\ sent = 0 /\ answers = 0
    /\ child = "unborn" /\ received = 0
    /\ usr1 = 0 /\ usr2 = 0 /\ rt1 = 0
    /\ answer1 = 0 /\ answerRT = 0

ChildAlive == child \notin {"unborn", "exited", "killed"}
ParentAlive == parent \in {"start", "sending"}
-----------------------------------------------------------------------------
(* my_kill_function: type 3 sends SIGRTMIN+1 whatever signal it was asked to.
   Any other type ends the parent. *)
my_kill_function(signo) ==
    CASE type = OtherType -> parent' = "exited" /\ UNCHANGED <<toChild, sent>>
      [] type = TYPE_SIGRT_KILL -> rt1' = rt1 + 1 /\ sent' = sent + 1 /\ UNCHANGED <<usr1, usr2, parent>>
      [] OTHER -> /\ usr1' = IF signo = "SIGUSR1" THEN 1 ELSE usr1
                  /\ usr2' = IF signo = "SIGUSR2" THEN 1 ELSE usr2
                  /\ sent' = sent + 1 /\ UNCHANGED <<rt1, parent>>

(* fork(), its result stored, and the parent's handlers, all before it sends. *)
Fork ==
    /\ parent = "start"
    /\ child' = "starting" /\ parent' = "sending"
    /\ UNCHANGED <<args, sent, answers, received, toChild, toParent>>

(* L times SIGUSR1, then SIGUSR2. *)
Send ==
    /\ parent = "sending" /\ sent <= signals_number
    /\ my_kill_function(IF sent < signals_number THEN "SIGUSR1" ELSE "SIGUSR2")
    /\ UNCHANGED <<args, answers, childVars, toParent>>

(* It waits for one second, not for the child. *)
Exit ==
    /\ parent = "sending" /\ sent = signals_number + 1
    /\ parent' = "exited"
    /\ UNCHANGED <<args, sent, answers, childVars, toChild, toParent>>

(* SIGINT at any time. Before fork() child_pid is 0 and kill() is for the whole
   group, the parent too; type 3 sends SIGRTMIN+1 and not SIGKILL. *)
sigint_handler ==
    /\ ParentAlive
    /\ parent' = IF child = "unborn" /\ type \in {TYPE_KILL, TYPE_SIGRT_KILL} THEN "killed" ELSE "exited"
    /\ child' = IF ChildAlive /\ type \in {TYPE_KILL, TYPE_SIGQUEUE} THEN "killed" ELSE child
    /\ rt1' = IF ChildAlive /\ type = TYPE_SIGRT_KILL THEN rt1 + 1 ELSE rt1
    /\ sent' = IF ChildAlive /\ type = TYPE_SIGRT_KILL THEN sent + 1 ELSE sent
    /\ UNCHANGED <<args, answers, received, usr1, usr2, toParent>>

(* parent_sigusr1_handler and parent_sigrt1_handler. *)
parent_sigusr1_handler ==
    /\ ParentAlive /\ answer1 > 0
    /\ answer1' = 0 /\ answers' = answers + 1
    /\ UNCHANGED <<args, parent, sent, childVars, toChild, answerRT>>
parent_sigrt1_handler ==
    /\ ParentAlive /\ answerRT > 0
    /\ answerRT' = answerRT - 1 /\ answers' = answers + 1
    /\ UNCHANGED <<args, parent, sent, childVars, toChild, answer1>>
-----------------------------------------------------------------------------
(* execve, which may fail, and the child's handlers: the model takes them as
   one step, before which every signal kills. *)
Start ==
    /\ child = "starting"
    /\ \/ child' = "exited"
       \/ child' = IF usr1 + usr2 + rt1 > 0 THEN "killed" ELSE "running"
    /\ UNCHANGED <<args, parent, sent, answers, received, toChild, toParent>>

(* A counting handler starts, and masks its own signal. *)
TakeSignal ==
    /\ child = "running" /\ usr1 + rt1 > 0
    /\ child' = "counting"
    /\ usr1' = 0
    /\ rt1' = IF rt1 > 0 THEN rt1 - 1 ELSE 0
    /\ UNCHANGED <<args, parent, sent, answers, received, usr2, toParent>>
Count ==
    /\ child = "counting"
    /\ received' = received + 1
    /\ child' = "answering"
    /\ UNCHANGED <<args, parent, sent, answers, toChild, toParent>>

(* Mutant: the real-time handler answers with SIGUSR1 as well. *)
AnswerUsr1 ==
    /\ child = "answering"
    /\ child' = "running"
    /\ answer1' = IF ParentAlive THEN 1 ELSE answer1
    /\ UNCHANGED <<args, parent, sent, answers, received, toChild, answerRT>>

(* To init, and for nothing, once the parent has exited. *)
Answer ==
    /\ child = "answering"
    /\ child' = "running"
    /\ answer1' = IF ParentAlive /\ type # TYPE_SIGRT_KILL THEN 1 ELSE answer1
    /\ answerRT' = IF ParentAlive /\ type = TYPE_SIGRT_KILL THEN answerRT + 1 ELSE answerRT
    /\ UNCHANGED <<args, parent, sent, answers, received, toChild>>

(* child_sigusr2_handler interrupts the other handler wherever it is, and may
   even run before it when both signals are pending. *)
child_sigusr2_handler ==
    /\ child \in {"running", "counting", "answering"} /\ usr2 > 0
    /\ child' = "exited" /\ usr2' = 0
    /\ UNCHANGED <<args, parent, sent, answers, received, usr1, rt1, toParent>>

Next ==
    \/ Fork \/ Send \/ Exit \/ sigint_handler \/ parent_sigusr1_handler \/ parent_sigrt1_handler
    \/ Start \/ TakeSignal \/ Count \/ Answer \/ child_sigusr2_handler

Spec == Init /\ [][Next]_vars
-----------------------------------------------------------------------------
(* Nothing is counted that was not sent, on either side. With real-time signals
   nothing is lost either: what was sent is counted, or still on its way, as
   long as child and parent live (parent.c:14-30, child.c:11-42). *)
CountsAddUp ==
    LET childDone == received + In("counting")
        parentDone == answers + answer1 + answerRT + In("answering")
    IN  /\ childDone + usr1 + usr2 + rt1 <= sent
        /\ parentDone <= received
        /\ type = TYPE_SIGRT_KILL => childDone + rt1 = sent
        /\ type = TYPE_SIGRT_KILL /\ ParentAlive => parentDone = received
=============================================================================
