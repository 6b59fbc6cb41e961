-------------------------- MODULE ThreadSignals --------------------------
(* The record search of threads under one signal (cw08/zad2a), and with a
   division by zero (cw08/zad2b). What a signal does is a matter of the whole
   process, whichever thread sets it. *)
EXTENDS Naturals

CONSTANTS threads_number, number_of_records,
          FileRecords   \* records in the file

(* What the constants have to be. *)
ThreadsAssumption ==
    threads_number \in Nat \ {0} /\ number_of_records \in Nat \ {0} /\ FileRecords \in Nat

Threads == 1 .. threads_number
Nobody == 0

VARIABLES program,        \* "zad2a" or "zad2b"
          option_number, signo,
          process,        \* "running", "ended", "stopped", "killed", or "SIGFPE"
          action,         \* what signo does: "default", "ignored", "handled"
          main,           \* "create", "prepare", "throw", "clear", "join"
          pc, j,          \* per thread: its place, its index over threads_list
          cancelled,      \* threads with a cancellation pending or acted upon
          mutex, thread_read,
          left            \* records of the file behind its offset

args == <<program, option_number, signo>>
vars == <<args, process, action, main, pc, j, cancelled, mutex, thread_read, left>>

TypeOK ==
    /\ program \in {"zad2a", "zad2b"} /\ option_number \in 1 .. 5
    /\ signo \in {"SIGUSR1", "SIGTERM", "SIGKILL", "SIGSTOP"}
    /\ process \in {"running", "ended", "stopped", "killed", "SIGFPE"}
    /\ action \in {"default", "ignored", "handled"}
    /\ main \in {"create", "prepare", "throw", "clear", "join"}
    /\ pc \in [Threads -> {"none", "begin", "spin", "lock", "read", "cancel", "unlock", "search", "done"}]
    /\ j \in [Threads -> 1 .. threads_number + 1] /\ cancelled \subseteq Threads
    /\ mutex \in Threads \cup {Nobody} /\ thread_read \in BOOLEAN /\ left \in 0 .. FileRecords

Init ==
    /\ program \in {"zad2a", "zad2b"} /\ option_number \in 1 .. 5
    /\ signo \in {"SIGUSR1", "SIGTERM", "SIGKILL", "SIGSTOP"}
    /\ process = "running" /\ action = "default" /\ main = "create"
    /\ pc = [t \in Threads |-> "none"] /\ j = [t \in Threads |-> 1]
    /\ cancelled = {} /\ mutex = Nobody /\ thread_read = TRUE /\ left = FileRecords

(* signal() fails for SIGKILL and SIGSTOP. *)
Set(what) == action' = IF signo \in {"SIGKILL", "SIGSTOP"} THEN action ELSE what
To(t, place) == pc' = [pc EXCEPT ![t] = place]
-----------------------------------------------------------------------------
Create(t) ==
    /\ main = "create" /\ pc[t] = "none"
    /\ \A u \in 1 .. t - 1 : pc[u] # "none"
    /\ To(t, "begin")
    /\ main' = IF t = threads_number THEN "prepare" ELSE main
    /\ UNCHANGED <<args, process, action, j, cancelled, mutex, thread_read, left>>

(* Mutant: main leaves the handlers of option 3 to the threads. *)
PrepareToIgnore ==
    /\ main = "prepare"
    /\ main' = "throw"
    /\ IF option_number = 2 THEN Set("ignored") ELSE UNCHANGED action
    /\ UNCHANGED <<args, process, pc, j, cancelled, mutex, thread_read, left>>

Prepare ==
    /\ main = "prepare"
    /\ main' = "throw"
    /\ CASE option_number = 2 -> Set("ignored")
         [] option_number = 3 -> Set("handled")
         [] OTHER -> UNCHANGED action
    /\ UNCHANGED <<args, process, pc, j, cancelled, mutex, thread_read, left>>

(* kill(getpid()) in 1 to 3, pthread_kill of the first thread in 4 and 5. The
   handler prints and returns. *)
Throw ==
    /\ main = "throw"
    /\ main' = "clear"
    /\ process' = CASE action # "default" -> process
                    [] signo = "SIGSTOP" -> "stopped"
                    [] OTHER -> "killed"
    /\ UNCHANGED <<args, action, pc, j, cancelled, mutex, thread_read, left>>

Clear ==
    /\ main = "clear"
    /\ main' = "join"
    /\ thread_read' = FALSE
    /\ UNCHANGED <<args, process, action, pc, j, cancelled, mutex, left>>

Join ==
    /\ main = "join" /\ \A t \in Threads : pc[t] = "done"
    /\ process' = "ended"
    /\ UNCHANGED <<args, action, main, pc, j, cancelled, mutex, thread_read, left>>
-----------------------------------------------------------------------------
(* The start of a thread. In zad2b it divides by rand() % 4 first. *)
Begin(t) ==
    /\ pc[t] = "begin"
    /\ IF program = "zad2b"
          THEN \E y \in 0 .. 3 : process' = IF y = 0 THEN "SIGFPE" ELSE process
          ELSE UNCHANGED process
    /\ CASE option_number = 4 -> Set("ignored")
         [] option_number \in {3, 5} -> Set("handled")
         [] OTHER -> UNCHANGED action
    /\ To(t, "spin")
    /\ UNCHANGED <<args, main, j, cancelled, mutex, thread_read, left>>

Spin(t) ==
    /\ pc[t] = "spin" /\ ~thread_read
    /\ To(t, "lock")
    /\ UNCHANGED <<args, process, action, main, j, cancelled, mutex, thread_read, left>>

Lock(t) ==
    /\ pc[t] = "lock" /\ mutex = Nobody
    /\ mutex' = t
    /\ To(t, "read")
    /\ UNCHANGED <<args, process, action, main, j, cancelled, thread_read, left>>

(* A whole batch; it is the end of the file when the last read gets nothing. *)
Read(t) ==
    /\ pc[t] = "read"
    /\ IF left < number_of_records
          THEN left' = 0 /\ To(t, "cancel") /\ j' = [j EXCEPT ![t] = 1]
          ELSE left' = left - number_of_records /\ To(t, "unlock") /\ UNCHANGED j
    /\ UNCHANGED <<args, process, action, main, cancelled, mutex, thread_read>>

(* One pthread_cancel of the loop, then the unlock. A thread that is over is
   left alone: only a thread with a cancellation of its own pending could still
   cancel one that main has joined, and it acts on that when its read returns. *)
Cancel(t) ==
    /\ pc[t] = "cancel"
    /\ IF j[t] > threads_number
          THEN mutex' = Nobody /\ To(t, "done") /\ UNCHANGED <<cancelled, j>>
          ELSE /\ cancelled' = cancelled \cup ({j[t]} \ {t})
               /\ j' = [j EXCEPT ![t] = @ + 1]
               /\ UNCHANGED <<pc, mutex>>
    /\ UNCHANGED <<args, process, action, main, thread_read, left>>

Unlock(t) ==
    /\ pc[t] = "unlock"
    /\ mutex' = Nobody
    /\ To(t, "search")
    /\ UNCHANGED <<args, process, action, main, j, cancelled, thread_read, left>>

Search(t) ==
    /\ pc[t] = "search"
    /\ To(t, "lock")
    /\ UNCHANGED <<args, process, action, main, j, cancelled, mutex, thread_read, left>>

(* Cancellation is asynchronous: the thread dies anywhere, and lets go of nothing. *)
Die(t) ==
    /\ t \in cancelled /\ pc[t] # "done"
    /\ To(t, "done")
    /\ UNCHANGED <<args, process, action, main, j, cancelled, mutex, thread_read, left>>

MainStep == (\E t \in Threads : Create(t)) \/ Prepare \/ Throw \/ Clear \/ Join
ThreadStep(t) ==
    \/ Begin(t) \/ Spin(t) \/ Lock(t) \/ Read(t) \/ Cancel(t) \/ Unlock(t) \/ Search(t)
    \/ Die(t)

Next == process = "running" /\ (MainStep \/ \E t \in Threads : ThreadStep(t))

(* The scheduler runs every thread, and a cancellation is acted upon in the end. *)
Fairness ==
    /\ WF_vars(process = "running" /\ MainStep)
    /\ \A t \in Threads : /\ WF_vars(process = "running" /\ ThreadStep(t))
                          /\ WF_vars(process = "running" /\ Die(t))
Spec == Init /\ [][Next]_vars /\ Fairness
-----------------------------------------------------------------------------
(* Nobody is left blocked on the mutex of a cancelled thread: the process joins
   them all and ends, unless the signal killed or stopped it. SIGUSR1 and
   SIGTERM cannot in options 2 and 3, where main prepares for them first, while
   in 4 and 5 they may come before the first thread has (main.c:72-109, 171). *)
RunsToTheEnd ==
    <>(CASE process = "ended" -> TRUE
         [] process = "stopped" -> signo = "SIGSTOP"
         [] process = "killed" -> signo = "SIGKILL" \/ option_number \in {1, 4, 5}
         [] process = "SIGFPE" -> program = "zad2b"
         [] OTHER -> FALSE)
=============================================================================
