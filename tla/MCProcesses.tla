---------------------------- MODULE MCProcesses ----------------------------
(* One run for six small programs of processes that talk through the kernel:
   permission requests (cw04/zad2), signal counts (cw04/zad3), whose names have
   no prefix here, pipelines (cw05/zad1), the two message queue servers (cw06),
   and a signal thrown at threads (cw08/zad2a, zad2b). ProcessesInit chooses
   one; the others stay in an initial state. *)
EXTENDS SignalCounts, Sequences, FiniteSets

CONSTANTS Children, child_requests_number, None,
          MaxPrograms, MaxLines, Clients, Msqid, SharedQueue, Names,
          threads_number, number_of_records, FileRecords

VARIABLES running,
          allowing, count_requests, requested_child_processes, rt7_handled, i, asking,
          request, permission, rt7,
          pipePc, programs, segment, has_args, write_pipe, read_pipe, slot, made, before, started, lines,
          queue, numbers, exists, server, response, client_msqid, tmp_client_id, clientPc, own,
          mq, linked, clientQueue, posixServer, client_mq, buffer, posixPc, name, shutdown,
          program, option_number, signo, process, action, main, pc, j, cancelled, mutex,
          thread_read, left

Permission == INSTANCE PermissionSignals WITH
    parent <- allowing, child <- asking, usr1 <- request, usr2 <- permission
Pipes == INSTANCE Pipeline WITH pc <- pipePc, i <- segment, child <- started
SysV == INSTANCE MsgQueueSysV WITH pc <- clientPc
Posix == INSTANCE MsgQueuePosix WITH queue <- clientQueue, server <- posixServer, pc <- posixPc
Signalled == INSTANCE ThreadSignals

ASSUME ConstantsAssumption ==
    /\ Permission!RequestsAssumption /\ SignalsAssumption /\ Pipes!PipelineAssumption
    /\ SysV!MsgQueueAssumption /\ Signalled!ThreadsAssumption

permissionVars == <<allowing, count_requests, requested_child_processes, rt7_handled, i, asking,
                    request, permission, rt7>>
countsVars == vars
pipesVars == <<pipePc, programs, segment, has_args, write_pipe, read_pipe, slot, made, before, started, lines>>
queuesVars == <<queue, numbers, exists, server, response, client_msqid, tmp_client_id, clientPc, own,
                mq, linked, clientQueue, posixServer, client_mq, buffer, posixPc, name, shutdown>>
signalledVars == <<program, option_number, signo, process, action, main, pc, j, cancelled, mutex, thread_read, left>>
processVars == <<running, permissionVars, countsVars, pipesVars, queuesVars, signalledVars>>

PermissionStep(Step) ==
    /\ running = "permission" /\ Step
    /\ UNCHANGED <<running, countsVars, pipesVars, queuesVars, signalledVars>>
CountsStep(Step) ==
    /\ running = "counts" /\ Step
    /\ UNCHANGED <<running, permissionVars, pipesVars, queuesVars, signalledVars>>
PipesStep(Step) ==
    /\ running = "pipes" /\ Step
    /\ UNCHANGED <<running, permissionVars, countsVars, queuesVars, signalledVars>>
SysVStep(Step) ==
    /\ running = "System V queue" /\ Step
    /\ UNCHANGED <<running, permissionVars, countsVars, pipesVars, signalledVars,
                   mq, linked, clientQueue, posixServer, client_mq, buffer, posixPc, name, shutdown>>
PosixStep(Step) ==
    /\ running = "POSIX queue" /\ Step
    /\ UNCHANGED <<running, permissionVars, countsVars, pipesVars, signalledVars,
                   queue, numbers, exists, server, response, client_msqid, tmp_client_id, clientPc, own>>
SignalledStep(Step) ==
    /\ running = "signalled" /\ process = "running" /\ Step
    /\ UNCHANGED <<running, permissionVars, countsVars, pipesVars, queuesVars>>

(* Programs that do not run have one initial state each. *)
ProcessesInit ==
    /\ running \in {"permission", "counts", "pipes", "System V queue", "POSIX queue", "signalled"}
    /\ Permission!Init /\ Init /\ Pipes!Init /\ SysV!Init /\ Posix!Init
    /\ Signalled!Init
    /\ running = "counts" \/ (type = 1 /\ signals_number = 0)
    /\ running = "signalled" \/ (program = "zad2a" /\ option_number = 1 /\ signo = "SIGUSR1")

ProcessesNext ==
    \/ PermissionStep(Permission!Next) \/ CountsStep(Next)
    \/ PipesStep(Pipes!Next) \/ SysVStep(SysV!Next) \/ PosixStep(Posix!Next)
    \/ SignalledStep(Signalled!Next)

(* The fairness of the modules that need it, for the program that runs. Only
   one does, and so fairness of a disjunction over programs is that of each. *)
Fairness ==
    /\ WF_processVars(\/ PermissionStep(Permission!ParentStep)
               \/ SysVStep(SysV!ServerNext) \/ PosixStep(Posix!ServerNext)
               \/ SignalledStep(Signalled!MainStep))
    /\ \A c \in Children : /\ WF_processVars(PermissionStep(Permission!Fork(c)))
                           /\ WF_processVars(PermissionStep(Permission!ChildStep(c)))
    /\ \A c \in Clients :
          /\ WF_processVars(SysVStep(SysV!ClientNext(c)) \/ PosixStep(Posix!ClientNext(c)))
          /\ SF_processVars(SysVStep(SysV!Receive(c)) \/ PosixStep(Posix!Receive(c)))
    /\ \A t \in 1 .. threads_number : /\ WF_processVars(SignalledStep(Signalled!ThreadStep(t)))
                                      /\ WF_processVars(SignalledStep(Signalled!Die(t)))

ProcessesSpec == ProcessesInit /\ [][ProcessesNext]_processVars /\ Fairness
-----------------------------------------------------------------------------
(* The K-th permission request leads to exit(44) of the parent (cw04/zad2). *)
ParentExits == (running = "permission") => Permission!ParentExits

(* Every program of a pipeline reads what the one before it writes, and nobody
   else holds an end of their pipe (cw05/zad1/pipes.c:24-75). *)
EndsMeet == Pipes!EndsMeet

(* System V: every wait in the request loop ends, whoever took whose message
   before (cw06/zad1/client.c:90). *)
EveryWaitEnds == SysV!EveryWaitEnds

(* System V: after the server's end every client ends, but for those that wait
   for a number nobody will send (cw06/zad1/server.c:17, client.c:59). *)
ServerEndEndsClients == SysV!ServerEndEndsClients

(* POSIX: a server and a client alone on its queue exchange one message, which
   is never doubled or lost but by the server's exit (cw06/zad2/client.c:82). *)
OneMessage == Posix!OneMessage

(* POSIX: a client alone on its queue is answered, if only by its own request,
   unless the server stops (cw06/zad2/server.c:62). *)
AnsweredOrStopped == Posix!AnsweredOrStopped

(* The threads end and are joined, unless the signal killed or stopped the
   process (cw08/zad2a/main.c:72-116). *)
RunsToTheEnd == (running = "signalled") => Signalled!RunsToTheEnd
=============================================================================
