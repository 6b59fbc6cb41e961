---------------------------- MODULE MsgQueueSysV ----------------------------
(* The System V request server and its clients (cw06/zad1).

   One kernel queue, msqid, carries everything: registrations, requests, the
   server's answers and terminations, all received with type 0, that is, by
   whoever comes first. A client also makes a queue of its own, on which the
   server sends it a number. The key of that queue is read from an
   uninitialised struct: it may be IPC_PRIVATE, which makes a new queue, or a
   value that other clients find there too, which makes one queue for them. *)
EXTENDS Naturals, Sequences, FiniteSets

CONSTANTS Clients,      \* client processes
          Msqid,        \* the server's queue
          SharedQueue   \* the queue of the clients whose key is the same garbage

(* What the constants have to be. *)
MsgQueueAssumption == Msqid # SharedQueue /\ {Msqid, SharedQueue} \cap Clients = {}

(* A private queue is named by the client that made it. *)
PrivateQueues == Clients \cup {SharedQueue}
NoQueue == "no queue"

(* The types of common_header.h: echo, upper case and time differ in the text
   sent back only, and are one type here. *)
Types == {"work", "terminate", "register"}
Messages == [type : Types, from : Clients]
Nobody == "nobody"
Idle == [type |-> "none", from |-> Nobody]

VARIABLES queue,         \* the messages in msqid, the oldest first
          numbers,       \* numbers[q]: the numbers sent on the private queue q
          exists,        \* the queues that exist
          server,        \* where the server is
          response,      \* the message the server holds
          client_msqid,  \* the queue of the last client that registered
          tmp_client_id, \* the number the next client gets
          pc,            \* pc[c]: where client c is
          own            \* own[c]: the queue client c made for itself

serverVars == <<server, response, client_msqid, tmp_client_id>>
clientVars == <<pc, own>>
vars == <<queue, numbers, exists, serverVars, clientVars>>

TypeOK ==
    /\ queue \in Seq(Messages)
    /\ numbers \in [PrivateQueues -> Seq(0 .. Cardinality(Clients) - 1)]
    /\ exists \subseteq PrivateQueues \cup {Msqid}
    /\ server \in {"start", "receive", "number", "answer", "raise", "gone"}
    /\ response \in Messages \cup {Idle}
    /\ client_msqid \in PrivateQueues \cup {NoQueue}
    /\ tmp_client_id \in 0 .. Cardinality(Clients)
    /\ pc \in [Clients -> {"start", "open", "register", "number", "send", "receive", "ended"}]
    /\ own \in [Clients -> PrivateQueues \cup {NoQueue}]

Init ==
    /\ queue = <<>>
    /\ numbers = [q \in PrivateQueues |-> <<>>]
    /\ exists = {}
    /\ server = "start"
    /\ response = Idle
    /\ client_msqid = NoQueue
    /\ tmp_client_id = 0
    /\ pc = [c \in Clients |-> "start"]
    /\ own = [c \in Clients |-> NoQueue]

(* msgsnd appends; on a queue that is gone it fails, and the callers below
   only print that. msgrcv with type 0 takes the oldest message. *)
Send(message) == queue' = IF Msqid \in exists THEN Append(queue, message) ELSE queue
-----------------------------------------------------------------------------
(* The server *)

CreateQueue ==
    /\ server = "start"
    /\ server' = "receive"
    /\ exists' = exists \cup {Msqid}
    /\ UNCHANGED <<queue, numbers, response, client_msqid, tmp_client_id, clientVars>>

ServerReceive ==
    /\ server = "receive"
    /\ queue # <<>>
    /\ LET message == Head(queue)
       IN  /\ response' = message
           /\ server' = IF message.type = "register" THEN "number" ELSE "answer"
           /\ client_msqid' = IF message.type = "register" THEN own[message.from] ELSE client_msqid
    /\ queue' = Tail(queue)
    /\ UNCHANGED <<numbers, exists, tmp_client_id, clientVars>>

SendNumber ==
    /\ server = "number"
    /\ numbers' = IF client_msqid \in exists
                     THEN [numbers EXCEPT ![client_msqid] = Append(@, tmp_client_id)]
                     ELSE numbers
    /\ tmp_client_id' = tmp_client_id + 1
    /\ server' = "receive"
    /\ response' = Idle
    /\ UNCHANGED <<queue, exists, client_msqid, clientVars>>

(* Mutant: only a termination is sent back. *)
SendAnswerTerminationOnly ==
    /\ server = "answer"
    /\ IF response.type = "terminate" THEN Send(response) ELSE UNCHANGED queue
    /\ server' = IF response.type = "terminate" THEN "raise" ELSE "receive"
    /\ response' = Idle
    /\ UNCHANGED <<numbers, exists, client_msqid, tmp_client_id, clientVars>>

(* Every message but a registration goes back into the queue it came from, a
   termination too, after which the loop ends. *)
SendAnswer ==
    /\ server = "answer"
    /\ Send(response)
    /\ server' = IF response.type = "terminate" THEN "raise" ELSE "receive"
    /\ response' = Idle
    /\ UNCHANGED <<numbers, exists, client_msqid, tmp_client_id, clientVars>>

(* Mutant: the queue everybody uses stays. *)
RemoveClientQueueOnly ==
    /\ server \notin {"start", "gone"}
    /\ server' = "gone"
    /\ exists' = exists \ {client_msqid}
    /\ numbers' = [q \in PrivateQueues |-> IF q = client_msqid THEN <<>> ELSE numbers[q]]
    /\ UNCHANGED <<queue, response, client_msqid, tmp_client_id, clientVars>>

(* The handler of SIGINT, which the server raises itself after a termination
   and a user may send at any time: two queues go, and the process. Before the
   first registration client_msqid is 0, the identifier of no client's queue. *)
shutdown_server ==
    /\ server \notin {"start", "gone"}
    /\ server' = "gone"
    /\ exists' = exists \ {Msqid, client_msqid}
    /\ queue' = <<>>
    /\ numbers' = [q \in PrivateQueues |-> IF q = client_msqid THEN <<>> ELSE numbers[q]]
    /\ UNCHANGED <<response, client_msqid, tmp_client_id, clientVars>>

Raise == server = "raise" /\ shutdown_server

ServerNext == CreateQueue \/ ServerReceive \/ SendNumber \/ SendAnswer \/ Raise
-----------------------------------------------------------------------------
(* The clients *)

Goto(c, place) == pc' = [pc EXCEPT ![c] = place]
Waiting(c) == pc[c] = "receive"

(* Without IPC_CREAT: a client that comes before the server, or after it, ends. *)
FindQueue(c) ==
    /\ pc[c] = "start"
    /\ Goto(c, IF Msqid \in exists THEN "open" ELSE "ended")
    /\ UNCHANGED <<queue, numbers, exists, own, serverVars>>

(* Where the server has gone and has taken the shared queue along, the key makes
   a new queue, on which nobody waits and which its client is about to leave. *)
Open(c) ==
    /\ pc[c] = "open"
    /\ \E q \in {c, SharedQueue} :
          /\ q = c \/ q \in exists \/ Msqid \in exists
          /\ own' = [own EXCEPT ![c] = q]
          /\ exists' = exists \cup {q}
    /\ Goto(c, "register")
    /\ UNCHANGED <<queue, numbers, serverVars>>

Register(c) ==
    /\ pc[c] = "register"
    /\ Send([type |-> "register", from |-> c])
    /\ Goto(c, IF Msqid \in exists THEN "number" ELSE "ended")
    /\ UNCHANGED <<numbers, exists, own, serverVars>>

GetNumber(c) ==
    /\ pc[c] = "number"
    /\ numbers[own[c]] # <<>>
    /\ numbers' = [numbers EXCEPT ![own[c]] = Tail(@)]
    /\ Goto(c, "send")
    /\ UNCHANGED <<queue, exists, own, serverVars>>

(* The type is rand() % 4 + 1; who sends a termination does not wait. *)
Request(c) ==
    /\ pc[c] = "send"
    /\ \E type \in {"work", "terminate"} :
          /\ Send([type |-> type, from |-> c])
          /\ Goto(c, IF type = "terminate" THEN "ended" ELSE "receive")
    /\ UNCHANGED <<numbers, exists, own, serverVars>>

Receive(c) ==
    /\ Waiting(c)
    /\ queue # <<>>
    /\ queue' = Tail(queue)
    /\ Goto(c, "send")
    /\ UNCHANGED <<numbers, exists, own, serverVars>>

(* msgrcv fails on a queue that was removed before it or under it. *)
ReceiveFails(c) ==
    /\ \/ Waiting(c) /\ Msqid \notin exists
       \/ pc[c] = "number" /\ own[c] \notin exists
    /\ Goto(c, "ended")
    /\ UNCHANGED <<queue, numbers, exists, own, serverVars>>

ClientNext(c) ==
    \/ FindQueue(c) \/ Open(c) \/ Register(c) \/ GetNumber(c)
    \/ Request(c) \/ Receive(c) \/ ReceiveFails(c)

Next ==
    \/ ServerNext
    \/ shutdown_server
    \/ \E c \in Clients : ClientNext(c)

(* The server's and every client's process run; a receive gets its turn among
   those that wait on the same queue, which the kernel serves in order. *)
Fairness ==
    /\ WF_vars(ServerNext)
    /\ \A c \in Clients : WF_vars(ClientNext(c)) /\ SF_vars(Receive(c))

Spec == Init /\ [][Next]_vars /\ Fairness
-----------------------------------------------------------------------------
(* Although a client may take another one's answer, its own request, a
   registration or a termination out of the common queue, there is always a
   message for everyone who waits: every wait in the request loop (client.c:90)
   ends, with a message or with the removal of the queue. *)
EveryWaitEnds == \A c \in Clients : Waiting(c) ~> ~Waiting(c)

(* What makes it so: the messages that are not registrations, the one in the
   server's hands included, are at least as many as the clients that wait. *)
Answers == {i \in 1 .. Len(queue) : queue[i].type # "register"}
EnoughAnswers ==
    Msqid \in exists =>
        Cardinality({c \in Clients : Waiting(c)})
            <= Cardinality(Answers) + (IF server = "answer" THEN 1 ELSE 0)

(* After the server's end (server.c:17-22) the only place a client can be left
   in is its own queue, waiting for a number (client.c:59) that will not come:
   its registration was taken by another client or removed with the queue. *)
LeftWithoutNumber(c) ==
    pc[c] = "number" /\ own[c] \in exists /\ numbers[own[c]] = <<>>
ServerEndEndsClients ==
    server = "gone" ~> \A c \in Clients : pc[c] = "ended" \/ LeftWithoutNumber(c)
=============================================================================
