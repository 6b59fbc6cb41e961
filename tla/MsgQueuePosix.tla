---------------------------- MODULE MsgQueuePosix ----------------------------
(* The POSIX request server and its clients (cw06/zad2).

   Clients announce the name of a queue of their own on the server's queue; the
   server takes one name, opens that queue and serves it until a termination,
   with which its own loop ends too. Requests and answers go through the one
   client queue in both directions. A message is its first character, which the
   server takes for the request's type: 1 echo, 2 upper case, 3 time, 4
   termination; the date that answers a 3 begins with 0 or 1, the month. *)
EXTENDS Naturals, Sequences, FiniteSets

CONSTANTS Clients,  \* client processes
          Names     \* names of queues: rand() seeded with time() may give two clients one name

NoName == "no name"
Contents == 0 .. 4

VARIABLES mq,         \* the names in the server's queue
          linked,     \* the server's queue can be opened by its name
          queue,      \* queue[n]: the messages in the client queue n
          server,     \* where the server is
          client_mq,  \* the name of the queue the server serves
          buffer,     \* the message the server holds
          pc,         \* pc[c]: where client c is
          name,       \* name[c]: the name client c made up
          shutdown    \* shutdown[c]: client c has sent a termination

serverVars == <<server, client_mq, buffer>>
clientVars == <<pc, name, shutdown>>
vars == <<mq, linked, queue, serverVars, clientVars>>

TypeOK ==
    /\ mq \in Seq(Names)
    /\ linked \in BOOLEAN
    /\ queue \in [Names -> Seq(Contents)]
    /\ server \in {"start", "name", "number", "receive", "answer", "unlink", "gone"}
    /\ client_mq \in Names \cup {NoName}
    /\ buffer \in Contents
    /\ pc \in [Clients -> {"start", "register", "number", "send", "receive", "ended"}]
    /\ name \in [Clients -> Names \cup {NoName}]
    /\ shutdown \in [Clients -> BOOLEAN]

Init ==
    /\ mq = <<>>
    /\ linked = FALSE
    /\ queue = [n \in Names |-> <<>>]
    /\ server = "start"
    /\ client_mq = NoName
    /\ buffer = 0
    /\ pc = [c \in Clients |-> "start"]
    /\ name = [c \in Clients |-> NoName]
    /\ shutdown = [c \in Clients |-> FALSE]

Sent(n, message) == queue' = [queue EXCEPT ![n] = Append(@, message)]
Received(n) == queue' = [queue EXCEPT ![n] = Tail(@)]
-----------------------------------------------------------------------------
(* The server *)

CreateQueue ==
    /\ server = "start"
    /\ linked' = TRUE
    /\ server' = "name"
    /\ UNCHANGED <<mq, queue, client_mq, buffer, clientVars>>

TakeName ==
    /\ server = "name"
    /\ mq # <<>>
    /\ client_mq' = Head(mq)
    /\ mq' = Tail(mq)
    /\ server' = "number"
    /\ UNCHANGED <<linked, queue, buffer, clientVars>>

(* The number of the first client is 1, and there is no second one. *)
SendNumber ==
    /\ server = "number"
    /\ Sent(client_mq, 1)
    /\ server' = "receive"
    /\ UNCHANGED <<mq, linked, client_mq, buffer, clientVars>>

(* What the server holds after the switch: the text of an echo and of an upper
   case message still begins with its type, a date with its month's digit. *)
Processed(message) == IF message = 3 THEN {0, 1} ELSE {message}

(* A 0 is no type: the server exits and leaves its queue behind. *)
ServerReceive ==
    /\ server = "receive"
    /\ queue[client_mq] # <<>>
    /\ LET message == Head(queue[client_mq])
       IN  /\ buffer' \in Processed(message)
           /\ server' = IF message = 0 THEN "gone" ELSE "answer"
    /\ Received(client_mq)
    /\ UNCHANGED <<mq, linked, client_mq, clientVars>>

(* Mutant: the date is thrown away. *)
SendAnswerButDate ==
    /\ server = "answer"
    /\ IF buffer = 0 THEN UNCHANGED queue ELSE Sent(client_mq, buffer)
    /\ server' = IF buffer = 4 THEN "unlink" ELSE "receive"
    /\ UNCHANGED <<mq, linked, client_mq, buffer, clientVars>>

SendAnswer ==
    /\ server = "answer"
    /\ Sent(client_mq, buffer)
    /\ server' = IF buffer = 4 THEN "unlink" ELSE "receive"
    /\ UNCHANGED <<mq, linked, client_mq, buffer, clientVars>>

Unlink ==
    /\ server = "unlink"
    /\ linked' = FALSE
    /\ server' = "gone"
    /\ UNCHANGED <<mq, queue, client_mq, buffer, clientVars>>

ServerNext == CreateQueue \/ TakeName \/ SendNumber \/ ServerReceive \/ SendAnswer \/ Unlink
-----------------------------------------------------------------------------
(* The clients *)

Goto(c, place) == pc' = [pc EXCEPT ![c] = place]

(* mq_open of the server's queue may fail, which only the mq_send notices: then
   the client has made its own queue before it exits. *)
Open(c) ==
    /\ pc[c] = "start"
    /\ \E n \in Names : name' = [name EXCEPT ![c] = n]
    /\ Goto(c, IF linked THEN "register" ELSE "ended")
    /\ UNCHANGED <<mq, linked, queue, shutdown, serverVars>>

(* The queue was opened: it takes the name even when it was unlinked since. *)
Register(c) ==
    /\ pc[c] = "register"
    /\ mq' = Append(mq, name[c])
    /\ Goto(c, "number")
    /\ UNCHANGED <<linked, queue, name, shutdown, serverVars>>

GetNumber(c) ==
    /\ pc[c] = "number"
    /\ queue[name[c]] # <<>>
    /\ Received(name[c])
    /\ Goto(c, "send")
    /\ UNCHANGED <<mq, linked, name, shutdown, serverVars>>

Send(c) ==
    /\ pc[c] = "send"
    /\ \E type \in 1 .. 4 :
          /\ Sent(name[c], type)
          /\ shutdown' = [shutdown EXCEPT ![c] = type = 4]
    /\ Goto(c, "receive")
    /\ UNCHANGED <<mq, linked, name, serverVars>>

Receive(c) ==
    /\ pc[c] = "receive"
    /\ queue[name[c]] # <<>>
    /\ Received(name[c])
    /\ Goto(c, IF shutdown[c] THEN "ended" ELSE "send")
    /\ UNCHANGED <<mq, linked, name, shutdown, serverVars>>

ClientNext(c) == Open(c) \/ Register(c) \/ GetNumber(c) \/ Send(c) \/ Receive(c)

Next == ServerNext \/ \E c \in Clients : ClientNext(c)

Fairness ==
    /\ WF_vars(ServerNext)
    /\ \A c \in Clients : WF_vars(ClientNext(c)) /\ SF_vars(Receive(c))

Spec == Init /\ [][Next]_vars /\ Fairness
-----------------------------------------------------------------------------
Alone(c) == \A d \in Clients \ {c} : name[d] # name[c]
ServerHolds(n) == server \in {"number", "answer"} /\ client_mq = n

(* Through all the echoes of its own words a server and its client exchange one
   message: there is never a second one in a queue only one client uses, and
   while the client waits in its loop (client.c:82) the one message is in the
   queue or in the server's hands, unless the server took it to its grave. *)
OneMessage ==
    \A c \in Clients : name[c] # NoName /\ Alone(c) =>
        LET messages == Len(queue[name[c]]) + (IF ServerHolds(name[c]) THEN 1 ELSE 0)
        IN  /\ messages <= 1
            /\ pc[c] = "receive" /\ messages = 0 => server = "gone"

(* A client that uses its queue alone and waits for an answer gets one, its own
   request perhaps, unless the server stops on a date it reads as a request. *)
AnsweredOrStopped ==
    \A c \in Clients :
        pc[c] = "receive" /\ Alone(c) ~> pc[c] # "receive" \/ server = "gone" \/ ~Alone(c)
=============================================================================
