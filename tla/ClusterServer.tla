---------------------------- MODULE ClusterServer ----------------------------
(***************************************************************************)
(* The computing cluster of cw10/zad1: server.c and its clients            *)
(* (inet_client.c).  A network thread accepts connections and reads what   *)
(* clients send (epoll, edge-triggered); a computing thread sends each     *)
(* operation typed at the console to a client it picks at random.  The two *)
(* share the table client_descriptors without any lock.                    *)
(*                                                                         *)
(* A step is one system call or one access to the table.  A client process *)
(* connects once, so a connection is named by its client; messages are     *)
(* counted, not looked at.  SIGINT at the server, which stops it where it   *)
(* is, is left out.                                                        *)
(***************************************************************************)
EXTENDS Integers, FiniteSets, FiniteSetsExt, SequencesExt

CONSTANTS
  Clients,            \* the client processes there will ever be
  NoClient,
  MAX_CLIENTS_NUMBER, \* length of client_descriptors (20 in the code)
  Operations          \* how many operations are typed in (a bound of the model)

\* The table has room: the code itself never checks.
ASSUME ClientsAssumption ==
  /\ IsFiniteSet(Clients) /\ NoClient \notin Clients
  /\ MAX_CLIENTS_NUMBER \in Nat \ {0, 1} /\ Cardinality(Clients) <= MAX_CLIENTS_NUMBER
ASSUME OperationsAssumption == Operations \in Nat

Slots == 0 .. MAX_CLIENTS_NUMBER - 1
Descriptors == 1 .. Cardinality(Clients)

\* A local variable that will not be read again is set to 0.
VARIABLES
  client_descriptors, client_count, \* the table and the slots used so far
  server,    \* "up", or "down" once SIGPIPE has ended it
  owner,     \* the connection a descriptor stands for, or stood for last
  open,      \* the descriptors that are open
  backlog,   \* connections not yet accepted
  edge,      \* connections with an event epoll_wait has not reported
  npc, done_fd, \* network thread: what it does next, the descriptor it has at hand
  kpc, cl_desc, i, j, left, typed, \* computing thread; left is arr[i] as loaded
  cpc,       \* each client: what it does next
  toServer, toClient, \* unread messages of each connection
  reset,     \* connections that got a TCP reset
  hit        \* history: clients stored in a slot check_doubles was comparing

vars == <<client_descriptors, client_count, server, owner, open, backlog, edge,
          npc, done_fd, kpc, cl_desc, i, j, left, typed, cpc, toServer, toClient,
          reset, hit>>
table == <<client_descriptors, client_count>>
network == <<npc, done_fd>>
sockets == <<owner, open, backlog>>
computing == <<kpc, cl_desc, i, j, left, typed>>
traffic == <<edge, cpc, toServer, toClient, reset>>

Init ==
  /\ client_descriptors = [s \in Slots |-> 0]
  /\ client_count = 0
  /\ server = "up"
  /\ owner = [d \in Descriptors |-> NoClient]
  /\ open = {}
  /\ backlog = << >>
  /\ edge = {}
  /\ npc = "epoll_wait" /\ done_fd = 0
  /\ kpc = "scanf" /\ cl_desc = 0 /\ i = 0 /\ j = 1 /\ left = 0 /\ typed = 0
  /\ cpc = [c \in Clients |-> "off"]
  /\ toServer = [c \in Clients |-> 0]
  /\ toClient = [c \in Clients |-> 0]
  /\ reset = {}
  /\ hit = {}

(***************************************************************************)
(* A client                                                                *)
(***************************************************************************)
\* A client that outlives the server is not followed any further.
ClientStep(c, from, to) ==
  server = "up" /\ cpc[c] = from /\ cpc' = [cpc EXCEPT ![c] = to]

Connect(c) ==
  /\ ClientStep(c, "off", "send_name")
  /\ backlog' = Append(backlog, c)
  /\ UNCHANGED <<table, server, owner, open, network, computing, edge, toServer,
                 toClient, reset, hit>>

Send(c, from) ==
  /\ ClientStep(c, from, "recv")
  /\ toServer' = [toServer EXCEPT ![c] = @ + 1]
  /\ edge' = edge \cup {c}
  /\ UNCHANGED <<table, server, sockets, network, computing, toClient, reset, hit>>

\* recv returns all that has come; only the first operation in it is computed.
Receive(c) ==
  /\ ClientStep(c, "recv", "answer")
  /\ toClient[c] > 0
  /\ toClient' = [toClient EXCEPT ![c] = 0]
  /\ UNCHANGED <<table, server, sockets, network, computing, edge, toServer, reset, hit>>

\* Ctrl+C, or a crash (of a division by zero, say).  With data unread the kernel sends a reset instead of a FIN.
Leave(c) ==
  /\ \E from \in {"send_name", "recv", "answer"} : ClientStep(c, from, "gone")
  /\ edge' = edge \cup {c}
  /\ reset' = IF toClient[c] > 0 THEN reset \cup {c} ELSE reset
  /\ UNCHANGED <<table, server, sockets, network, computing, toServer, toClient, hit>>

ClientNext(c) ==
  Connect(c) \/ Send(c, "send_name") \/ Receive(c) \/ Send(c, "answer") \/ Leave(c)

(***************************************************************************)
(* network_thread_function                                                 *)
(***************************************************************************)
NetworkStep(from, to) == server = "up" /\ npc = from /\ npc' = to

\* One turn of the accept loop: the lowest descriptor that is free is entered
\* in the next slot of the table.
Accept ==
  /\ NetworkStep("epoll_wait", "epoll_wait")
  /\ backlog # << >>
  /\ LET infd == Min(Descriptors \ open)
     IN  /\ owner' = [owner EXCEPT ![infd] = Head(backlog)]
         /\ open' = open \cup {infd}
         /\ client_descriptors' = [client_descriptors EXCEPT ![client_count] = infd]
  /\ client_count' = client_count + 1
  /\ backlog' = Tail(backlog)
  /\ hit' = IF kpc \in {"load_right", "clear"} /\ j = client_count
            THEN hit \cup {Head(backlog)} ELSE hit
  /\ UNCHANGED <<server, done_fd, computing, traffic>>

Reported(d) == d \in open /\ owner[d] \in edge

\* EPOLLERR or EPOLLHUP: the descriptor is closed, its entry stays.
ErrorEvent(d) ==
  /\ NetworkStep("epoll_wait", "epoll_wait")
  /\ Reported(d) /\ owner[d] \in reset
  /\ edge' = edge \ {owner[d]}
  /\ open' = open \ {d}
  /\ UNCHANGED <<table, server, owner, backlog, done_fd, computing, cpc, toServer,
                 toClient, reset, hit>>

DataEvent(d) ==
  /\ NetworkStep("epoll_wait", "read")
  /\ Reported(d) /\ owner[d] \notin reset
  /\ edge' = edge \ {owner[d]}
  /\ done_fd' = d
  /\ UNCHANGED <<table, server, sockets, computing, cpc, toServer, toClient, reset, hit>>

\* Mutant of Read: one read an event, as if epoll were level-triggered.
ReadOnce ==
  LET c == owner[done_fd]
  IN  /\ NetworkStep("read", IF toServer[c] = 0 /\ cpc[c] = "gone" THEN "clear" ELSE "epoll_wait")
      /\ toServer' = [toServer EXCEPT ![c] = 0]
      /\ UNCHANGED <<table, server, sockets, done_fd, computing, edge, cpc, toClient, reset, hit>>

\* One read(): data, which is shown and read on; EAGAIN, back to epoll_wait;
\* end of file or an error, done.
Read ==
  LET c == owner[done_fd]
  IN  /\ NetworkStep("read", IF toServer[c] > 0 THEN "read"
                             ELSE IF cpc[c] = "gone" THEN "clear" ELSE "epoll_wait")
      /\ toServer' = [toServer EXCEPT ![c] = 0]
      /\ done_fd' = IF npc' = "epoll_wait" THEN 0 ELSE done_fd
      /\ UNCHANGED <<table, server, sockets, computing, edge, cpc, toClient, reset, hit>>

SlotsOf(d) == {s \in Slots : client_descriptors[s] = d}

\* Mutant of ClearSlot: the loop ends with the first slot it clears.
ClearFirstSlot ==
  /\ NetworkStep("clear", "close")
  /\ SlotsOf(done_fd) # {}
  /\ client_descriptors' = [client_descriptors EXCEPT ![Min(SlotsOf(done_fd))] = 0]
  /\ UNCHANGED <<client_count, server, sockets, done_fd, computing, traffic, hit>>

\* The loop over the table.  A slot it passes without a match cannot come to
\* match later: the other thread writes nothing but 0.
ClearSlot ==
  /\ NetworkStep("clear", "clear")
  /\ SlotsOf(done_fd) # {}
  /\ client_descriptors' = [client_descriptors EXCEPT ![Min(SlotsOf(done_fd))] = 0]
  /\ UNCHANGED <<client_count, server, sockets, done_fd, computing, traffic, hit>>

Close ==
  /\ npc = "clear" => SlotsOf(done_fd) = {}
  /\ \/ NetworkStep("clear", "epoll_wait")
     \/ NetworkStep("close", "epoll_wait")
  /\ open' = open \ {done_fd}
  /\ done_fd' = 0
  /\ UNCHANGED <<table, server, owner, backlog, computing, traffic, hit>>

NetworkNext ==
  \/ Accept \/ Read \/ ClearSlot \/ Close
  \/ \E d \in Descriptors : ErrorEvent(d) \/ DataEvent(d)

(***************************************************************************)
(* computing_thread_function                                               *)
(***************************************************************************)
ComputingStep(from, to) == server = "up" /\ kpc = from /\ kpc' = to

Type ==
  /\ ComputingStep("scanf", "pick")
  /\ typed < Operations
  /\ typed' = typed + 1
  /\ UNCHANGED <<table, server, sockets, network, cl_desc, i, j, left, traffic, hit>>

\* rand() until a slot is not empty.
Pick ==
  /\ ComputingStep("pick", "write")
  /\ \E s \in Slots : /\ client_descriptors[s] # 0
                      /\ cl_desc' = client_descriptors[s]
  /\ UNCHANGED <<table, server, sockets, network, i, j, left, typed, traffic, hit>>

\* write(), its result ignored.  On a descriptor closed meanwhile it fails; to a
\* client that has gone it succeeds and is answered by a reset; after a reset
\* it raises SIGPIPE, which ends the server.
Write ==
  LET c == owner[cl_desc]
      gone == cl_desc \in open /\ cpc[c] = "gone"
  IN  /\ ComputingStep("write", "load_left")
      /\ server' = IF gone /\ c \in reset THEN "down" ELSE "up"
      /\ reset' = IF gone THEN reset \cup {c} ELSE reset
      /\ edge' = IF gone THEN edge \cup {c} ELSE edge
      /\ toClient' = IF cl_desc \in open /\ ~gone
                     THEN [toClient EXCEPT ![c] = @ + 1] ELSE toClient
  /\ cl_desc' = 0 /\ i' = 0 /\ j' = 1
  /\ UNCHANGED <<table, sockets, network, left, typed, cpc, toServer, hit>>

\* check_doubles: arr[i] and arr[j] are loaded one after the other, and arr[j]
\* is cleared a moment later, while the network thread goes on.
LoadLeft ==
  /\ ComputingStep("load_left", "load_right")
  /\ left' = client_descriptors[i]
  /\ UNCHANGED <<table, server, sockets, network, cl_desc, i, j, typed, traffic, hit>>

LastPair == i = MAX_CLIENTS_NUMBER - 2 /\ j = MAX_CLIENTS_NUMBER - 1

\* Mutant of NextPair: the inner loop starts at i.
NextPairFromSelf ==
  /\ kpc' = IF i = MAX_CLIENTS_NUMBER - 1 THEN "scanf" ELSE "load_left"
  /\ IF j = MAX_CLIENTS_NUMBER - 1 THEN i' = i + 1 /\ j' = i + 1
                                   ELSE i' = i /\ j' = j + 1

NextPair ==
  /\ kpc' = IF LastPair THEN "scanf" ELSE "load_left"
  /\ IF LastPair THEN i' = 0 /\ j' = 1
     ELSE IF j = MAX_CLIENTS_NUMBER - 1 THEN i' = i + 1 /\ j' = i + 2
     ELSE i' = i /\ j' = j + 1

LoadRight ==
  /\ server = "up" /\ kpc = "load_right"
  /\ IF client_descriptors[j] = left
     THEN kpc' = "clear" /\ UNCHANGED <<i, j>>
     ELSE NextPair
  /\ left' = 0
  /\ UNCHANGED <<table, server, sockets, network, cl_desc, typed, traffic, hit>>

ClearDouble ==
  /\ server = "up" /\ kpc = "clear"
  /\ client_descriptors' = [client_descriptors EXCEPT ![j] = 0]
  /\ NextPair
  /\ UNCHANGED <<client_count, server, sockets, network, cl_desc, left, typed, traffic, hit>>

ComputingNext == Type \/ Pick \/ Write \/ LoadLeft \/ LoadRight \/ ClearDouble

Next ==
  \/ NetworkNext
  \/ ComputingNext
  \/ \E c \in Clients : ClientNext(c)

Spec == Init /\ [][Next]_vars

\* The network thread runs whenever it can, and epoll_wait reports a ready
\* descriptor before it has reported all others again and again.
Fairness ==
  /\ WF_vars(NetworkNext)
  /\ \A d \in Descriptors : SF_vars(ErrorEvent(d)) /\ SF_vars(DataEvent(d))

FairSpec == Spec /\ Fairness

(***************************************************************************)
(* Properties                                                              *)
(***************************************************************************)
Connected(c) == \E d \in open : owner[d] = c

TypeOK ==
  /\ client_descriptors \in [Slots -> Descriptors \cup {0}]
  /\ client_count \in 0 .. MAX_CLIENTS_NUMBER
  /\ server \in {"up", "down"}
  /\ owner \in [Descriptors -> Clients \cup {NoClient}]
  /\ open \subseteq Descriptors
  /\ backlog \in Seq(Clients)
  /\ edge \subseteq Clients /\ reset \subseteq Clients /\ hit \subseteq Clients
  /\ npc \in {"epoll_wait", "read", "clear", "close"}
  /\ done_fd \in Descriptors \cup {0} /\ cl_desc \in Descriptors \cup {0}
  /\ kpc \in {"scanf", "pick", "write", "load_left", "load_right", "clear"}
  /\ i \in Slots /\ j \in Slots /\ left \in Descriptors \cup {0}
  /\ typed \in 0 .. Operations
  /\ cpc \in [Clients -> {"off", "send_name", "recv", "answer", "gone"}]
  /\ toServer \in [Clients -> Nat] /\ toClient \in [Clients -> Nat]

\* A connected client is in the table and gets work.  The one way to be
\* forgotten is to be stored, by accept, in the very slot check_doubles is
\* comparing: removing doubles never removes a client's last entry otherwise.
ForgottenOnlyIfHit ==
  \A d \in open :
    SlotsOf(d) # {} \/ owner[d] \in hit \/ (npc \in {"clear", "close"} /\ done_fd = d)

\* An entry for a closed descriptor was left by a connection that was reset:
\* a client that ends with nothing unread is unregistered, however often its
\* descriptor has been in the table.
StaleOnlyAfterReset ==
  \A s \in Slots :
    LET d == client_descriptors[s]
    IN  d \in Descriptors \ open => owner[d] \in reset

\* A client that has gone has its connection closed by the server: neither an
\* end of file behind unread data nor a late reset is missed.
GoneAreClosed ==
  \A c \in Clients : cpc[c] = "gone" ~> (server = "down" \/ (~Connected(c) /\ ~Contains(backlog, c)))
==============================================================================
