----------------------------- MODULE ProcessProofs -----------------------------
(***************************************************************************)
(* Proofs about programs of processes that talk through the kernel, which  *)
(* share a run (MCProcesses): the counted signals of cw04/zad3, whose      *)
(* names have no prefix here, the POSIX message queue of cw06/zad2, the    *)
(* pipelines of cw05/zad1 and the System V message queue of cw06/zad1.     *)
(***************************************************************************)
EXTENDS MCProcesses, FiniteSetTheorems, SequenceTheorems, FunctionTheorems, TLAPS

(***************************************************************************)
(* The counted signals, for every number of signals and every way to send  *)
(* them.  CountsAddUp is inductive once it is known that type 3 uses       *)
(* real-time signals only: a pending SIGUSR1 would be counted together     *)
(* with one of them; and that there is no child before fork().             *)
(***************************************************************************)

RealTimeOnly == type = TYPE_SIGRT_KILL => usr1 = 0 /\ usr2 = 0 /\ answer1 = 0

UnbornUntilFork == parent = "start" => child = "unborn"

IInv == TypeOK /\ RealTimeOnly /\ UnbornUntilFork /\ CountsAddUp

USE DEF TYPE_KILL, TYPE_SIGQUEUE, TYPE_SIGRT_KILL, OtherType

LEMMA InitHolds == Init => IInv
<1>. SUFFICES ASSUME Init PROVE IInv
  OBVIOUS
<1>1. TypeOK
  BY DEF Init, TypeOK
<1>2. RealTimeOnly
  BY DEF Init, RealTimeOnly
<1>3. CountsAddUp
  BY DEF Init, CountsAddUp, In
<1>4. UnbornUntilFork
  BY DEF Init, UnbornUntilFork
<1>. QED BY <1>1, <1>2, <1>3, <1>4 DEF IInv

\* Signals on their way to the child are added to, and to sent, together.
LEMMA SendStep ==
  ASSUME IInv, Send PROVE IInv'
<1>. USE DEF IInv, TypeOK, RealTimeOnly, UnbornUntilFork, CountsAddUp, In, args, childVars, toChild, toParent, ParentAlive
<1>1. CASE type = OtherType
  BY <1>1 DEF Send, my_kill_function
<1>2. CASE type = TYPE_SIGRT_KILL
  BY <1>2 DEF Send, my_kill_function
<1>3. CASE type \in {TYPE_KILL, TYPE_SIGQUEUE}
  BY <1>3 DEF Send, my_kill_function
<1>. QED BY <1>1, <1>2, <1>3

LEMMA StepHolds == IInv /\ [Next]_vars => IInv'
<1>. SUFFICES ASSUME IInv, [Next]_vars PROVE IInv'
  OBVIOUS
<1>. USE DEF IInv, TypeOK, RealTimeOnly, UnbornUntilFork, CountsAddUp, In, args, childVars, toChild, toParent, ParentAlive
<1>1. CASE Fork
  BY <1>1 DEF Fork
<1>2. CASE Send
  BY <1>2, SendStep
<1>3. CASE Exit
  BY <1>3 DEF Exit
<1>4. CASE sigint_handler
  BY <1>4 DEF sigint_handler, ChildAlive
<1>5. CASE parent_sigusr1_handler
  BY <1>5 DEF parent_sigusr1_handler
<1>6. CASE parent_sigrt1_handler
  BY <1>6 DEF parent_sigrt1_handler
<1>7. CASE Start
  BY <1>7 DEF Start
<1>8. CASE TakeSignal
  BY <1>8 DEF TakeSignal
<1>9. CASE Count
  BY <1>9 DEF Count
<1>10. CASE Answer
  BY <1>10 DEF Answer
<1>11. CASE child_sigusr2_handler
  BY <1>11 DEF child_sigusr2_handler
<1>12. CASE UNCHANGED vars
  BY <1>12 DEF vars
<1>. QED BY <1>1, <1>2, <1>3, <1>4, <1>5, <1>6, <1>7, <1>8, <1>9, <1>10, <1>11, <1>12 DEF Next

(***************************************************************************)
(* Neither process counts a signal that was not sent, and with real-time   *)
(* signals (parent.c:24-25) every one is counted or still on its way.      *)
(***************************************************************************)
THEOREM NothingMiscounted == Spec => []CountsAddUp
<1>1. IInv => CountsAddUp
  BY DEF IInv
<1>. QED BY InitHolds, StepHolds, <1>1, PTL DEF Spec

(***************************************************************************)
(* The POSIX message queue                                                 *)
(***************************************************************************)
InMq(n) == \E k \in 1 .. Len(mq) : mq[k] = n

Messages(n) == Len(clientQueue[n]) + (IF Posix!ServerHolds(n) THEN 1 ELSE 0)

\* The server has the name it serves from the moment it takes one; a client makes
\* up its name when it starts, once.
NamesFirst ==
  /\ IF posixServer \in {"start", "name"} THEN client_mq = Posix!NoName ELSE client_mq \in Names
  /\ \A c \in Clients :
       /\ posixPc[c] = "start" => name[c] = Posix!NoName
       /\ posixPc[c] \in {"register", "number", "send", "receive"} => name[c] \in Names

\* Nobody has heard of a name that no client has made up.
NamesAreMadeUp ==
  \A n \in Names \ {Posix!NoName} :
    (\A c \in Clients : name[c] # n) => clientQueue[n] = << >> /\ client_mq # n /\ ~InMq(n)

\* The message on a queue that only c uses, by what c does next.
Exchange(c) ==
  LET n == name[c]
  IN  /\ posixPc[c] = "register" => clientQueue[n] = << >> /\ client_mq # n
      /\ posixPc[c] = "number" => /\ Messages(n) <= 1
                                  /\ client_mq # n => clientQueue[n] = << >>
      /\ posixPc[c] \in {"send", "ended"} => Messages(n) = 0
      /\ posixPc[c] = "receive" => \/ Messages(n) = 1
                                   \/ Messages(n) = 0 /\ posixServer = "gone"
      /\ InMq(n) => posixPc[c] = "number" \/ client_mq = n

PosixInv ==
  /\ Posix!TypeOK /\ NamesFirst /\ NamesAreMadeUp
  /\ \A c \in Clients : name[c] # Posix!NoName /\ Posix!Alone(c) => Exchange(c)

\* A message added to a queue or taken from it.
LEMMA QueueTypes ==
  ASSUME NEW S, NEW q \in [Names -> Seq(S)], NEW n \in Names
  PROVE  /\ \A m \in S : [q EXCEPT ![n] = Append(@, m)] \in [Names -> Seq(S)]
         /\ q[n] # << >> => [q EXCEPT ![n] = Tail(@)] \in [Names -> Seq(S)] /\ Head(q[n]) \in S
<1>1. \A m \in S : Append(q[n], m) \in Seq(S)
  OBVIOUS
<1>2. q[n] # << >> => Tail(q[n]) \in Seq(S) /\ Head(q[n]) \in S
  OBVIOUS
<1>. QED BY <1>1, <1>2

LEMMA PosixInit == Posix!Init => PosixInv
<1>. SUFFICES ASSUME Posix!Init PROVE PosixInv
  OBVIOUS
<1>. USE DEF Posix!Init
<1>1. Posix!TypeOK
  <2>1. /\ clientQueue \in [Names -> Seq(Posix!Contents)] /\ mq \in Seq(Names)
        /\ buffer \in Posix!Contents
    BY DEF Posix!Contents
  <2>2. linked \in BOOLEAN /\ shutdown \in [Clients -> BOOLEAN]
    BY Zenon
  <2>. QED BY <2>1, <2>2 DEF Posix!TypeOK
<1>2. NamesFirst /\ NamesAreMadeUp
  BY DEF NamesFirst, NamesAreMadeUp, InMq
<1>. QED BY <1>1, <1>2 DEF PosixInv

LEMMA PosixTypes == PosixInv /\ [Posix!Next]_(Posix!vars) => Posix!TypeOK' /\ NamesFirst'
<1>. SUFFICES ASSUME PosixInv, [Posix!Next]_(Posix!vars) PROVE Posix!TypeOK' /\ NamesFirst'
  OBVIOUS
<1>. Posix!TypeOK /\ NamesFirst
  BY DEF PosixInv
<1>. USE DEF Posix!TypeOK, NamesFirst, Posix!serverVars, Posix!clientVars
<1>1. CASE Posix!CreateQueue
  BY <1>1 DEF Posix!CreateQueue
<1>2. CASE Posix!TakeName
  BY <1>2 DEF Posix!TakeName
<1>3. CASE Posix!SendNumber
  BY <1>3, QueueTypes DEF Posix!SendNumber, Posix!Sent, Posix!Contents
<1>4. CASE Posix!ServerReceive
  <2>1. clientQueue' \in [Names -> Seq(Posix!Contents)]
    BY <1>4, QueueTypes DEF Posix!ServerReceive, Posix!Received
  <2>2. buffer' \in Posix!Contents
    <3>1. Head(clientQueue[client_mq]) \in Posix!Contents
      BY <1>4, QueueTypes DEF Posix!ServerReceive
    <3>2. buffer' \in Posix!Processed(Head(clientQueue[client_mq]))
      BY <1>4 DEF Posix!ServerReceive
    <3>. QED BY <3>1, <3>2 DEF Posix!Processed, Posix!Contents
  <2>. QED BY <1>4, <2>1, <2>2 DEF Posix!ServerReceive
<1>5. CASE Posix!SendAnswer
  BY <1>5, QueueTypes DEF Posix!SendAnswer, Posix!Sent
<1>6. CASE Posix!Unlink
  BY <1>6 DEF Posix!Unlink
<1>7. ASSUME NEW c \in Clients, Posix!ClientNext(c) PROVE Posix!TypeOK' /\ NamesFirst'
  <2>. USE DEF Posix!Goto
  <2>1. CASE Posix!Open(c)
    BY <2>1 DEF Posix!Open
  <2>2. CASE Posix!Register(c)
    BY <2>2 DEF Posix!Register
  <2>3. CASE Posix!GetNumber(c)
    BY <2>3, QueueTypes DEF Posix!GetNumber, Posix!Received
  <2>4. CASE Posix!Send(c)
    <3>1. clientQueue' \in [Names -> Seq(Posix!Contents)]
      BY <2>4, QueueTypes DEF Posix!Send, Posix!Sent, Posix!Contents
    <3>2. shutdown' \in [Clients -> BOOLEAN]
      BY <2>4, ZenonT(30) DEF Posix!Send
    <3>. QED BY <2>4, <3>1, <3>2 DEF Posix!Send
  <2>5. CASE Posix!Receive(c)
    BY <2>5, QueueTypes DEF Posix!Receive, Posix!Received
  <2>. QED BY <1>7, <2>1, <2>2, <2>3, <2>4, <2>5 DEF Posix!ClientNext
<1>8. CASE UNCHANGED Posix!vars
  BY <1>8 DEF Posix!vars
<1>. QED BY <1>1, <1>2, <1>3, <1>4, <1>5, <1>6, <1>7, <1>8 DEF Posix!Next, Posix!ServerNext

\* A step that has nothing to do with the name n.
Apart(n) ==
  /\ clientQueue'[n] = clientQueue[n]
  /\ client_mq' = n <=> client_mq = n
  /\ InMq(n)' => InMq(n)
  /\ Posix!ServerHolds(n)' <=> Posix!ServerHolds(n)

\* What is appended to the server's queue, or taken from its head.
LEMMA MqChanges ==
  ASSUME NEW n, mq \in Seq(Names)
  PROVE  /\ mq # << >> /\ mq' = Tail(mq) => (InMq(n)' => InMq(n))
         /\ mq # << >> /\ Head(mq) = n => InMq(n)
         /\ \A m \in Names : mq' = Append(mq, m) /\ m # n => (InMq(n)' => InMq(n))
         /\ mq' = mq => (InMq(n)' => InMq(n))
BY DEF InMq

LEMMA ServerApart ==
  ASSUME PosixInv, Posix!ServerNext, NEW n \in Names \ {Posix!NoName}, client_mq # n,
         ~(Posix!TakeName /\ Head(mq) = n)
  PROVE  Apart(n) /\ UNCHANGED Posix!clientVars /\ posixServer # "gone"
<1>. Posix!TypeOK /\ NamesFirst
  BY DEF PosixInv
<1>. USE MqChanges DEF Apart, Posix!ServerHolds, Posix!TypeOK, NamesFirst
<1>1. CASE Posix!CreateQueue
  BY <1>1 DEF Posix!CreateQueue
<1>2. CASE Posix!TakeName
  BY <1>2 DEF Posix!TakeName
<1>3. CASE Posix!SendNumber
  BY <1>3 DEF Posix!SendNumber, Posix!Sent
<1>4. CASE Posix!ServerReceive
  BY <1>4 DEF Posix!ServerReceive, Posix!Received
<1>5. CASE Posix!SendAnswer
  BY <1>5 DEF Posix!SendAnswer, Posix!Sent
<1>6. CASE Posix!Unlink
  BY <1>6 DEF Posix!Unlink
<1>. QED BY <1>1, <1>2, <1>3, <1>4, <1>5, <1>6 DEF Posix!ServerNext

LEMMA ClientApart ==
  ASSUME PosixInv, NEW d \in Clients, Posix!ClientNext(d), NEW n \in Names \ {Posix!NoName},
         name[d] # n
  PROVE  Apart(n)
<1>. Posix!TypeOK /\ NamesFirst
  BY DEF PosixInv
<1>. USE MqChanges DEF Apart, Posix!ServerHolds, Posix!TypeOK, NamesFirst, Posix!serverVars
<1>1. CASE Posix!Open(d)
  BY <1>1 DEF Posix!Open
<1>2. CASE Posix!Register(d)
  BY <1>2 DEF Posix!Register
<1>3. CASE Posix!GetNumber(d)
  BY <1>3 DEF Posix!GetNumber, Posix!Received
<1>4. CASE Posix!Send(d)
  BY <1>4 DEF Posix!Send, Posix!Sent
<1>5. CASE Posix!Receive(d)
  BY <1>5 DEF Posix!Receive, Posix!Received
<1>. QED BY <1>1, <1>2, <1>3, <1>4, <1>5 DEF Posix!ClientNext

\* A step of one client is not a step of another; a name, once made up, is kept.
LEMMA ClientsOwn ==
  ASSUME PosixInv, NEW d \in Clients, Posix!ClientNext(d)
  PROVE  /\ UNCHANGED Posix!serverVars
         /\ \A c \in Clients \ {d} : name'[c] = name[c] /\ posixPc'[c] = posixPc[c]
         /\ name[d] # Posix!NoName => name'[d] = name[d]
BY DEF PosixInv, Posix!TypeOK, NamesFirst, Posix!ClientNext, Posix!Open, Posix!Register,
       Posix!GetNumber, Posix!Send, Posix!Receive, Posix!Goto, Posix!serverVars

LEMMA NamesStayMadeUp == PosixInv /\ [Posix!Next]_(Posix!vars) => NamesAreMadeUp'
<1>. SUFFICES ASSUME PosixInv, [Posix!Next]_(Posix!vars), NEW n \in Names \ {Posix!NoName},
                     \A c \in Clients : name'[c] # n
              PROVE  clientQueue'[n] = << >> /\ client_mq' # n /\ ~InMq(n)'
  BY DEF NamesAreMadeUp
<1>1. CASE Posix!ServerNext
  <2>1. \A c \in Clients : name[c] # n
    BY <1>1 DEF Posix!ServerNext, Posix!CreateQueue, Posix!TakeName, Posix!SendNumber,
         Posix!ServerReceive, Posix!SendAnswer, Posix!Unlink, Posix!clientVars
  <2>2. clientQueue[n] = << >> /\ client_mq # n /\ ~InMq(n)
    BY <2>1 DEF PosixInv, NamesAreMadeUp
  <2>3. ~(Posix!TakeName /\ Head(mq) = n)
    BY <2>2, MqChanges DEF Posix!TakeName, PosixInv, Posix!TypeOK
  <2>. QED BY <1>1, <2>2, <2>3, ServerApart DEF Apart
<1>2. ASSUME NEW d \in Clients, Posix!ClientNext(d)
      PROVE  clientQueue'[n] = << >> /\ client_mq' # n /\ ~InMq(n)'
  <2>1. \A c \in Clients : name[c] # n
    BY <1>2, ClientsOwn
  <2>2. clientQueue[n] = << >> /\ client_mq # n /\ ~InMq(n)
    BY <2>1 DEF PosixInv, NamesAreMadeUp
  <2>. QED BY <1>2, <2>1, <2>2, ClientApart DEF Apart
<1>3. CASE UNCHANGED Posix!vars
  BY <1>3 DEF Posix!vars, Posix!clientVars, Posix!serverVars, PosixInv, NamesAreMadeUp, InMq
<1>. QED BY <1>1, <1>2, <1>3 DEF Posix!Next

\* A step elsewhere leaves the exchange with c as it is.
LEMMA ApartKeepsExchange ==
  ASSUME NEW c \in Clients, Exchange(c), Apart(name[c]),
         name'[c] = name[c], posixPc'[c] = posixPc[c],
         posixServer = "gone" => posixServer' = "gone"
  PROVE  Exchange(c)'
<1>1. Messages(name[c])' = Messages(name[c])
  BY DEF Apart, Messages
<1>. QED BY <1>1 DEF Exchange, Apart

\* The server's steps on the queue it serves: it takes the one message or puts it back.
LEMMA ServerExchange ==
  ASSUME PosixInv, NEW c \in Clients, name[c] # Posix!NoName, Exchange(c), Posix!ServerNext
  PROVE  Exchange(c)'
<1>n. PICK n : n = name[c]
  OBVIOUS
<1>. Posix!TypeOK /\ NamesFirst
  BY DEF PosixInv
<1>. USE <1>n
<1>0. n \in Names \ {Posix!NoName} /\ Len(clientQueue[n]) \in Nat
  BY DEF Posix!TypeOK
<1>1. CASE client_mq # n /\ ~(Posix!TakeName /\ Head(mq) = n)
  <2>1. Apart(n) /\ UNCHANGED Posix!clientVars /\ posixServer # "gone"
    BY <1>0, <1>1, ServerApart
  <2>. QED BY <2>1, ApartKeepsExchange DEF Posix!clientVars
<1>2. CASE Posix!TakeName /\ Head(mq) = n
  <2>1. client_mq # n /\ InMq(n)
    BY <1>2, MqChanges DEF Posix!TakeName, NamesFirst, Posix!TypeOK
  <2>2. posixPc[c] = "number" /\ clientQueue[n] = << >>
    BY <2>1 DEF Exchange
  <2>3. /\ client_mq' = n /\ posixServer' = "number" /\ UNCHANGED <<clientQueue, posixPc, name>>
    BY <1>2 DEF Posix!TakeName, Posix!clientVars
  <2>4. Messages(n)' = 1
    BY <2>2, <2>3 DEF Messages, Posix!ServerHolds
  <2>. QED BY <2>2, <2>3, <2>4 DEF Exchange
<1>3. CASE client_mq = n /\ posixServer \notin {"start", "name"}
  <2>1. UNCHANGED <<client_mq, posixPc, name>> /\ posixPc[c] # "register"
    BY <1>3 DEF Posix!ServerNext, Posix!CreateQueue, Posix!TakeName, Posix!SendNumber,
         Posix!ServerReceive, Posix!SendAnswer, Posix!Unlink, Posix!clientVars, Exchange
  <2>2. CASE Posix!SendNumber \/ Posix!SendAnswer
    <3>1. /\ posixServer \in {"number", "answer"} /\ posixServer' \notin {"number", "answer"}
          /\ Len(clientQueue'[n]) = Len(clientQueue[n]) + 1
      BY <1>0, <1>3, <2>2 DEF Posix!SendNumber, Posix!SendAnswer, Posix!Sent, Posix!TypeOK, Posix!Contents
    <3>2. Messages(n)' = Messages(n) /\ posixServer # "gone"
      BY <1>0, <1>3, <2>1, <3>1 DEF Messages, Posix!ServerHolds
    <3>. QED BY <1>3, <2>1, <3>2 DEF Exchange
  <2>3. CASE Posix!ServerReceive
    <3>1. /\ posixServer = "receive" /\ clientQueue[n] # << >>
          /\ Len(clientQueue'[n]) = Len(clientQueue[n]) - 1
          /\ posixServer' \in {"answer", "gone"}
      BY <1>0, <1>3, <2>3 DEF Posix!ServerReceive, Posix!Received, Posix!TypeOK
    <3>2. Len(clientQueue[n]) # 0
      BY <1>0, <3>1 DEF Posix!TypeOK
    <3>3. Messages(n) = Len(clientQueue[n])
      BY <1>0, <3>1 DEF Messages, Posix!ServerHolds
    <3>4. posixServer' = "answer" => Messages(n)' = Messages(n)
      BY <1>0, <1>3, <2>1, <3>1, <3>3 DEF Messages, Posix!ServerHolds
    <3>5. posixServer' = "gone" => Messages(n)' = Messages(n) - 1
      BY <1>0, <1>3, <2>1, <3>1, <3>3 DEF Messages, Posix!ServerHolds
    <3>6. posixPc[c] \notin {"send", "ended"}
      BY <1>0, <3>2, <3>3 DEF Exchange
    <3>7. InMq(n)' => client_mq' = n
      BY <1>3, <2>1
    <3>8. CASE posixPc[c] = "number"
      <4>1. Messages(n) <= 1 /\ Messages(n)' <= 1
        BY <1>0, <3>1, <3>2, <3>3, <3>4, <3>5, <3>8 DEF Exchange
      <4>. QED BY <1>3, <2>1, <3>8, <4>1 DEF Exchange
    <3>9. CASE posixPc[c] = "receive"
      <4>1. Messages(n) = 1
        BY <1>0, <3>2, <3>3, <3>9 DEF Exchange
      <4>2. \/ Messages(n)' = 1
            \/ Messages(n)' = 0 /\ posixServer' = "gone"
        BY <3>1, <3>4, <3>5, <4>1
      <4>. QED BY <2>1, <3>7, <3>9, <4>2 DEF Exchange
    <3>. QED BY <2>1, <3>6, <3>7, <3>8, <3>9 DEF Exchange
  <2>4. CASE Posix!Unlink
    <3>1. Messages(n)' = Messages(n) /\ posixServer # "gone"
      BY <2>1, <2>4 DEF Posix!Unlink, Messages, Posix!ServerHolds
    <3>. QED BY <1>3, <2>1, <3>1 DEF Exchange
  <2>5. ~Posix!CreateQueue /\ ~Posix!TakeName
    BY <1>3 DEF Posix!CreateQueue, Posix!TakeName
  <2>. QED BY <2>2, <2>3, <2>4, <2>5 DEF Posix!ServerNext
<1>. QED BY <1>1, <1>2, <1>3 DEF NamesFirst, Posix!ServerNext

\* The client's own steps: it takes the one message, or sends it.
LEMMA ClientExchange ==
  ASSUME PosixInv, NEW c \in Clients, name[c] # Posix!NoName, Exchange(c), Posix!ClientNext(c)
  PROVE  Exchange(c)'
<1>n. PICK n : n = name[c]
  OBVIOUS
<1>. Posix!TypeOK /\ NamesFirst
  BY DEF PosixInv
<1>. USE <1>n
<1>0. n \in Names \ {Posix!NoName} /\ Len(clientQueue[n]) \in Nat
  BY DEF Posix!TypeOK
<1>1. UNCHANGED <<posixServer, client_mq>> /\ name'[c] = n
  BY ClientsOwn DEF Posix!serverVars
<1>2. ~Posix!Open(c)
  BY DEF Posix!Open, NamesFirst
<1>3. CASE Posix!Register(c)
  <2>1. posixPc[c] = "register" /\ posixPc'[c] = "number" /\ UNCHANGED clientQueue
    BY <1>3 DEF Posix!Register, Posix!Goto, Posix!TypeOK
  <2>2. Messages(n)' = 0
    BY <1>1, <2>1 DEF Exchange, Messages, Posix!ServerHolds
  <2>. QED BY <1>1, <2>1, <2>2 DEF Exchange
<1>4. CASE Posix!GetNumber(c) \/ Posix!Receive(c)
  <2>1. /\ posixPc[c] \in {"number", "receive"} /\ posixPc'[c] \in {"send", "ended"}
        /\ Len(clientQueue'[n]) = Len(clientQueue[n]) - 1 /\ clientQueue[n] # << >>
        /\ UNCHANGED mq
    BY <1>0, <1>4 DEF Posix!GetNumber, Posix!Receive, Posix!Received, Posix!Goto, Posix!TypeOK
  <2>2. Len(clientQueue[n]) # 0
    BY <1>0, <2>1 DEF Posix!TypeOK
  <2>3. Messages(n) <= 1
    BY <1>0, <2>1 DEF Exchange
  <2>4. ~Posix!ServerHolds(n) /\ Len(clientQueue'[n]) = 0
    <3>1. CASE Posix!ServerHolds(n)
      <4>1. Messages(n) = Len(clientQueue[n]) + 1
        BY <3>1 DEF Messages
      <4>. QED BY <1>0, <2>1, <2>2, <2>3, <4>1
    <3>2. CASE ~Posix!ServerHolds(n)
      <4>1. Len(clientQueue[n]) <= 1
        <5>1. Len(clientQueue[n]) + 0 <= 1
          BY <2>3, <3>2 DEF Messages
        <5>. QED BY <1>0, <5>1
      <4>2. Len(clientQueue[n]) = 1
        <5>1. \A len \in Nat : len # 0 /\ len <= 1 => len = 1
          OBVIOUS
        <5>. QED BY <1>0, <2>2, <4>1, <5>1
      <4>3. Len(clientQueue'[n]) = 0
        BY <2>1, <4>2
      <4>. QED BY <3>2, <4>3
    <3>. QED BY <3>1, <3>2
  <2>5. ~Posix!ServerHolds(n)'
    BY <1>1, <2>4 DEF Posix!ServerHolds
  <2>6. Messages(n)' = 0
    BY <2>4, <2>5 DEF Messages
  <2>7. InMq(n)' => client_mq = n
    BY <2>1, <2>2 DEF Exchange, InMq
  <2>. QED BY <1>1, <2>1, <2>6, <2>7 DEF Exchange
<1>5. CASE Posix!Send(c)
  <2>1. /\ posixPc[c] = "send" /\ posixPc'[c] = "receive" /\ UNCHANGED mq
        /\ Len(clientQueue'[n]) = Len(clientQueue[n]) + 1
    BY <1>0, <1>5 DEF Posix!Send, Posix!Sent, Posix!Goto, Posix!TypeOK, Posix!Contents
  <2>2. Messages(n) = 0
    BY <2>1 DEF Exchange
  <2>3. ~Posix!ServerHolds(n) /\ Len(clientQueue'[n]) = 1
    <3>1. CASE Posix!ServerHolds(n)
      <4>1. Messages(n) = Len(clientQueue[n]) + 1
        BY <3>1 DEF Messages
      <4>. QED BY <1>0, <2>1, <2>2, <4>1
    <3>2. CASE ~Posix!ServerHolds(n)
      <4>1. Messages(n) = Len(clientQueue[n]) + 0
        BY <3>2 DEF Messages
      <4>. QED BY <1>0, <2>1, <2>2, <3>2, <4>1
    <3>. QED BY <3>1, <3>2
  <2>4. ~Posix!ServerHolds(n)'
    BY <1>1, <2>3 DEF Posix!ServerHolds
  <2>5. Messages(n)' = 1
    BY <2>3, <2>4 DEF Messages
  <2>6. InMq(n)' => client_mq = n
    BY <2>1 DEF Exchange, InMq
  <2>. QED BY <1>1, <2>1, <2>5, <2>6 DEF Exchange
<1>. QED BY <1>2, <1>3, <1>4, <1>5 DEF Posix!ClientNext

LEMMA PosixHolds == PosixInv /\ [Posix!Next]_(Posix!vars) => PosixInv'
<1>. SUFFICES ASSUME PosixInv, [Posix!Next]_(Posix!vars), NEW c \in Clients,
                     name'[c] # Posix!NoName, Posix!Alone(c)'
              PROVE  Exchange(c)'
  BY PosixTypes, NamesStayMadeUp DEF PosixInv
<1>. Posix!TypeOK /\ NamesFirst
  BY DEF PosixInv
<1>1. CASE Posix!ServerNext
  <2>1. UNCHANGED name
    BY <1>1 DEF Posix!ServerNext, Posix!CreateQueue, Posix!TakeName, Posix!SendNumber,
         Posix!ServerReceive, Posix!SendAnswer, Posix!Unlink, Posix!clientVars
  <2>2. name[c] # Posix!NoName /\ Posix!Alone(c)
    BY <2>1 DEF Posix!Alone
  <2>. QED BY <1>1, <2>2, ServerExchange DEF PosixInv
<1>2. ASSUME NEW d \in Clients, d # c, Posix!ClientNext(d) PROVE Exchange(c)'
  <2>1. /\ name'[c] = name[c] /\ posixPc'[c] = posixPc[c] /\ UNCHANGED posixServer
        /\ \A e \in Clients \ {c} : name[e] # name[c]
    BY <1>2, ClientsOwn DEF Posix!Alone, Posix!serverVars
  <2>2. name[c] \in Names \ {Posix!NoName} /\ Posix!Alone(c)
    BY <2>1 DEF Posix!TypeOK, Posix!Alone
  <2>3. Apart(name[c])
    BY <1>2, <2>1, <2>2, ClientApart
  <2>4. Exchange(c)
    BY <2>2 DEF PosixInv
  <2>. QED BY <2>1, <2>3, <2>4, ApartKeepsExchange
<1>3. CASE Posix!ClientNext(c)
  <2>1. CASE Posix!Open(c)
    <3>1. /\ UNCHANGED <<mq, clientQueue, client_mq, posixServer>>
          /\ posixPc'[c] \in {"register", "ended"}
      BY <2>1 DEF Posix!Open, Posix!Goto, Posix!TypeOK, Posix!serverVars
    <3>2. /\ name'[c] \in Names \ {Posix!NoName}
          /\ \A e \in Clients : name[e] # name'[c]
      <4>1. name'[c] \in Names \ {Posix!NoName} /\ name[c] = Posix!NoName
        BY <2>1 DEF Posix!Open, Posix!TypeOK, NamesFirst
      <4>2. \A e \in Clients \ {c} : name'[e] = name[e] /\ name'[e] # name'[c]
        BY <1>3, ClientsOwn DEF Posix!Alone
      <4>. QED BY <4>1, <4>2
    <3>3. clientQueue[name'[c]] = << >> /\ client_mq # name'[c] /\ ~InMq(name'[c])
      BY <3>2 DEF PosixInv, NamesAreMadeUp
    <3>4. Messages(name[c])' = 0
      BY <3>1, <3>3 DEF Messages, Posix!ServerHolds
    <3>5. ~InMq(name[c])'
      BY <3>1, <3>3 DEF InMq
    <3>. QED BY <3>1, <3>3, <3>4, <3>5 DEF Exchange
  <2>2. CASE ~Posix!Open(c)
    <3>1. UNCHANGED name
      BY <1>3, <2>2 DEF Posix!ClientNext, Posix!Register, Posix!GetNumber, Posix!Send, Posix!Receive
    <3>2. Exchange(c)
      BY <3>1 DEF PosixInv, Posix!Alone
    <3>. QED BY <1>3, <3>1, <3>2, ClientExchange
  <2>. QED BY <2>1, <2>2
<1>4. CASE UNCHANGED Posix!vars
  <2>1. UNCHANGED <<mq, clientQueue, client_mq, posixServer, posixPc, name>>
    BY <1>4 DEF Posix!vars, Posix!clientVars, Posix!serverVars
  <2>2. Exchange(c)
    BY <2>1 DEF PosixInv, Posix!Alone
  <2>. QED BY <2>1, <2>2 DEF Exchange, Messages, Posix!ServerHolds, InMq
<1>. QED BY <1>1, <1>2, <1>3, <1>4 DEF Posix!Next

\* A step of the run is a step of the message queue's program or of none of its variables.
LEMMA PosixSteps == [ProcessesNext]_processVars => [Posix!Next]_(Posix!vars)
<1>1. UNCHANGED queuesVars => UNCHANGED Posix!vars
  BY DEF queuesVars, Posix!vars, Posix!clientVars, Posix!serverVars
<1>2. UNCHANGED <<mq, linked, clientQueue, posixServer, client_mq, buffer, posixPc, name, shutdown>>
        => UNCHANGED Posix!vars
  BY DEF Posix!vars, Posix!clientVars, Posix!serverVars
<1>. QED BY <1>1, <1>2 DEF ProcessesNext, processVars, PermissionStep, CountsStep, PipesStep, SysVStep,
                          PosixStep, SignalledStep

(***************************************************************************)
(* On a queue that one client uses there is never a second message, and    *)
(* while the client waits in its loop the one message is on its way, for   *)
(* any clients and any names (cw06/zad2/client.c:82, server.c:62).         *)
(***************************************************************************)
THEOREM OneMessageOnly == ProcessesSpec => []OneMessage
<1>1. ProcessesInit => PosixInv
  BY PosixInit DEF ProcessesInit
<1>2. PosixInv /\ [ProcessesNext]_processVars => PosixInv'
  BY PosixHolds, PosixSteps
<1>3. PosixInv => OneMessage
  <2>. SUFFICES ASSUME PosixInv, NEW c \in Clients, name[c] # Posix!NoName, Posix!Alone(c)
                PROVE  /\ Messages(name[c]) <= 1
                       /\ posixPc[c] = "receive" /\ Messages(name[c]) = 0 => posixServer = "gone"
    BY DEF OneMessage, Posix!OneMessage, Messages
  <2>. Posix!TypeOK /\ Exchange(c)
    BY DEF PosixInv
  <2>1. CASE posixPc[c] \in {"register", "number", "send", "receive", "ended"}
    <3>1. posixPc[c] = "register" => Messages(name[c]) = 0
      BY DEF Exchange, Messages, Posix!ServerHolds
    <3>. QED BY <2>1, <3>1 DEF Exchange
  <2>2. posixPc[c] # "start"
    BY DEF PosixInv, NamesFirst
  <2>. QED BY <2>1, <2>2 DEF Posix!TypeOK
<1>. QED BY <1>1, <1>2, <1>3, PTL DEF ProcessesSpec

(***************************************************************************)
(* The pipelines                                                           *)
(***************************************************************************)
Occupied(slots) == {s \in Pipes!Slots : slots[s] # Pipes!NoPipe}

Descriptors == [stdin : Nat, stdout : Nat, holds : SUBSET Nat]

\* The arrays hold slots when they are used.
PairSet ==
  pipePc = "programs" /\ segment < Len(programs) =>
    /\ segment > 0 => {write_pipe, read_pipe} \subseteq Pipes!Slots
    /\ segment = 0 /\ ~programs[1] => read_pipe \in Pipes!Slots

PipeTypes ==
  /\ Pipes!TypeOK /\ segment <= Len(programs) /\ Len(programs) <= MaxPrograms
  /\ \A k \in DOMAIN started : started[k] \in Descriptors
  /\ PairSet
  /\ pipePc # "getline" => DOMAIN started = {k \in 0 .. segment - 1 : programs[k + 1]}
  /\ \A s \in Pipes!Slots : slot[s] <= made
  /\ pipePc = "programs" /\ segment = 0 => before = made

\* A line leaves one slot behind at most, and uses two.
SlotsLeft ==
  /\ pipePc # "programs" => Cardinality(Occupied(slot)) <= lines
  /\ pipePc = "programs" /\ segment = 0 => Cardinality(Occupied(slot)) + 1 <= lines
  /\ pipePc = "programs" /\ segment > 0 =>
       Cardinality(Occupied(slot) \ {write_pipe, read_pipe}) + 1 <= lines

\* The slots the next program reads from and, unless it is the last, writes to.
NextStdin == Pipes!swap_write_read_pipes[2]
NextStdout == Pipes!swap_write_read_pipes[1]

\* Programs one after the other share a pipe of this line.
Joined ==
  \A k, l \in DOMAIN started : k < l =>
    /\ started[k].stdin < started[l].stdin
    /\ (\A m \in DOMAIN started : m <= k \/ m >= l) =>
         started[k].stdout > before /\ started[l].stdin = started[k].stdout

\* Pipes are made in the order of the programs; nobody keeps a pipe of this line.
HalfLine ==
  LET r == NextStdin
      w == NextStdout
  IN  /\ r # w /\ before < slot[r] /\ slot[r] < slot[w] /\ slot[w] = made
      /\ \A s \in Pipes!Slots \ {r, w} : slot[s] <= before
      /\ Joined /\ started[0].stdin = Pipes!Terminal
      /\ \A k \in DOMAIN started :
           /\ started[k].stdin < slot[r] /\ started[k].stdout <= slot[r]
           /\ \A p \in started[k].holds : p <= before
           /\ (\A m \in DOMAIN started : m <= k) => started[k].stdout = slot[r]
           /\ \A l \in DOMAIN started : k < l => started[k].stdout < started[l].stdout

\* The last program also inherits the pipe that was made for its output and is not used.
WholeLine ==
  LET last == Len(programs) - 1
  IN  /\ segment = Len(programs)
      /\ Joined /\ started[0].stdin = Pipes!Terminal /\ started[last].stdout = Pipes!Terminal
      /\ \A k \in DOMAIN started : \A p \in started[k].holds :
           p <= before \/ \A m \in DOMAIN started : started[m].stdout < p
      /\ \A k, l \in DOMAIN started \ {last} : k < l => started[k].stdout < started[l].stdout
      /\ \A s \in Pipes!Slots : slot[s] <= before \/ (pipePc = "programs" /\ s = write_pipe)

LineInv ==
  pipePc # "getline" /\ programs # << >> /\ programs[1] =>
    /\ pipePc = "programs" /\ segment > 0 /\ segment < Len(programs) => HalfLine
    /\ pipePc = "waitpid" \/ segment = Len(programs) => (programs[Len(programs)] => WholeLine)

PipeInv == PipeTypes /\ SlotsLeft /\ LineInv

\* A set of numbers that is not empty has a least one.
LEMMA MinElement ==
  ASSUME NEW S, S \subseteq Nat, S # {}
  PROVE  Pipes!Min(S) \in S
<1>1. \E x \in S : \A y \in S : ~(<<y, x>> \in OpToRel(<, Nat))
  BY NatLessThanWellFounded, WFMin
<1>2. \E x \in S : \A y \in S : x =< y
  <2>1. PICK x \in S : \A y \in S : ~(<<y, x>> \in OpToRel(<, Nat))
    BY <1>1
  <2>2. \A y \in S : ~(y < x)
    BY <2>1 DEF OpToRel
  <2>. QED BY <2>2
<1>. QED BY <1>2 DEF Pipes!Min

LEMMA SlotSets ==
  ASSUME MaxLines \in Nat, NEW B, B \subseteq Pipes!Slots
  PROVE  /\ IsFiniteSet(B) /\ Cardinality(B) \in Nat /\ Cardinality(B) <= MaxLines + 2
         /\ Cardinality(B) < MaxLines + 2 => B # Pipes!Slots
         /\ \A S : S \subseteq B => Cardinality(S) <= Cardinality(B)
         /\ \A S, w : S \subseteq B \cup {w} => Cardinality(S) <= Cardinality(B) + 1
<1>1. IsFiniteSet(Pipes!Slots) /\ Cardinality(Pipes!Slots) = MaxLines + 2
  BY FS_Interval DEF Pipes!Slots
<1>2. IsFiniteSet(B) /\ Cardinality(B) \in Nat /\ Cardinality(B) <= MaxLines + 2
  BY <1>1, FS_Subset, FS_CardinalityType
<1>3. \A S : S \subseteq B => Cardinality(S) <= Cardinality(B)
  BY <1>2, FS_Subset
<1>4. ASSUME NEW S, NEW w, S \subseteq B \cup {w} PROVE Cardinality(S) <= Cardinality(B) + 1
  <2>1. /\ IsFiniteSet(B \cup {w})
        /\ Cardinality(B \cup {w}) = Cardinality(B) \/ Cardinality(B \cup {w}) = Cardinality(B) + 1
    BY <1>2, FS_AddElement
  <2>2. Cardinality(S) <= Cardinality(B \cup {w}) /\ Cardinality(S) \in Nat
    BY <1>4, <2>1, FS_Subset, FS_CardinalityType
  <2>. QED BY <1>2, <2>1, <2>2
<1>5. Cardinality(B) < MaxLines + 2 => B # Pipes!Slots
  BY <1>1
<1>6. \A S, w : S \subseteq B \cup {w} => Cardinality(S) <= Cardinality(B) + 1
  BY <1>4
<1>. QED BY <1>2, <1>3, <1>5, <1>6

\* There is a free slot when a line opens a pipe.
LEMMA FreeSlot ==
  ASSUME NEW slots \in [Pipes!Slots -> Nat], MaxLines \in Nat, Cardinality(Occupied(slots)) <= MaxLines
  PROVE  Pipes!Free(slots) \in Pipes!Slots /\ slots[Pipes!Free(slots)] = 0
<1>. DEFINE S == {s \in Pipes!Slots : slots[s] = Pipes!NoPipe}
<1>1. S \subseteq Nat
  BY DEF Pipes!Slots
<1>2. S # {}
  <2>1. Cardinality(Occupied(slots)) \in Nat /\ Occupied(slots) # Pipes!Slots
    BY SlotSets DEF Occupied
  <2>. QED BY <2>1 DEF Occupied
<1>3. Pipes!Min(S) \in S
  BY <1>1, <1>2, MinElement
<1>. QED BY <1>3 DEF Pipes!Free, Pipes!NoPipe

LEMMA Closes ==
  ASSUME NEW slots \in [Pipes!Slots -> Nat], NEW s
  PROVE  /\ Pipes!Closed(slots, s) \in [Pipes!Slots -> Nat]
         /\ \A t \in Pipes!Slots : Pipes!Closed(slots, s)[t] = IF t = s THEN 0 ELSE slots[t]
<1>1. CASE s = Pipes!Unset
  BY <1>1 DEF Pipes!Closed, Pipes!Slots, Pipes!Unset
<1>2. CASE s # Pipes!Unset
  BY <1>2 DEF Pipes!Closed, Pipes!NoPipe
<1>. QED BY <1>1, <1>2

\* What a program starts with, and that it inherits what it was not given, but
\* for the slots it was given.
LEMMA ForkedTypes ==
  ASSUME NEW slots \in [Pipes!Slots -> Nat], NEW k \in Nat, NEW w \in Pipes!Slots, NEW r,
         k > 0 => r \in Pipes!Slots
  PROVE  Pipes!Forked(k, w, r, slots) \in Descriptors
<1>. DEFINE last == k = Len(programs) - 1
            piped == {s \in {w, r} : (s = w /\ ~last) \/ (s = r /\ k > 0)}
            holds == {slots[s] : s \in Pipes!Slots \ piped} \ {Pipes!NoPipe}
            stdin == IF k > 0 THEN slots[r] ELSE Pipes!Terminal
            stdout == IF last THEN Pipes!Terminal ELSE slots[w]
<1>1. holds \in SUBSET Nat /\ stdin \in Nat /\ stdout \in Nat
  BY DEF Pipes!Terminal
<1>2. Pipes!Failed \in Descriptors
  BY DEF Pipes!Failed, Pipes!Terminal, Descriptors
<1>3. \/ Pipes!Forked(k, w, r, slots) = Pipes!Failed
      \/ Pipes!Forked(k, w, r, slots) = [stdin |-> stdin, stdout |-> stdout, holds |-> holds]
  BY DEF Pipes!Forked, Pipes!number_of_programs
<1>4. \A a, b \in Nat, h \in SUBSET Nat : [stdin |-> a, stdout |-> b, holds |-> h] \in Descriptors
  BY DEF Descriptors
<1>. HIDE DEF holds, stdin, stdout
<1>. QED BY <1>1, <1>2, <1>3, <1>4

LEMMA ForkedWell ==
  ASSUME NEW slots \in [Pipes!Slots -> Nat], NEW k \in Nat, NEW w \in Pipes!Slots, NEW r,
         k # Len(programs) - 1 => slots[w] # 0,
         k > 0 => r \in Pipes!Slots /\ slots[r] # 0 /\ r # w
  PROVE  LET f == Pipes!Forked(k, w, r, slots)
         IN  /\ f.stdin = IF k > 0 THEN slots[r] ELSE 0
             /\ f.stdout = IF k = Len(programs) - 1 THEN 0 ELSE slots[w]
             /\ \A p \in f.holds : \E s \in Pipes!Slots :
                  p = slots[s] /\ (k # Len(programs) - 1 => s # w) /\ (k > 0 => s # r)
<1>. DEFINE last == k = Len(programs) - 1
            piped == {s \in {w, r} : (s = w /\ ~last) \/ (s = r /\ k > 0)}
            holds == {slots[s] : s \in Pipes!Slots \ piped} \ {Pipes!NoPipe}
            stdin == IF k > 0 THEN slots[r] ELSE 0
            stdout == IF last THEN 0 ELSE slots[w]
<1>1. \A p \in holds : \E s \in Pipes!Slots : p = slots[s] /\ (~last => s # w) /\ (k > 0 => s # r)
  OBVIOUS
<1>2. Pipes!Forked(k, w, r, slots) = [stdin |-> stdin, stdout |-> stdout, holds |-> holds]
  BY DEF Pipes!Forked, Pipes!number_of_programs, Pipes!Terminal, Pipes!NoPipe
<1>. HIDE DEF holds
<1>. QED BY <1>1, <1>2

LEMMA ForkedFirst ==
  ASSUME NEW slots \in [Pipes!Slots -> Nat], NEW w \in Pipes!Slots, NEW r,
         Len(programs) \in Nat, slots[w] # 0
  PROVE  LET f == Pipes!Forked(0, w, r, slots)
         IN  /\ f.stdin = 0
             /\ f.stdout = IF Len(programs) = 1 THEN 0 ELSE slots[w]
             /\ \A p \in f.holds : \E s \in Pipes!Slots : p = slots[s] /\ (Len(programs) # 1 => s # w)
<1>. DEFINE piped == {s \in {w, r} : (s = w /\ Len(programs) # 1) \/ (s = r /\ 0 > 0)}
            holds == {slots[s] : s \in Pipes!Slots \ piped} \ {Pipes!NoPipe}
            stdout == IF Len(programs) = 1 THEN 0 ELSE slots[w]
<1>1. \A p \in holds : \E s \in Pipes!Slots : p = slots[s] /\ (Len(programs) # 1 => s # w)
  OBVIOUS
<1>2. 0 = Len(programs) - 1 <=> Len(programs) = 1
  OBVIOUS
<1>3. Pipes!Forked(0, w, r, slots) = [stdin |-> 0, stdout |-> stdout, holds |-> holds]
  BY <1>2 DEF Pipes!Forked, Pipes!number_of_programs, Pipes!Terminal, Pipes!NoPipe
<1>. HIDE DEF holds, stdout
<1>4. Pipes!Forked(0, w, r, slots).stdin = 0
  BY <1>3
<1>5. Pipes!Forked(0, w, r, slots).stdout = stdout
  BY <1>3
<1>6. Pipes!Forked(0, w, r, slots).holds = holds
  BY <1>3
<1>. QED BY <1>1, <1>4, <1>5, <1>6 DEF stdout

(* The names of Program: the slots after a line's first pipe is made, the two
   slots of this program, the slots after the one it reads from is closed. *)
Opened == IF segment = 0 THEN [slot EXCEPT ![Pipes!Free(slot)] = made + 1] ELSE slot
WriteTo == IF segment = 0 THEN Pipes!Free(slot) ELSE NextStdout
Kept == IF segment > 0 THEN Pipes!Closed(Opened, NextStdin) ELSE Opened
MadeSoFar == IF segment = 0 THEN made + 1 ELSE made
Last == segment = Len(programs) - 1
Leaks == IF segment = 0 THEN Occupied(slot) ELSE Occupied(slot) \ {write_pipe, read_pipe}

LEMMA PairRange ==
  ASSUME PipeTypes, Pipes!Program
  PROVE  /\ segment \in Nat /\ segment < Len(programs) /\ Len(programs) \in Nat /\ pipePc = "programs"
         /\ segment > 0 => {NextStdin, NextStdout} = {write_pipe, read_pipe}
                           /\ NextStdin \in Pipes!Slots /\ NextStdout \in Pipes!Slots
         /\ segment = 0 => NextStdin = read_pipe
         /\ segment = 0 /\ ~programs[1] => NextStdin \in Pipes!Slots
         /\ NextStdin \in Pipes!Slots \cup {Pipes!Unset}
<1>1. segment \in Nat /\ segment < Len(programs) /\ Len(programs) \in Nat /\ pipePc = "programs"
  BY DEF PipeTypes, Pipes!TypeOK, Pipes!Program, Pipes!number_of_programs
<1>2. \/ NextStdin = read_pipe /\ NextStdout = write_pipe
      \/ segment > 0 /\ NextStdin = write_pipe /\ NextStdout = read_pipe
  BY DEF NextStdin, NextStdout, Pipes!swap_write_read_pipes
<1>3. PairSet /\ {write_pipe, read_pipe} \subseteq Pipes!Slots \cup {Pipes!Unset}
  BY DEF PipeTypes, Pipes!TypeOK
<1>. QED BY <1>1, <1>2, <1>3 DEF PairSet

LEMMA OpenedSlots ==
  ASSUME PipeTypes, SlotsLeft, Pipes!Program, MaxLines \in Nat
  PROVE  /\ Opened \in [Pipes!Slots -> Nat] /\ WriteTo \in Pipes!Slots
         /\ segment = 0 => slot[WriteTo] = 0 /\ Opened = [slot EXCEPT ![WriteTo] = made + 1]
         /\ segment > 0 => Opened = slot /\ WriteTo = NextStdout
         /\ MadeSoFar \in Nat /\ MadeSoFar >= made /\ \A s \in Pipes!Slots : Opened[s] <= MadeSoFar
         /\ Leaks \subseteq Pipes!Slots /\ Cardinality(Leaks) + 1 <= lines
         /\ Occupied(Opened) \subseteq Leaks \cup {WriteTo, NextStdin}
         /\ segment = 0 => Occupied(Opened) \subseteq Leaks \cup {WriteTo}
<1>1. /\ slot \in [Pipes!Slots -> Nat] /\ made \in Nat /\ lines \in Nat /\ lines <= MaxLines
      /\ \A s \in Pipes!Slots : slot[s] <= made
  BY DEF PipeTypes, Pipes!TypeOK
<1>2. Leaks \subseteq Pipes!Slots /\ Cardinality(Leaks) + 1 <= lines /\ Cardinality(Leaks) \in Nat
  <2>1. Leaks \subseteq Pipes!Slots
    BY DEF Leaks, Occupied
  <2>2. Cardinality(Leaks) + 1 <= lines
    BY PairRange DEF SlotsLeft, Leaks
  <2>. QED BY <2>1, <2>2, SlotSets
<1>3. CASE segment = 0
  <2>1. Pipes!Free(slot) \in Pipes!Slots /\ slot[Pipes!Free(slot)] = 0
    BY <1>1, <1>2, <1>3, FreeSlot DEF Leaks
  <2>2. WriteTo = Pipes!Free(slot) /\ Opened = [slot EXCEPT ![WriteTo] = made + 1] /\ MadeSoFar = made + 1
        /\ Leaks = Occupied(slot)
    BY <1>3 DEF WriteTo, Opened, MadeSoFar, Leaks
  <2>3. Opened \in [Pipes!Slots -> Nat] /\ \A s \in Pipes!Slots : Opened[s] <= MadeSoFar
    BY <1>1, <2>1, <2>2
  <2>4. Occupied(Opened) \subseteq Leaks \cup {WriteTo}
    BY <1>1, <2>1, <2>2 DEF Occupied
  <2>5. MadeSoFar \in Nat /\ MadeSoFar >= made
    BY <1>1, <2>2
  <2>6. WriteTo \in Pipes!Slots /\ slot[WriteTo] = 0 /\ ~(segment > 0)
    BY <1>3, <2>1, <2>2
  <2>7. Occupied(Opened) \subseteq Leaks \cup {WriteTo, NextStdin}
    BY <2>4
  <2>. QED BY <1>2, <2>2, <2>3, <2>4, <2>5, <2>6, <2>7
<1>4. CASE segment > 0
  <2>1. WriteTo = NextStdout /\ Opened = slot /\ MadeSoFar = made
        /\ Leaks = Occupied(slot) \ {write_pipe, read_pipe}
    BY <1>4 DEF WriteTo, Opened, MadeSoFar, Leaks
  <2>2. Occupied(Opened) \subseteq Leaks \cup {WriteTo, NextStdin} /\ WriteTo \in Pipes!Slots
    BY <1>4, <2>1, PairRange
  <2>. QED BY <1>1, <1>2, <1>4, <2>1, <2>2
<1>. QED BY <1>3, <1>4, PairRange

\* The slots a program leaves; a second pipe of the line always finds room.
LEMMA KeptSlots ==
  ASSUME PipeTypes, SlotsLeft, Pipes!Program, MaxLines \in Nat
  PROVE  /\ Kept \in [Pipes!Slots -> Nat]
         /\ \A s \in Pipes!Slots : Kept[s] = IF segment > 0 /\ s = NextStdin THEN 0 ELSE Opened[s]
         /\ Occupied(Kept) \subseteq Leaks \cup {WriteTo}
         /\ Pipes!Free(Kept) \in Pipes!Slots /\ Kept[Pipes!Free(Kept)] = 0
<1>1. /\ Kept \in [Pipes!Slots -> Nat]
      /\ \A s \in Pipes!Slots : Kept[s] = IF segment > 0 /\ s = NextStdin THEN 0 ELSE Opened[s]
  BY OpenedSlots, Closes DEF Kept
<1>2. Occupied(Kept) \subseteq Leaks \cup {WriteTo}
  BY <1>1, OpenedSlots, PairRange DEF Occupied, Pipes!NoPipe
<1>3. Cardinality(Occupied(Kept)) <= MaxLines
  <2>1. /\ Leaks \subseteq Pipes!Slots /\ Cardinality(Leaks) + 1 <= lines
        /\ Cardinality(Occupied(Kept)) <= Cardinality(Leaks) + 1
    BY <1>2, OpenedSlots, SlotSets
  <2>2. Occupied(Kept) \subseteq Pipes!Slots /\ lines \in Nat /\ lines <= MaxLines
    BY DEF Occupied, PipeTypes, Pipes!TypeOK
  <2>3. Cardinality(Occupied(Kept)) \in Nat /\ Cardinality(Leaks) \in Nat
    BY <2>1, <2>2, SlotSets
  <2>. QED BY <2>1, <2>2, <2>3
<1>. QED BY <1>1, <1>2, <1>3, FreeSlot

LEMMA ProgramStep ==
  ASSUME PipeTypes, Pipes!Program
  PROVE  /\ UNCHANGED <<pipePc, programs, before, lines>> /\ segment' = segment + 1
         /\ write_pipe' = WriteTo /\ has_args' = programs[segment + 1]
         /\ ~programs[segment + 1] => /\ slot' = Opened /\ read_pipe' = NextStdin /\ made' = MadeSoFar
                                      /\ UNCHANGED started
         /\ programs[segment + 1] =>
              /\ started' = [k \in DOMAIN started \cup {segment} |->
                               IF k = segment THEN Pipes!Forked(segment, WriteTo, NextStdin, Opened)
                                              ELSE started[k]]
              /\ Last => slot' = Kept /\ read_pipe' = NextStdin /\ made' = MadeSoFar
              /\ ~Last => /\ slot' = [Kept EXCEPT ![Pipes!Free(Kept)] = MadeSoFar + 1]
                          /\ read_pipe' = Pipes!Free(Kept) /\ made' = MadeSoFar + 1
<1>1. segment < Len(programs) - 1 <=> ~Last
  BY PairRange DEF Last
<1>. QED BY <1>1 DEF Pipes!Program, Opened, WriteTo, Kept, MadeSoFar, NextStdin, NextStdout, Pipes!number_of_programs

LEMMA ProgramKeepsTypes ==
  ASSUME PipeTypes, SlotsLeft, Pipes!Program, MaxLines \in Nat
  PROVE  PipeTypes' /\ SlotsLeft'
<1>1. /\ programs \in Seq(BOOLEAN) /\ Len(programs) \in Nat /\ segment \in Nat /\ segment < Len(programs)
      /\ Len(programs) <= MaxPrograms
      /\ made \in Nat /\ before \in 0 .. made /\ lines \in 0 .. MaxLines /\ pipePc = "programs"
      /\ write_pipe \in Pipes!Slots \cup {Pipes!Unset}
      /\ DOMAIN started = {k \in 0 .. segment - 1 : programs[k + 1]}
      /\ \A k \in DOMAIN started : started[k] \in Descriptors
  BY PairRange DEF PipeTypes, Pipes!TypeOK
<1>2. /\ UNCHANGED <<pipePc, programs, before, lines>> /\ segment' = segment + 1
      /\ write_pipe' = WriteTo /\ has_args' = programs[segment + 1]
  BY ProgramStep
<1>3. WriteTo \in Pipes!Slots /\ NextStdin \in Pipes!Slots \cup {Pipes!Unset}
  BY OpenedSlots, PairRange
<1>4. /\ slot' \in [Pipes!Slots -> Nat] /\ made' \in Nat /\ made' >= made
      /\ \A s \in Pipes!Slots : slot'[s] <= made'
      /\ read_pipe' \in Pipes!Slots \cup {Pipes!Unset}
      /\ segment' < Len(programs) => read_pipe' \in Pipes!Slots
      /\ Occupied(slot') \subseteq Leaks \cup {WriteTo, read_pipe'}
  <2>1. /\ Opened \in [Pipes!Slots -> Nat] /\ MadeSoFar \in Nat /\ MadeSoFar >= made
        /\ \A s \in Pipes!Slots : Opened[s] <= MadeSoFar
        /\ Occupied(Opened) \subseteq Leaks \cup {WriteTo, NextStdin}
    BY OpenedSlots
  <2>2. /\ Kept \in [Pipes!Slots -> Nat] /\ \A s \in Pipes!Slots : Kept[s] <= MadeSoFar
        /\ Occupied(Kept) \subseteq Leaks \cup {WriteTo}
        /\ Pipes!Free(Kept) \in Pipes!Slots
    BY <2>1, KeptSlots
  <2>3. CASE ~programs[segment + 1]
    <3>1. slot' = Opened /\ read_pipe' = NextStdin /\ made' = MadeSoFar
      BY <2>3, ProgramStep
    <3>2. NextStdin \in Pipes!Slots
      BY <1>1, <2>3, PairRange
    <3>. QED BY <1>1, <2>1, <3>1, <3>2
  <2>4. CASE programs[segment + 1] /\ Last
    <3>1. slot' = Kept /\ read_pipe' = NextStdin /\ made' = MadeSoFar
      BY <2>4, ProgramStep
    <3>2. ~(segment' < Len(programs))
      BY <1>1, <1>2, <2>4 DEF Last
    <3>. QED BY <1>3, <2>1, <2>2, <3>1, <3>2
  <2>5. CASE programs[segment + 1] /\ ~Last
    <3>1. /\ slot' = [Kept EXCEPT ![Pipes!Free(Kept)] = MadeSoFar + 1]
          /\ read_pipe' = Pipes!Free(Kept) /\ made' = MadeSoFar + 1
      BY <2>5, ProgramStep
    <3>2. /\ slot' \in [Pipes!Slots -> Nat] /\ made' \in Nat /\ made' >= made
          /\ \A s \in Pipes!Slots : slot'[s] <= made'
      BY <1>1, <2>1, <2>2, <3>1
    <3>3. Occupied(slot') \subseteq Occupied(Kept) \cup {read_pipe'}
      BY <2>2, <3>1 DEF Occupied
    <3>. QED BY <2>2, <3>1, <3>2, <3>3
  <2>. QED BY <2>3, <2>4, <2>5
<1>5. /\ DOMAIN started' = {k \in 0 .. segment : programs[k + 1]}
      /\ \A k \in DOMAIN started' : started'[k] \in Descriptors
  <2>1. CASE ~programs[segment + 1]
    <3>1. started' = started
      BY <2>1, ProgramStep
    <3>. QED BY <1>1, <2>1, <3>1
  <2>2. CASE programs[segment + 1]
    <3>1. started' = [k \in DOMAIN started \cup {segment} |->
                        IF k = segment THEN Pipes!Forked(segment, WriteTo, NextStdin, Opened) ELSE started[k]]
      BY <2>2, ProgramStep
    <3>2. Pipes!Forked(segment, WriteTo, NextStdin, Opened) \in Descriptors
      BY <1>1, OpenedSlots, PairRange, ForkedTypes
    <3>3. DOMAIN started' = {k \in 0 .. segment : programs[k + 1]}
      BY <1>1, <2>2, <3>1
    <3>. QED BY <1>1, <3>1, <3>2, <3>3
  <2>. QED BY <2>1, <2>2
<1>6. Pipes!TypeOK'
  <2>1. has_args' \in BOOLEAN
    <3>1. segment + 1 \in 1 .. Len(programs)
      BY <1>1
    <3>. QED BY <1>1, <1>2, <3>1
  <2>2. DOMAIN started' \subseteq 0 .. MaxPrograms - 1
    <3>1. MaxPrograms \in Nat
      BY ConstantsAssumption DEF Pipes!PipelineAssumption
    <3>. QED BY <1>1, <1>5, <3>1
  <2>. QED BY <1>1, <1>2, <1>3, <1>4, <2>1, <2>2 DEF Pipes!TypeOK
<1>7. PipeTypes'
  <2>1. PairSet'
    BY <1>1, <1>2, <1>3, <1>4 DEF PairSet
  <2>2. pipePc' # "getline" => DOMAIN started' = {k \in 0 .. segment' - 1 : programs'[k + 1]}
    BY <1>1, <1>2, <1>5
  <2>. QED BY <1>1, <1>2, <1>4, <1>5, <1>6, <2>1, <2>2 DEF PipeTypes
<1>8. SlotsLeft'
  <2>1. Occupied(slot') \ {write_pipe', read_pipe'} \subseteq Leaks
    BY <1>2, <1>4
  <2>2. Cardinality(Occupied(slot') \ {write_pipe', read_pipe'}) + 1 <= lines
    <3>1. Leaks \subseteq Pipes!Slots /\ Cardinality(Leaks) + 1 <= lines
      BY OpenedSlots
    <3>2. /\ Cardinality(Leaks) \in Nat
          /\ Cardinality(Occupied(slot') \ {write_pipe', read_pipe'}) <= Cardinality(Leaks)
          /\ Cardinality(Occupied(slot') \ {write_pipe', read_pipe'}) \in Nat
      BY <2>1, <3>1, SlotSets
    <3>. QED BY <1>1, <3>1, <3>2
  <2>3. pipePc' = "programs" /\ segment' # 0 /\ lines' = lines
    BY <1>1, <1>2
  <2>4. Occupied(slot)' = Occupied(slot')
    BY DEF Occupied, Pipes!Slots
  <2>. QED BY <2>2, <2>3, <2>4 DEF SlotsLeft
<1>. QED BY <1>7, <1>8

\* The other steps: at the end of a line the slot in write_pipe is closed.
LEMMA LineKeepsTypes ==
  ASSUME PipeTypes, SlotsLeft, Pipes!GetLine \/ Pipes!EndOfLine \/ Pipes!Wait, MaxLines \in Nat
  PROVE  PipeTypes' /\ SlotsLeft'
<1>. USE DEF Pipes!TypeOK
<1>0. /\ lines \in Nat /\ slot \in [Pipes!Slots -> Nat] /\ segment \in Nat
      /\ Occupied(slot) \subseteq Pipes!Slots /\ Cardinality(Occupied(slot)) \in Nat
  BY SlotSets DEF PipeTypes, Occupied
<1>1. CASE Pipes!GetLine
  <2>1. /\ pipePc = "getline" /\ pipePc' = "programs" /\ segment' = 0 /\ started' = << >>
        /\ before' = made /\ lines' = lines + 1 /\ lines < MaxLines
        /\ programs' = << >> \/ ~programs'[1] => Pipes!Unset \notin {write_pipe, read_pipe}
        /\ UNCHANGED <<has_args, write_pipe, read_pipe, slot, made>>
    BY <1>1 DEF Pipes!GetLine
  <2>2. programs' \in Seq(BOOLEAN) /\ Len(programs') \in Nat /\ Len(programs') <= MaxPrograms
    <3>1. PICK n \in 0 .. MaxPrograms : programs' \in [1 .. n -> BOOLEAN]
      BY <1>1 DEF Pipes!GetLine
    <3>. QED BY <3>1
  <2>3. DOMAIN started' = {}
    BY <2>1
  <2>4. {k \in 0 .. segment' - 1 : programs'[k + 1]} = {}
    BY <2>1
  <2>5. PipeTypes'
    BY <2>1, <2>2, <2>3, <2>4 DEF PipeTypes, PairSet
  <2>6. SlotsLeft'
    BY <1>0, <2>1 DEF SlotsLeft, Occupied, Pipes!Slots
  <2>. QED BY <2>5, <2>6
<1>2. CASE Pipes!EndOfLine
  <2>1. /\ pipePc = "programs" /\ pipePc' = "waitpid" /\ slot' = Pipes!Closed(slot, write_pipe)
        /\ UNCHANGED <<programs, segment, has_args, write_pipe, read_pipe, made, before, started, lines>>
    BY <1>2 DEF Pipes!EndOfLine
  <2>2. /\ slot' \in [Pipes!Slots -> Nat]
        /\ \A s \in Pipes!Slots : slot'[s] = IF s = write_pipe THEN 0 ELSE slot[s]
    BY <1>0, <2>1, Closes
  <2>3. PipeTypes'
    BY <2>1, <2>2 DEF PipeTypes, PairSet
  <2>4. Cardinality(Occupied(slot')) <= lines
    <3>1. /\ Occupied(slot') \subseteq Occupied(slot)
          /\ Occupied(slot') \subseteq (Occupied(slot) \ {write_pipe, read_pipe}) \cup {read_pipe}
      BY <2>2 DEF Occupied, Pipes!NoPipe
    <3>2. CASE segment = 0
      <4>1. Cardinality(Occupied(slot')) <= Cardinality(Occupied(slot)) /\ Cardinality(Occupied(slot')) \in Nat
        BY <1>0, <3>1, SlotSets
      <4>2. Cardinality(Occupied(slot)) + 1 <= lines
        BY <2>1, <3>2 DEF SlotsLeft
      <4>. QED BY <1>0, <4>1, <4>2
    <3>3. CASE segment > 0
      <4>. DEFINE B == Occupied(slot) \ {write_pipe, read_pipe}
      <4>1. B \subseteq Pipes!Slots /\ Occupied(slot') \subseteq B \cup {read_pipe}
        BY <1>0, <3>1
      <4>2. Cardinality(B) + 1 <= lines
        BY <2>1, <3>3 DEF SlotsLeft
      <4>. HIDE DEF B
      <4>3. Cardinality(Occupied(slot')) <= Cardinality(B) + 1
        BY <4>1, SlotSets
      <4>4. Cardinality(Occupied(slot')) \in Nat /\ Cardinality(B) \in Nat
        BY <1>0, <3>1, <4>1, SlotSets
      <4>. QED BY <1>0, <4>2, <4>3, <4>4
    <3>. QED BY <1>0, <3>2, <3>3
  <2>5. SlotsLeft'
    <3>1. Occupied(slot)' = Occupied(slot')
      BY DEF Occupied, Pipes!Slots
    <3>. QED BY <2>1, <2>4, <3>1 DEF SlotsLeft
  <2>. QED BY <2>3, <2>5
<1>3. CASE Pipes!Wait
  <2>1. /\ pipePc = "waitpid" /\ pipePc' = "getline"
        /\ UNCHANGED <<programs, segment, has_args, write_pipe, read_pipe, slot, made, before, started, lines>>
    BY <1>3 DEF Pipes!Wait
  <2>. QED BY <2>1 DEF PipeTypes, PairSet, SlotsLeft, Occupied
<1>. QED BY <1>1, <1>2, <1>3

LEMMA PairAfter ==
  ASSUME PipeTypes, Pipes!Program
  PROVE  /\ programs[segment + 1] => NextStdin' = write_pipe' /\ NextStdout' = read_pipe'
         /\ ~programs[segment + 1] => NextStdin' = read_pipe' /\ NextStdout' = write_pipe'
<1>1. segment' > 0 /\ has_args' = programs[segment + 1]
  BY ProgramStep, PairRange
<1>2. CASE programs[segment + 1]
  <2>1. has_args'
    BY <1>1, <1>2
  <2>. QED BY <1>1, <1>2, <2>1 DEF NextStdin, NextStdout, Pipes!swap_write_read_pipes
<1>3. CASE ~programs[segment + 1]
  <2>1. ~has_args'
    BY <1>1, <1>3
  <2>. QED BY <1>1, <1>3, <2>1 DEF NextStdin, NextStdout, Pipes!swap_write_read_pipes
<1>. QED BY <1>2, <1>3

\* A program's descriptors are numbers of pipes.
LEMMA Inherits ==
  ASSUME PipeTypes, NEW k \in DOMAIN started
  PROVE  /\ started[k].stdin \in Nat /\ started[k].stdout \in Nat
         /\ \A p \in started[k].holds : p \in Nat
BY DEF PipeTypes, Descriptors

\* The first program of a line, which begins with it.
LEMMA FirstKeepsLine ==
  ASSUME PipeTypes, SlotsLeft, Pipes!Program, MaxLines \in Nat, programs[1], segment = 0
  PROVE  /\ segment' < Len(programs) => HalfLine'
         /\ segment' = Len(programs) => WholeLine'
<1>. DEFINE w == WriteTo
            f == Pipes!Forked(0, w, NextStdin, Opened)
<1>1. /\ made \in Nat /\ before = made /\ DOMAIN started = {} /\ slot \in [Pipes!Slots -> Nat]
      /\ \A s \in Pipes!Slots : slot[s] <= made
      /\ segment + 1 = 1 /\ programs[segment + 1]
  BY PairRange DEF PipeTypes, Pipes!TypeOK
<1>0. Len(programs) \in Nat /\ (0 = Len(programs) - 1 <=> Len(programs) = 1) /\ (Last <=> Len(programs) = 1)
  <2>1. Len(programs) \in Nat
    BY PairRange
  <2>2. 0 = Len(programs) - 1 <=> Len(programs) = 1
    BY <2>1
  <2>. QED BY <2>1, <2>2 DEF Last
<1>2. /\ w \in Pipes!Slots /\ slot[w] = 0 /\ Opened = [slot EXCEPT ![w] = made + 1]
      /\ Opened \in [Pipes!Slots -> Nat] /\ Kept = Opened /\ MadeSoFar = made + 1
  BY OpenedSlots DEF Kept, MadeSoFar
<1>3. /\ segment' = 1 /\ before' = before /\ programs' = programs /\ pipePc' = "programs" /\ write_pipe' = w
      /\ started' = [k \in {0} |-> IF k = 0 THEN f ELSE started[k]]
  BY <1>1, ProgramStep, PairRange
<1>4. /\ f.stdin = 0 /\ f.stdout = IF Len(programs) = 1 THEN 0 ELSE made + 1
      /\ \A p \in f.holds : \E s \in Pipes!Slots : p = Opened[s] /\ (Len(programs) # 1 => s # w)
  <2>1. Opened[w] = made + 1 /\ Opened[w] # 0
    BY <1>1, <1>2
  <2>2. /\ f.stdin = 0 /\ f.stdout = IF Len(programs) = 1 THEN 0 ELSE Opened[w]
        /\ \A p \in f.holds : \E s \in Pipes!Slots : p = Opened[s] /\ (Len(programs) # 1 => s # w)
    <3>1. Opened \in [Pipes!Slots -> Nat] /\ w \in Pipes!Slots /\ Len(programs) \in Nat
      BY <1>0, <1>2
    <3>. HIDE DEF w
    <3>. QED BY <2>1, <3>1, ForkedFirst
  <2>. HIDE DEF f
  <2>. QED BY <2>1, <2>2
<1>. HIDE DEF w, f
<1>5. DOMAIN started' = {0} /\ started'[0] = f
  BY <1>3
<1>6. Joined'
  BY <1>5 DEF Joined
<1>7. ASSUME segment' < Len(programs) PROVE HalfLine'
  <2>1. ~Last /\ Len(programs) # 1
    <3>1. 1 < Len(programs)
      BY <1>3, <1>7
    <3>. QED BY <1>0, <3>1
  <2>. DEFINE g == Pipes!Free(Kept)
  <2>2. /\ slot' = [Opened EXCEPT ![g] = made + 2] /\ read_pipe' = g /\ made' = made + 2
    <3>1. slot' = [Kept EXCEPT ![g] = MadeSoFar + 1] /\ read_pipe' = g /\ made' = MadeSoFar + 1
      BY <1>1, <2>1, ProgramStep
    <3>2. MadeSoFar + 1 = made + 2
      BY <1>1, <1>2
    <3>. QED BY <1>2, <3>1, <3>2
  <2>3. g \in Pipes!Slots /\ g # w
    BY <1>1, <1>2, KeptSlots
  <2>4. NextStdin' = w /\ NextStdout' = g
    BY <1>3, <2>2, PairAfter
  <2>. HIDE DEF g
  <2>5. /\ slot'[w] = made + 1 /\ slot'[g] = made + 2
        /\ \A s \in Pipes!Slots \ {w, g} : slot'[s] <= made
    BY <1>1, <1>2, <2>2, <2>3
  <2>6. \A p \in f.holds : p <= made
    BY <1>1, <1>2, <1>4, <2>1
  <2>7. f.stdin = 0 /\ f.stdout = made + 1
    BY <1>4, <2>1
  <2>8. Pipes!Slots' = Pipes!Slots
    BY DEF Pipes!Slots
  <2>. QED BY <1>1, <1>3, <1>5, <1>6, <1>7, <2>2, <2>3, <2>4, <2>5, <2>6, <2>7, <2>8 DEF HalfLine, Pipes!Terminal
<1>8. ASSUME segment' = Len(programs) PROVE WholeLine'
  <2>1. Last /\ Len(programs) = 1
    BY <1>0, <1>3, <1>8
  <2>2. slot' = Opened
    BY <1>1, <1>2, <2>1, ProgramStep
  <2>3. \A s \in Pipes!Slots : slot'[s] <= before \/ s = w
    BY <1>1, <1>2, <2>2
  <2>4. \A p \in f.holds : p <= before \/ f.stdout < p
    BY <1>1, <1>2, <1>4, <2>1
  <2>5. f.stdin = 0 /\ f.stdout = 0
    BY <1>4, <2>1
  <2>. QED BY <1>1, <1>3, <1>5, <1>6, <1>8, <2>1, <2>3, <2>4, <2>5 DEF WholeLine, Pipes!Terminal, Pipes!Slots
<1>. QED BY <1>7, <1>8

\* A blank segment after the first: nothing changes places.
LEMMA BlankKeepsLine ==
  ASSUME PipeTypes, SlotsLeft, Pipes!Program, MaxLines \in Nat, HalfLine,
         segment > 0, ~programs[segment + 1]
  PROVE  HalfLine'
<1>1. UNCHANGED <<slot, started, made, before>> /\ write_pipe' = NextStdout /\ read_pipe' = NextStdin
  BY OpenedSlots, ProgramStep DEF MadeSoFar
<1>2. NextStdin' = NextStdin /\ NextStdout' = NextStdout
  BY <1>1, PairAfter
<1>3. Joined'
  BY <1>1 DEF Joined, HalfLine
<1>. QED BY <1>1, <1>2, <1>3 DEF HalfLine, Pipes!Slots, Pipes!Terminal

\* What holds before a program that is not the line's first, and what it starts with.
LEMMA LaterProgram ==
  ASSUME PipeTypes, SlotsLeft, Pipes!Program, MaxLines \in Nat, HalfLine,
         segment > 0, programs[segment + 1], programs[1]
  PROVE  LET r == NextStdin
             w == NextStdout
             f == started'[segment]
         IN  /\ r \in Pipes!Slots /\ w \in Pipes!Slots /\ slot \in [Pipes!Slots -> Nat] /\ made \in Nat
             /\ before \in Nat /\ write_pipe' = w
             /\ Kept \in [Pipes!Slots -> Nat] /\ Kept[r] = 0
             /\ \A s \in Pipes!Slots \ {r} : Kept[s] = slot[s]
             /\ f.stdin = slot[r] /\ f.stdout = (IF Last THEN 0 ELSE slot[w])
             /\ \A p \in f.holds : p <= before \/ (Last /\ p = slot[w])
             /\ DOMAIN started' = DOMAIN started \cup {segment}
             /\ \A k \in DOMAIN started : started'[k] = started[k] /\ k \in Nat /\ k < segment
             /\ 0 \in DOMAIN started
<1>. DEFINE r == NextStdin
            w == NextStdout
            f == Pipes!Forked(segment, w, r, slot)
<1>1. r \in Pipes!Slots /\ w \in Pipes!Slots /\ segment \in Nat
  BY PairRange
<1>2. /\ slot \in [Pipes!Slots -> Nat] /\ made \in Nat /\ before \in Nat
      /\ DOMAIN started = {k \in 0 .. segment - 1 : programs[k + 1]}
  BY PairRange DEF PipeTypes, Pipes!TypeOK
<1>3. Opened = slot /\ WriteTo = w /\ MadeSoFar = made
  BY OpenedSlots DEF MadeSoFar
<1>4. /\ Kept \in [Pipes!Slots -> Nat] /\ Kept[r] = 0
      /\ \A s \in Pipes!Slots \ {r} : Kept[s] = slot[s]
  BY <1>1, <1>3, KeptSlots
<1>5. started' = [k \in DOMAIN started \cup {segment} |-> IF k = segment THEN f ELSE started[k]]
  BY <1>3, ProgramStep
<1>6. \A k \in DOMAIN started : k \in Nat /\ k < segment
  BY <1>1, <1>2
<1>7. 0 \in DOMAIN started
  <2>1. 0 \in 0 .. segment - 1 /\ 0 + 1 = 1
    BY <1>1
  <2>. QED BY <1>2, <2>1
<1>8. /\ before < slot[r] /\ slot[r] < slot[w] /\ r # w
      /\ \A s \in Pipes!Slots \ {r, w} : slot[s] <= before
  BY DEF HalfLine
<1>9. slot[w] # 0 /\ slot[r] # 0 /\ slot[r] \in Nat /\ slot[w] \in Nat
  BY <1>1, <1>2, <1>8
<1>10. /\ f.stdin = IF segment > 0 THEN slot[r] ELSE 0
       /\ f.stdout = IF segment = Len(programs) - 1 THEN 0 ELSE slot[w]
       /\ \A p \in f.holds : \E s \in Pipes!Slots :
            p = slot[s] /\ (segment # Len(programs) - 1 => s # w) /\ (segment > 0 => s # r)
  <2>1. slot \in [Pipes!Slots -> Nat]
    BY <1>2
  <2>2. r # w
    BY <1>8
  <2>. HIDE DEF r, w
  <2>. QED BY <1>1, <1>9, <2>1, <2>2, ForkedWell
<1>. HIDE DEF f
<1>11. \A p \in f.holds : p <= before \/ (Last /\ p = slot[w])
  BY <1>8, <1>10 DEF Last
<1>12. f.stdin = slot[r] /\ f.stdout = IF Last THEN 0 ELSE slot[w]
  BY <1>10 DEF Last
<1>13. /\ DOMAIN started' = DOMAIN started \cup {segment} /\ started'[segment] = f
       /\ \A k \in DOMAIN started : started'[k] = started[k]
  <2>1. segment \in DOMAIN started \cup {segment}
    OBVIOUS
  <2>2. \A k \in DOMAIN started : k # segment
    BY <1>1, <1>6
  <2>. QED BY <1>5, <2>1, <2>2
<1>14. write_pipe' = w
  BY <1>3, ProgramStep
<1>. QED BY <1>1, <1>2, <1>4, <1>6, <1>7, <1>11, <1>12, <1>13, <1>14

\* The new program reads the pipe of the one before it.
LEMMA JoinsNext ==
  ASSUME PipeTypes, SlotsLeft, Pipes!Program, MaxLines \in Nat, HalfLine,
         segment > 0, programs[segment + 1], programs[1]
  PROVE  Joined'
<1>. DEFINE r == NextStdin
            f == started'[segment]
<1>1. /\ f.stdin = slot[r] /\ DOMAIN started' = DOMAIN started \cup {segment}
      /\ \A k \in DOMAIN started : started'[k] = started[k] /\ k \in Nat /\ k < segment
  BY LaterProgram
<1>2. before' = before /\ segment \in Nat
  BY ProgramStep, PairRange
<1>3. before < slot[r] /\ Joined
      /\ \A k \in DOMAIN started : /\ started[k].stdin < slot[r]
                                   /\ (\A m \in DOMAIN started : m <= k) => started[k].stdout = slot[r]
  BY DEF HalfLine
<1>. HIDE DEF r, f
<1>4. ASSUME NEW k \in DOMAIN started', NEW l \in DOMAIN started', k < l
      PROVE  /\ started'[k].stdin < started'[l].stdin
             /\ (\A m \in DOMAIN started' : m <= k \/ m >= l) =>
                  started'[k].stdout > before /\ started'[l].stdin = started'[k].stdout
  <2>1. k \in DOMAIN started
    BY <1>1, <1>2, <1>4
  <2>2. CASE l = segment
    <3>1. started'[k].stdin < started'[l].stdin
      BY <1>1, <1>3, <2>1, <2>2 DEF f
    <3>2. ASSUME \A m \in DOMAIN started' : m <= k \/ m >= l
          PROVE  started'[k].stdout > before /\ started'[l].stdin = started'[k].stdout
      <4>1. \A m \in DOMAIN started : m <= k
        <5>. SUFFICES ASSUME NEW m \in DOMAIN started PROVE m <= k
          OBVIOUS
        <5>1. m \in DOMAIN started' /\ m \in Nat /\ m < l
          BY <1>1, <2>2
        <5>2. k \in Nat /\ l \in Nat
          BY <1>1, <1>2, <2>1, <2>2
        <5>. QED BY <3>2, <5>1, <5>2
      <4>2. started[k].stdout = slot[r]
        BY <1>3, <2>1, <4>1
      <4>. QED BY <1>1, <1>3, <2>1, <2>2, <4>2 DEF f
    <3>. QED BY <3>1, <3>2
  <2>3. CASE l # segment
    <3>1. l \in DOMAIN started
      BY <1>1, <2>3
    <3>2. \A m \in DOMAIN started : m \in DOMAIN started'
      BY <1>1
    <3>3. started'[k] = started[k] /\ started'[l] = started[l]
      BY <1>1, <2>1, <3>1
    <3>. QED BY <1>3, <1>4, <2>1, <3>1, <3>2, <3>3 DEF Joined
  <2>. QED BY <2>2, <2>3
<1>. QED BY <1>2, <1>4 DEF Joined

\* A program with another segment after it: a new pipe is made for its successor.
LEMMA NextKeepsLine ==
  ASSUME PipeTypes, SlotsLeft, Pipes!Program, MaxLines \in Nat, HalfLine,
         segment > 0, programs[segment + 1], programs[1], ~Last
  PROVE  HalfLine'
<1>. DEFINE r == NextStdin
            w == NextStdout
            f == started'[segment]
            g == Pipes!Free(Kept)
<1>1. /\ r \in Pipes!Slots /\ w \in Pipes!Slots /\ slot \in [Pipes!Slots -> Nat] /\ made \in Nat /\ before \in Nat
      /\ write_pipe' = w /\ Kept \in [Pipes!Slots -> Nat] /\ Kept[r] = 0
      /\ \A s \in Pipes!Slots \ {r} : Kept[s] = slot[s]
  BY LaterProgram
<1>2. /\ f.stdin = slot[r] /\ f.stdout = slot[w] /\ \A p \in f.holds : p <= before
      /\ DOMAIN started' = DOMAIN started \cup {segment}
      /\ \A k \in DOMAIN started : started'[k] = started[k] /\ k \in Nat /\ k < segment
      /\ 0 \in DOMAIN started
  BY LaterProgram
<1>3. /\ r # w /\ before < slot[r] /\ slot[r] < slot[w] /\ slot[w] = made
      /\ \A s \in Pipes!Slots \ {r, w} : slot[s] <= before
      /\ started[0].stdin = 0
      /\ \A k \in DOMAIN started :
           /\ started[k].stdin < slot[r] /\ started[k].stdout <= slot[r]
           /\ \A p \in started[k].holds : p <= before
           /\ \A l \in DOMAIN started : k < l => started[k].stdout < started[l].stdout
  BY DEF HalfLine, Pipes!Terminal
<1>4. slot' = [Kept EXCEPT ![g] = made + 1] /\ read_pipe' = g /\ made' = made + 1
      /\ before' = before /\ segment \in Nat
  <2>1. MadeSoFar = made
    BY DEF MadeSoFar
  <2>. QED BY <2>1, ProgramStep, PairRange
<1>5. NextStdin' = w /\ NextStdout' = g
  BY <1>1, <1>4, PairAfter
<1>. HIDE DEF r, w, f
<1>6. g \in Pipes!Slots /\ g # w
  <2>1. Kept[w] = slot[w] /\ slot[w] # 0
    BY <1>1, <1>3
  <2>. QED BY <2>1, KeptSlots
<1>. HIDE DEF g
<1>7. /\ slot'[w] = made /\ slot'[g] = made + 1
      /\ \A s \in Pipes!Slots \ {w, g} : slot'[s] <= before
  BY <1>1, <1>3, <1>4, <1>6
<1>8. /\ slot[r] \in Nat /\ slot[w] \in Nat
      /\ \A k \in DOMAIN started : started[k].stdin \in Nat /\ started[k].stdout \in Nat
  BY <1>1, Inherits
<1>9. ASSUME NEW k \in DOMAIN started'
      PROVE  /\ started'[k].stdin < slot[w] /\ started'[k].stdout <= slot[w]
             /\ \A p \in started'[k].holds : p <= before
             /\ (\A m \in DOMAIN started' : m <= k) => started'[k].stdout = slot[w]
             /\ \A l \in DOMAIN started' : k < l => started'[k].stdout < started'[l].stdout
  <2>1. CASE k = segment
    <3>1. \A l \in DOMAIN started' : ~(k < l)
      BY <1>2, <1>4, <2>1
    <3>2. f.stdin < slot[w] /\ f.stdout = slot[w] /\ slot[w] <= slot[w]
      BY <1>2, <1>3, <1>8
    <3>3. started'[k] = f
      BY <2>1 DEF f
    <3>4. \A p \in f.holds : p <= before
      BY <1>2
    <3>. HIDE DEF f
    <3>. QED BY <3>1, <3>2, <3>3, <3>4
  <2>2. CASE k # segment
    <3>1. k \in DOMAIN started /\ started'[k] = started[k] /\ k \in Nat /\ k < segment
      BY <1>2, <2>2
    <3>2. started[k].stdin < slot[w] /\ started[k].stdout < slot[w]
      BY <1>3, <1>8, <3>1
    <3>3. ~(\A m \in DOMAIN started' : m <= k)
      BY <1>2, <1>4, <3>1
    <3>4. \A l \in DOMAIN started' : k < l => started'[k].stdout < started'[l].stdout
      BY <1>2, <1>3, <3>1, <3>2 DEF f
    <3>5. started[k].stdout <= slot[w] /\ \A p \in started[k].holds : p <= before
      BY <1>3, <1>8, <3>1, <3>2
    <3>. QED BY <3>1, <3>2, <3>3, <3>4, <3>5
  <2>. QED BY <2>1, <2>2
<1>10. started'[0].stdin = 0 /\ Joined'
  BY <1>2, <1>3, JoinsNext
<1>11. made < made + 1 /\ before < made
  BY <1>1, <1>3, <1>8
<1>12. Pipes!Slots' = Pipes!Slots
  BY DEF Pipes!Slots
<1>. QED BY <1>3, <1>4, <1>5, <1>6, <1>7, <1>9, <1>10, <1>11, <1>12 DEF HalfLine, Pipes!Terminal

\* A program at the end of the line.
LEMMA LastKeepsLine ==
  ASSUME PipeTypes, SlotsLeft, Pipes!Program, MaxLines \in Nat, HalfLine,
         segment > 0, programs[segment + 1], programs[1], Last
  PROVE  WholeLine'
<1>. DEFINE r == NextStdin
            w == NextStdout
            f == started'[segment]
<1>1. /\ r \in Pipes!Slots /\ w \in Pipes!Slots /\ slot \in [Pipes!Slots -> Nat] /\ made \in Nat /\ before \in Nat
      /\ write_pipe' = w /\ Kept[r] = 0
      /\ \A s \in Pipes!Slots \ {r} : Kept[s] = slot[s]
  BY LaterProgram
<1>2. /\ f.stdout = 0 /\ \A p \in f.holds : p <= before \/ p = slot[w]
      /\ DOMAIN started' = DOMAIN started \cup {segment}
      /\ \A k \in DOMAIN started : started'[k] = started[k] /\ k \in Nat /\ k < segment
      /\ 0 \in DOMAIN started
  BY LaterProgram
<1>3. /\ before < slot[r] /\ slot[r] < slot[w]
      /\ \A s \in Pipes!Slots \ {r, w} : slot[s] <= before
      /\ started[0].stdin = 0
      /\ \A k \in DOMAIN started :
           /\ started[k].stdout <= slot[r]
           /\ \A p \in started[k].holds : p <= before
           /\ \A l \in DOMAIN started : k < l => started[k].stdout < started[l].stdout
  BY DEF HalfLine, Pipes!Terminal
<1>4. slot' = Kept /\ before' = before /\ pipePc' = "programs" /\ programs' = programs
  BY ProgramStep, PairRange
<1>5. segment' = Len(programs) /\ Len(programs) - 1 = segment
  BY ProgramStep, PairRange DEF Last
<1>. HIDE DEF r, w, f
<1>6. \A s \in Pipes!Slots : slot'[s] <= before \/ s = w
  BY <1>1, <1>3, <1>4
<1>7. /\ slot[r] \in Nat /\ slot[w] \in Nat
      /\ \A k \in DOMAIN started : started[k].stdout \in Nat
  BY <1>1, Inherits
<1>8. \A m \in DOMAIN started' : started'[m].stdout < slot[w]
  <2>. SUFFICES ASSUME NEW m \in DOMAIN started' PROVE started'[m].stdout < slot[w]
    OBVIOUS
  <2>1. CASE m = segment
    BY <1>2, <1>3, <1>7, <1>1, <2>1 DEF f
  <2>2. CASE m # segment
    BY <1>2, <1>3, <1>7, <2>2
  <2>. QED BY <2>1, <2>2
<1>9. \A k \in DOMAIN started' : \A p \in started'[k].holds :
        p <= before \/ \A m \in DOMAIN started' : started'[m].stdout < p
  <2>. SUFFICES ASSUME NEW k \in DOMAIN started', NEW p \in started'[k].holds
                PROVE  p <= before \/ p = slot[w]
    BY <1>8
  <2>. QED BY <1>2, <1>3 DEF f
<1>10. \A k, l \in DOMAIN started' \ {segment} : k < l => started'[k].stdout < started'[l].stdout
  BY <1>2, <1>3
<1>11. started'[0].stdin = 0 /\ started'[segment].stdout = 0 /\ Joined'
  BY <1>2, <1>3, JoinsNext DEF f
<1>12. Pipes!Slots' = Pipes!Slots
  BY DEF Pipes!Slots
<1>. QED BY <1>1, <1>4, <1>5, <1>6, <1>9, <1>10, <1>11, <1>12 DEF WholeLine, Pipes!Terminal

LEMMA PipeInit == Pipes!Init => PipeInv
<1>. SUFFICES ASSUME Pipes!Init PROVE PipeInv
  OBVIOUS
<1>. USE DEF Pipes!Init
<1>1. MaxLines \in Nat /\ MaxPrograms \in Nat
  BY ConstantsAssumption DEF Pipes!PipelineAssumption
<1>2. DOMAIN started = {} /\ Len(programs) = 0 /\ programs \in Seq(BOOLEAN)
  OBVIOUS
<1>3. Pipes!TypeOK
  BY <1>1, <1>2 DEF Pipes!TypeOK, Pipes!Unset, Pipes!NoPipe
<1>4. PipeTypes
  BY <1>1, <1>2, <1>3 DEF PipeTypes, PairSet, Pipes!NoPipe
<1>5. Occupied(slot) = {} /\ Cardinality({}) = 0
  BY FS_EmptySet DEF Occupied
<1>6. SlotsLeft
  <2>1. pipePc = "getline" /\ lines = 0 /\ Cardinality(Occupied(slot)) = 0 /\ 0 <= 0
    <3>1. Cardinality(Occupied(slot)) = 0
      BY <1>5
    <3>. QED BY <3>1
  <2>. QED BY <2>1 DEF SlotsLeft
<1>. QED BY <1>4, <1>6 DEF PipeInv, LineInv

LEMMA PipeHolds == PipeInv /\ [Pipes!Next]_(Pipes!vars) => PipeInv'
<1>. SUFFICES ASSUME PipeInv, [Pipes!Next]_(Pipes!vars) PROVE PipeInv'
  OBVIOUS
<1>0. PipeTypes /\ SlotsLeft /\ LineInv /\ MaxLines \in Nat
  BY ConstantsAssumption DEF PipeInv, Pipes!PipelineAssumption
<1>1. CASE Pipes!GetLine
  <2>1. pipePc' = "programs" /\ segment' = 0 /\ programs' \in Seq(BOOLEAN) /\ PipeTypes' /\ SlotsLeft'
    BY <1>0, <1>1, LineKeepsTypes DEF Pipes!GetLine, PipeTypes, Pipes!TypeOK
  <2>2. programs' # << >> => Len(programs') # 0
    BY <2>1
  <2>. QED BY <2>1, <2>2 DEF PipeInv, LineInv
<1>2. CASE Pipes!Program
  <2>1. PipeTypes' /\ SlotsLeft'
    BY <1>0, <1>2, ProgramKeepsTypes
  <2>2. /\ UNCHANGED <<pipePc, programs>> /\ segment' = segment + 1 /\ pipePc = "programs"
        /\ segment \in Nat /\ segment < Len(programs) /\ Len(programs) \in Nat
    BY <1>0, <1>2, ProgramStep, PairRange
  <2>3. ASSUME programs[1]
        PROVE  /\ segment' < Len(programs) => HalfLine'
               /\ segment' = Len(programs) /\ programs[Len(programs)] => WholeLine'
    <3>1. CASE segment = 0
      BY <1>0, <1>2, <2>3, <3>1, FirstKeepsLine
    <3>2. CASE segment > 0
      <4>1. HalfLine
        <5>1. programs # << >>
          BY <2>2
        <5>. QED BY <1>0, <2>2, <2>3, <3>2, <5>1 DEF LineInv
      <4>2. CASE ~programs[segment + 1]
        <5>1. HalfLine'
          BY <1>0, <1>2, <3>2, <4>1, <4>2, BlankKeepsLine
        <5>. QED BY <2>2, <4>2, <5>1
      <4>3. CASE programs[segment + 1] /\ ~Last
        <5>1. HalfLine'
          BY <1>0, <1>2, <2>3, <3>2, <4>1, <4>3, NextKeepsLine
        <5>2. segment' # Len(programs)
          BY <2>2, <4>3 DEF Last
        <5>. QED BY <5>1, <5>2
      <4>4. CASE programs[segment + 1] /\ Last
        <5>1. WholeLine'
          BY <1>0, <1>2, <2>3, <3>2, <4>1, <4>4, LastKeepsLine
        <5>2. ~(segment' < Len(programs))
          BY <2>2, <4>4 DEF Last
        <5>. QED BY <5>1, <5>2
      <4>. QED BY <4>2, <4>3, <4>4
    <3>. QED BY <2>2, <3>1, <3>2
  <2>4. LineInv'
    BY <2>2, <2>3 DEF LineInv
  <2>. QED BY <2>1, <2>4 DEF PipeInv
<1>3. CASE Pipes!EndOfLine
  <2>1. /\ pipePc = "programs" /\ pipePc' = "waitpid" /\ segment = Len(programs)
        /\ slot' = Pipes!Closed(slot, write_pipe)
        /\ UNCHANGED <<programs, segment, before, started>>
    BY <1>3 DEF Pipes!EndOfLine, Pipes!number_of_programs
  <2>2. slot \in [Pipes!Slots -> Nat] /\ before \in Nat
    BY <1>0 DEF PipeTypes, Pipes!TypeOK
  <2>3. \A s \in Pipes!Slots : slot'[s] = IF s = write_pipe THEN 0 ELSE slot[s]
    BY <2>1, <2>2, Closes
  <2>4. ASSUME WholeLine PROVE WholeLine'
    <3>1. \A s \in Pipes!Slots : slot'[s] <= before
      BY <2>1, <2>2, <2>3, <2>4 DEF WholeLine
    <3>2. Pipes!Slots' = Pipes!Slots
      BY DEF Pipes!Slots
    <3>3. Joined'
      BY <2>1, <2>4 DEF WholeLine, Joined
    <3>. QED BY <2>1, <2>4, <3>1, <3>2, <3>3 DEF WholeLine, Pipes!Terminal
  <2>5. LineInv'
    BY <1>0, <2>1, <2>4 DEF LineInv
  <2>. QED BY <1>0, <1>3, <2>5, LineKeepsTypes DEF PipeInv
<1>4. CASE Pipes!Wait
  <2>1. pipePc' = "getline"
    BY <1>4 DEF Pipes!Wait
  <2>. QED BY <1>0, <1>4, <2>1, LineKeepsTypes DEF PipeInv, LineInv
<1>5. CASE UNCHANGED Pipes!vars
  BY <1>0, <1>5 DEF Pipes!vars, PipeInv, PipeTypes, Pipes!TypeOK, PairSet, SlotsLeft, Occupied, LineInv,
       HalfLine, WholeLine, Joined, NextStdin, NextStdout, Pipes!swap_write_read_pipes, Pipes!Slots,
       Pipes!Unset, Pipes!NoPipe, Pipes!Terminal, Descriptors
<1>. QED BY <1>1, <1>2, <1>3, <1>4, <1>5 DEF Pipes!Next

LEMMA PipeSteps == [ProcessesNext]_processVars => [Pipes!Next]_(Pipes!vars)
BY DEF ProcessesNext, processVars, PermissionStep, CountsStep, PipesStep, SysVStep, PosixStep, SignalledStep,
       pipesVars, Pipes!vars

\* The invariant at the end of a line is what EndsMeet says.
LEMMA PipesEndsMeet == PipeInv => EndsMeet
<1>. SUFFICES ASSUME PipeInv, pipePc = "waitpid", programs # << >>, programs[1], programs[Len(programs)]
              PROVE  Pipes!EndsMeet
  BY DEF EndsMeet, Pipes!EndsMeet, Pipes!number_of_programs
<1>. DEFINE last == Len(programs) - 1
<1>1. PipeTypes /\ WholeLine
  BY DEF PipeInv, LineInv
<1>2. /\ DOMAIN started = {k \in 0 .. Len(programs) - 1 : programs[k + 1]}
      /\ segment = Len(programs) /\ before \in Nat /\ Len(programs) \in Nat
  BY <1>1 DEF PipeTypes, Pipes!TypeOK, WholeLine
<1>3. /\ \A s \in Pipes!Slots : slot[s] <= before
      /\ started[0].stdin = 0 /\ started[last].stdout = 0
  BY <1>1 DEF WholeLine, Pipes!Terminal
<1>4. ASSUME NEW k \in DOMAIN started, NEW l \in DOMAIN started, k < l,
             \A m \in DOMAIN started : m <= k \/ m >= l
      PROVE  LET joint == started[k].stdout
             IN  /\ joint > before /\ started[l].stdin = joint
                 /\ \A m \in DOMAIN started :
                      /\ joint \notin started[m].holds
                      /\ m # k => started[m].stdout # joint
                      /\ m # l => started[m].stdin # joint
  <2>. DEFINE joint == started[k].stdout
  <2>1. joint > before /\ started[l].stdin = joint
    BY <1>1, <1>4 DEF WholeLine, Joined
  <2>2. joint \in Nat /\ \A m \in DOMAIN started : started[m].stdin \in Nat /\ started[m].stdout \in Nat
                                                   /\ m \in Nat /\ m <= last
    BY <1>1, <1>2, Inherits
  <2>3. k # last
    BY <1>2, <1>4, <2>2
  <2>4. ASSUME NEW m \in DOMAIN started PROVE joint \notin started[m].holds
    <3>1. ~(joint <= before) /\ ~(joint < joint)
      BY <1>2, <2>1, <2>2
    <3>2. \A p \in started[m].holds : p <= before \/ joint < p
      BY <1>1, <1>4 DEF WholeLine
    <3>. QED BY <3>1, <3>2
  <2>5. ASSUME NEW m \in DOMAIN started, m # k PROVE started[m].stdout # joint
    <3>1. CASE m = last
      BY <1>2, <1>3, <2>1, <2>2, <3>1
    <3>2. CASE m # last
      <4>1. m < k \/ k < m
        BY <2>2, <2>5
      <4>2. \A a, b \in DOMAIN started \ {last} : a < b => started[a].stdout < started[b].stdout
        BY <1>1 DEF WholeLine
      <4>3. started[m].stdout < joint \/ joint < started[m].stdout
        BY <2>3, <3>2, <4>1, <4>2
      <4>. QED BY <2>2, <4>3
    <3>. QED BY <3>1, <3>2
  <2>6. ASSUME NEW m \in DOMAIN started, m # l PROVE started[m].stdin # joint
    <3>1. m < l \/ l < m
      BY <2>2, <2>6
    <3>2. \A a, b \in DOMAIN started : a < b => started[a].stdin < started[b].stdin
      BY <1>1 DEF WholeLine, Joined
    <3>3. started[m].stdin < started[l].stdin \/ started[l].stdin < started[m].stdin
      BY <3>1, <3>2
    <3>. QED BY <2>1, <2>2, <3>3
  <2>. QED BY <2>1, <2>4, <2>5, <2>6
<1>. QED BY <1>2, <1>3, <1>4 DEF Pipes!EndsMeet, Pipes!number_of_programs, Pipes!Terminal

(***************************************************************************)
(* In a line that begins and ends with a program each program's output is  *)
(* the next one's input, and nobody else holds an end of that pipe, for    *)
(* lines of any length, any number of lines before, and blank segments     *)
(* anywhere (cw05/zad1/pipes.c:24-75).                                     *)
(***************************************************************************)
THEOREM PipelinesMeet == ProcessesSpec => []EndsMeet
<1>1. ProcessesInit => PipeInv
  BY PipeInit DEF ProcessesInit
<1>2. PipeInv /\ [ProcessesNext]_processVars => PipeInv'
  BY PipeHolds, PipeSteps
<1>. QED BY <1>1, <1>2, PipesEndsMeet, PTL DEF ProcessesSpec

(***************************************************************************)
(* The System V message queue                                              *)
(*                                                                         *)
(* Requests, answers, registrations and terminations share one queue, and  *)
(* who receives takes the oldest whatever it is.  The number of messages   *)
(* that are not registrations is what nobody can take from the others: a   *)
(* request adds one for its sender, the server puts back what it takes.    *)
(***************************************************************************)
\* SysV counts with the Cardinality of the theorems used here.
LEMMA SysVCardinality == \A S : SysV!Cardinality(S) = Cardinality(S)
BY DEF SysV!Cardinality, Cardinality

\* The places in a queue of what is not a registration.
AnswersIn(q) == {n \in 1 .. Len(q) : q[n].type # "register"}

\* Where a client can be.
ClientPlaces == {"start", "open", "register", "number", "send", "receive", "ended"}

\* The clients in msgrcv on the common queue.
Waiters == {c \in Clients : SysV!Waiting(c)}

\* The message the server has taken and will put back.
InHand == IF server = "answer" THEN 1 ELSE 0

\* There are at least as many as wait, as long as the queue exists; before the
\* server has made it no client is past its start.
Enough ==
  /\ queue \in Seq(SysV!Messages)
  /\ response \in SysV!Messages \cup {SysV!Idle}
  /\ server = "answer" => response \in SysV!Messages /\ response.type # "register"
  /\ clientPc \in [Clients -> ClientPlaces]
  /\ server = "start" => /\ Msqid \notin exists
                         /\ \A c \in Clients : clientPc[c] \in {"start", "ended"}
  /\ Msqid \in exists => Cardinality(Waiters) <= Cardinality(AnswersIn(queue)) + InHand

\* There are as many of them as a natural number says.
LEMMA AnswersFinite ==
  ASSUME NEW S, NEW q \in Seq(S)
  PROVE  IsFiniteSet(AnswersIn(q)) /\ Cardinality(AnswersIn(q)) \in Nat
<1>1. Len(q) \in Nat
  BY LenProperties
<1>2. IsFiniteSet(1 .. Len(q))
  BY <1>1, FS_Interval
<1>3. AnswersIn(q) \subseteq 1 .. Len(q)
  BY DEF AnswersIn
<1> QED
  BY <1>2, <1>3, FS_Subset, FS_CardinalityType

\* msgsnd adds one, unless it sends a registration.
LEMMA AppendAnswers ==
  ASSUME NEW q \in Seq(SysV!Messages), NEW m \in SysV!Messages
  PROVE  Cardinality(AnswersIn(Append(q, m))) =
           Cardinality(AnswersIn(q)) + (IF m.type # "register" THEN 1 ELSE 0)
<1> DEFINE n == Len(q) + 1
<1>1. /\ Len(q) \in Nat /\ Len(Append(q, m)) = n
      /\ \A k \in 1 .. Len(q) : Append(q, m)[k] = q[k]
      /\ Append(q, m)[n] = m
  BY AppendProperties
<1>2. \A k : k \in 1 .. n <=> k \in 1 .. Len(q) \/ k = n
  BY <1>1
<1>3. n \notin AnswersIn(q)
  BY <1>1 DEF AnswersIn
<1>4. IsFiniteSet(AnswersIn(q)) /\ Cardinality(AnswersIn(q)) \in Nat
  BY AnswersFinite
<1> HIDE DEF n
<1>5. CASE m.type = "register"
  <2>1. AnswersIn(Append(q, m)) = AnswersIn(q)
    BY <1>1, <1>2, <1>5 DEF AnswersIn
  <2> QED
    BY <1>4, <1>5, <2>1
<1>6. CASE m.type # "register"
  <2>1. AnswersIn(Append(q, m)) = AnswersIn(q) \cup {n}
    BY <1>1, <1>2, <1>6 DEF AnswersIn
  <2> QED
    BY <1>3, <1>4, <1>6, <2>1, FS_AddElement
<1> QED
  BY <1>5, <1>6

\* msgrcv takes one away, unless it takes a registration.
LEMMA TailAnswers ==
  ASSUME NEW q \in Seq(SysV!Messages), q # << >>
  PROVE  Cardinality(AnswersIn(q)) =
           Cardinality(AnswersIn(Tail(q))) + (IF Head(q).type # "register" THEN 1 ELSE 0)
<1> DEFINE A == AnswersIn(q)
           B == AnswersIn(Tail(q))
           shift == [k \in B |-> k + 1]
<1>1. /\ Len(q) \in Nat \ {0} /\ Len(Tail(q)) = Len(q) - 1
      /\ \A k \in 1 .. Len(q) - 1 : Tail(q)[k] = q[k + 1]
      /\ Head(q) = q[1] /\ Tail(q) \in Seq(SysV!Messages)
  BY HeadTailProperties, EmptySeq
<1>2. /\ \A k \in B : k \in Int /\ k + 1 \in A \ {1}
      /\ \A k \in A \ {1} : k \in Int /\ k - 1 \in B /\ (k - 1) + 1 = k
  <2>1. \A k \in 1 .. Len(q) - 1 : k \in Int /\ k + 1 \in 1 .. Len(q) /\ k + 1 # 1
    BY <1>1
  <2>2. \A k \in 1 .. Len(q) : k # 1 => k \in Int /\ k - 1 \in 1 .. Len(q) - 1 /\ (k - 1) + 1 = k
    BY <1>1
  <2> QED
    BY <1>1, <2>1, <2>2 DEF AnswersIn
<1>3. shift \in Bijection(B, A \ {1})
  <2> HIDE DEF A, B
  <2>1. shift \in [B -> A \ {1}]
    BY <1>2
  <2>2. \A k, l \in B : shift[k] = shift[l] => k = l
    BY <1>2
  <2>3. \A k \in A \ {1} : k - 1 \in B /\ shift[k - 1] = k
    BY <1>2
  <2> HIDE DEF shift
  <2> QED
    BY <2>1, <2>2, <2>3, Fun_IsBij
<1>4. IsFiniteSet(A) /\ IsFiniteSet(B) /\ Cardinality(A) \in Nat /\ Cardinality(B) \in Nat
  BY <1>1, AnswersFinite
<1>5. Cardinality(A \ {1}) = Cardinality(B)
  BY <1>3, <1>4, FS_Bijection DEF ExistsBijection
<1>6. 1 \in A <=> Head(q).type # "register"
  BY <1>1 DEF AnswersIn
<1>7. CASE 1 \in A
  <2>1. Cardinality(A \ {1}) = Cardinality(A) - 1
    BY <1>4, <1>7, FS_RemoveElement
  <2> HIDE DEF A, B
  <2>2. Cardinality(A) = Cardinality(B) + 1
    BY <1>4, <1>5, <2>1
  <2> QED
    BY <1>6, <1>7, <2>2 DEF A, B
<1>8. CASE 1 \notin A
  <2>1. Cardinality(A \ {1}) = Cardinality(A)
    BY <1>4, <1>8, FS_RemoveElement
  <2> HIDE DEF A, B
  <2>2. Cardinality(A) = Cardinality(B) + 0
    BY <1>4, <1>5, <2>1
  <2> QED
    BY <1>6, <1>8, <2>2 DEF A, B
<1> QED
  BY <1>7, <1>8

\* If nobody begins to wait, no more wait than before.
LEMMA NoNewWaiter ==
  ASSUME IsFiniteSet(Clients),
         \A d \in Clients : SysV!Waiting(d)' => SysV!Waiting(d)
  PROVE  /\ Cardinality(Waiters) \in Nat /\ Cardinality(Waiters') \in Nat
         /\ Cardinality(Waiters') <= Cardinality(Waiters)
<1>1. Waiters \subseteq Clients /\ Waiters' \subseteq Waiters
  BY DEF Waiters
<1> QED
  BY <1>1, FS_Subset, FS_CardinalityType

\* One client that begins to wait is one more.
LEMMA OneWaiterMore ==
  ASSUME IsFiniteSet(Clients), NEW c \in Clients,
         \A d \in Clients : SysV!Waiting(d)' <=> SysV!Waiting(d) \/ d = c
  PROVE  Cardinality(Waiters') \in Nat /\ Cardinality(Waiters') <= Cardinality(Waiters) + 1
<1>1. Waiters' = Waiters \cup {c}
  BY DEF Waiters
<1>2. IsFiniteSet(Waiters) /\ Cardinality(Waiters) \in Nat
  <2>1. Waiters \subseteq Clients
    BY DEF Waiters
  <2> QED
    BY <2>1, FS_Subset, FS_CardinalityType
<1>3. CASE c \in Waiters
  <2>1. Cardinality(Waiters \cup {c}) = Cardinality(Waiters)
    BY <1>2, <1>3, FS_AddElement
  <2> QED
    BY <1>1, <1>2, <2>1
<1>4. CASE c \notin Waiters
  <2>1. Cardinality(Waiters \cup {c}) = Cardinality(Waiters) + 1
    BY <1>2, <1>4, FS_AddElement
  <2> QED
    BY <1>1, <1>2, <2>1
<1> QED
  BY <1>3, <1>4

\* One client that stops waiting is one less.
LEMMA OneWaiterLess ==
  ASSUME IsFiniteSet(Clients), NEW c \in Clients, SysV!Waiting(c),
         \A d \in Clients : SysV!Waiting(d)' <=> SysV!Waiting(d) /\ d # c
  PROVE  Cardinality(Waiters') \in Nat /\ Cardinality(Waiters') = Cardinality(Waiters) - 1
<1>1. Waiters' = Waiters \ {c} /\ c \in Waiters
  BY DEF Waiters
<1>2. IsFiniteSet(Waiters)
  <2>1. Waiters \subseteq Clients
    BY DEF Waiters
  <2> QED
    BY <2>1, FS_Subset
<1>3. Cardinality(Waiters \ {c}) = Cardinality(Waiters) - 1 /\ IsFiniteSet(Waiters \ {c})
  BY <1>1, <1>2, FS_RemoveElement
<1> QED
  BY <1>1, <1>3, FS_CardinalityType

\* A step keeps as many answers as there are clients that wait.
LEMMA EnoughStep ==
  ASSUME SysV!MsgQueueAssumption, IsFiniteSet(Clients), Enough, [SysV!Next]_(SysV!vars)
  PROVE  Enough'
<1> USE DEF Enough, ClientPlaces
<1>1. /\ Cardinality(AnswersIn(queue)) \in Nat
      /\ \A m \in SysV!Messages : Append(queue, m) \in Seq(SysV!Messages)
      /\ queue # << >> => Tail(queue) \in Seq(SysV!Messages) /\ Head(queue) \in SysV!Messages
  BY AnswersFinite, HeadTailProperties, AppendProperties
<1>2. \A t \in SysV!Types, c \in Clients : [type |-> t, from |-> c] \in SysV!Messages
  BY DEF SysV!Messages
<1>3. Cardinality(Waiters) \in Nat /\ InHand \in {0, 1}
  <2>1. Waiters \subseteq Clients
    BY DEF Waiters
  <2> QED
    BY <2>1, FS_Subset, FS_CardinalityType DEF InHand
<1>4. ASSUME UNCHANGED <<queue, response, server, clientPc>>,
             Msqid \in exists' => Msqid \in exists
      PROVE  Enough'
  <2>1. Waiters' = Waiters /\ InHand' = InHand
    BY <1>4 DEF Waiters, SysV!Waiting, InHand
  <2> QED
    BY <1>4, <2>1
<1>5. CASE SysV!CreateQueue
  <2>1. /\ server = "start" /\ server' = "receive"
        /\ UNCHANGED <<queue, response, clientPc>>
    BY <1>5 DEF SysV!CreateQueue, SysV!clientVars
  <2>2. Waiters' = {}
    BY <2>1 DEF Waiters, SysV!Waiting
  <2>3. Cardinality(Waiters') = 0 /\ InHand' = 0
    BY <2>1, <2>2, FS_EmptySet DEF InHand
  <2> QED
    BY <1>1, <2>1, <2>3
<1>6. CASE SysV!ServerReceive
  <2>1. /\ server = "receive" /\ queue # << >> /\ queue' = Tail(queue)
        /\ response' = Head(queue)
        /\ server' = IF Head(queue).type = "register" THEN "number" ELSE "answer"
        /\ UNCHANGED <<exists, clientPc>>
    BY <1>6 DEF SysV!ServerReceive, SysV!clientVars
  <2>2. Waiters' = Waiters
    BY <2>1 DEF Waiters, SysV!Waiting
  <2>3. Cardinality(AnswersIn(queue')) + InHand' = Cardinality(AnswersIn(queue)) + InHand
    <3>1. Cardinality(AnswersIn(Tail(queue))) \in Nat
      BY <1>1, <2>1, AnswersFinite
    <3>2. Cardinality(AnswersIn(queue)) =
            Cardinality(AnswersIn(Tail(queue)))
            + (IF Head(queue).type # "register" THEN 1 ELSE 0)
      BY <2>1, TailAnswers
    <3>3. InHand = 0 /\ InHand' = IF Head(queue).type = "register" THEN 0 ELSE 1
      BY <2>1 DEF InHand
    <3> HIDE DEF Enough
    <3> QED
      BY <1>1, <2>1, <3>1, <3>2, <3>3
  <2> QED
    BY <1>1, <2>1, <2>2, <2>3
<1>7. CASE SysV!SendNumber
  <2>1. /\ server = "number" /\ server' = "receive" /\ response' = SysV!Idle
        /\ UNCHANGED <<queue, exists, clientPc>>
    BY <1>7 DEF SysV!SendNumber, SysV!clientVars
  <2>2. Waiters' = Waiters /\ InHand' = InHand
    BY <2>1 DEF Waiters, SysV!Waiting, InHand
  <2> QED
    BY <2>1, <2>2
<1>8. CASE SysV!SendAnswer
  <2>1. /\ server = "answer" /\ server' \in {"raise", "receive"} /\ response' = SysV!Idle
        /\ queue' = IF Msqid \in exists THEN Append(queue, response) ELSE queue
        /\ UNCHANGED <<exists, clientPc>>
    BY <1>8 DEF SysV!SendAnswer, SysV!Send, SysV!clientVars
  <2>2. Waiters' = Waiters
    BY <2>1 DEF Waiters, SysV!Waiting
  <2>3. InHand = 1 /\ InHand' = 0
    BY <2>1 DEF InHand
  <2>4. Msqid \in exists => Cardinality(AnswersIn(queue')) = Cardinality(AnswersIn(queue)) + 1
    BY <2>1, AppendAnswers
  <2>5. queue' \in Seq(SysV!Messages)
    BY <1>1, <2>1
  <2> QED
    BY <1>1, <1>3, <2>1, <2>2, <2>3, <2>4, <2>5
<1>9. CASE SysV!shutdown_server
  <2>1. /\ server' = "gone" /\ Msqid \notin exists' /\ queue' = << >>
        /\ UNCHANGED <<response, clientPc>>
    BY <1>9 DEF SysV!shutdown_server, SysV!clientVars
  <2> QED
    BY <2>1
<1>10. ASSUME NEW c \in Clients, SysV!ClientNext(c) PROVE Enough'
  <2>1. CASE SysV!FindQueue(c) \/ SysV!Open(c)
    <3>1. /\ UNCHANGED <<queue, response, server>>
          /\ \E place \in {"open", "register", "ended"} : clientPc' = [clientPc EXCEPT ![c] = place]
          /\ Msqid \in exists' <=> Msqid \in exists
          /\ clientPc[c] \in {"start", "open"}
          /\ clientPc[c] = "start" /\ Msqid \notin exists => clientPc' = [clientPc EXCEPT ![c] = "ended"]
      BY <2>1 DEF SysV!FindQueue, SysV!Open, SysV!Goto, SysV!serverVars, SysV!MsgQueueAssumption
    <3>2. PICK place \in {"open", "register", "ended"} : clientPc' = [clientPc EXCEPT ![c] = place]
      BY <3>1
    <3>6. \A d \in Clients : SysV!Waiting(d)' => SysV!Waiting(d)
      BY <3>2 DEF SysV!Waiting
    <3>3. Cardinality(Waiters') \in Nat /\ Cardinality(Waiters') <= Cardinality(Waiters)
      BY <3>6, NoNewWaiter
    <3>4. InHand' = InHand
      BY <3>1 DEF InHand
    <3>5. clientPc' \in [Clients -> ClientPlaces]
      BY <3>2
    <3>7. server = "start" => /\ clientPc[c] = "start"
                              /\ \A d \in Clients : clientPc'[d] \in {"start", "ended"}
      BY <3>1
    <3> QED
      BY <1>1, <1>3, <3>1, <3>3, <3>4, <3>5, <3>7
  <2>2. CASE SysV!Register(c)
    <3> DEFINE m == [type |-> "register", from |-> c]
    <3>1. /\ UNCHANGED <<response, server, exists>>
          /\ clientPc[c] = "register"
          /\ queue' = IF Msqid \in exists THEN Append(queue, m) ELSE queue
          /\ \E place \in {"number", "ended"} : clientPc' = [clientPc EXCEPT ![c] = place]
      BY <2>2 DEF SysV!Register, SysV!Send, SysV!Goto, SysV!serverVars
    <3>2. PICK place \in {"number", "ended"} : clientPc' = [clientPc EXCEPT ![c] = place]
      BY <3>1
    <3>8. \A d \in Clients : SysV!Waiting(d)' => SysV!Waiting(d)
      BY <3>2 DEF SysV!Waiting
    <3>3. Cardinality(Waiters') \in Nat /\ Cardinality(Waiters') <= Cardinality(Waiters)
      BY <3>8, NoNewWaiter
    <3>4. InHand' = InHand
      BY <3>1 DEF InHand
    <3>5. m \in SysV!Messages /\ m.type = "register"
      BY DEF SysV!Messages, SysV!Types
    <3> HIDE DEF m
    <3>6. /\ queue' \in Seq(SysV!Messages)
          /\ Cardinality(AnswersIn(queue')) = Cardinality(AnswersIn(queue))
      BY <1>1, <3>1, <3>5, AppendAnswers
    <3>7. /\ clientPc' \in [Clients -> ClientPlaces]
          /\ server # "start"
      BY <3>1, <3>2
    <3> QED
      BY <1>1, <1>3, <3>1, <3>3, <3>4, <3>6, <3>7
  <2>3. CASE SysV!GetNumber(c)
    <3>1. /\ UNCHANGED <<queue, response, server, exists>>
          /\ clientPc[c] = "number" /\ clientPc' = [clientPc EXCEPT ![c] = "send"]
      BY <2>3 DEF SysV!GetNumber, SysV!Goto, SysV!serverVars
    <3>5. \A d \in Clients : SysV!Waiting(d)' => SysV!Waiting(d)
      BY <3>1 DEF SysV!Waiting
    <3>2. Cardinality(Waiters') \in Nat /\ Cardinality(Waiters') <= Cardinality(Waiters)
      BY <3>5, NoNewWaiter
    <3>3. InHand' = InHand
      BY <3>1 DEF InHand
    <3>4. /\ clientPc' \in [Clients -> ClientPlaces]
          /\ server # "start"
      BY <3>1
    <3> QED
      BY <1>1, <1>3, <3>1, <3>2, <3>3, <3>4
  <2>4. CASE SysV!Request(c)
    <3>1. /\ UNCHANGED <<response, server, exists>> /\ clientPc[c] = "send"
          /\ \E kind \in {"work", "terminate"} :
               /\ queue' = IF Msqid \in exists
                              THEN Append(queue, [type |-> kind, from |-> c]) ELSE queue
               /\ clientPc' =
                    [clientPc EXCEPT ![c] = IF kind = "terminate" THEN "ended" ELSE "receive"]
      BY <2>4 DEF SysV!Request, SysV!Send, SysV!Goto, SysV!serverVars
    <3>2. PICK kind \in {"work", "terminate"} :
               /\ queue' = IF Msqid \in exists
                              THEN Append(queue, [type |-> kind, from |-> c]) ELSE queue
               /\ clientPc' =
                    [clientPc EXCEPT ![c] = IF kind = "terminate" THEN "ended" ELSE "receive"]
      BY <3>1
    <3> DEFINE m == [type |-> kind, from |-> c]
               place == IF kind = "terminate" THEN "ended" ELSE "receive"
    <3>3. m \in SysV!Messages /\ m.type # "register"
      BY DEF SysV!Messages, SysV!Types
    <3>4. clientPc' = [clientPc EXCEPT ![c] = place] /\ place \in {"ended", "receive"}
          /\ queue' = IF Msqid \in exists THEN Append(queue, m) ELSE queue
      BY <3>2
    <3> HIDE DEF m, place
    <3>5. Cardinality(Waiters') \in Nat /\ Cardinality(Waiters') <= Cardinality(Waiters) + 1
      <4>1. CASE place = "receive"
        <5>1. \A d \in Clients : SysV!Waiting(d)' <=> SysV!Waiting(d) \/ d = c
          BY <3>4, <4>1 DEF SysV!Waiting
        <5> QED
          BY <5>1, OneWaiterMore
      <4>2. CASE place = "ended"
        <5>1. \A d \in Clients : SysV!Waiting(d)' => SysV!Waiting(d)
          BY <3>4, <4>2 DEF SysV!Waiting
        <5>2. Cardinality(Waiters') \in Nat /\ Cardinality(Waiters') <= Cardinality(Waiters)
          BY <5>1, NoNewWaiter
        <5> QED
          BY <1>3, <5>2
      <4> QED
        BY <3>4, <4>1, <4>2
    <3>6. /\ queue' \in Seq(SysV!Messages)
          /\ Msqid \in exists
               => Cardinality(AnswersIn(queue')) = Cardinality(AnswersIn(queue)) + 1
      BY <1>1, <3>3, <3>4, AppendAnswers
    <3>7. InHand' = InHand
      BY <3>1 DEF InHand
    <3>8. /\ clientPc' \in [Clients -> ClientPlaces]
          /\ server # "start"
      BY <3>1, <3>4
    <3> QED
      BY <1>1, <1>3, <3>1, <3>5, <3>6, <3>7, <3>8
  <2>5. CASE SysV!Receive(c)
    <3>1. /\ UNCHANGED <<response, server, exists>> /\ SysV!Waiting(c) /\ clientPc[c] = "receive"
          /\ queue # << >> /\ queue' = Tail(queue)
          /\ clientPc' = [clientPc EXCEPT ![c] = "send"]
      BY <2>5 DEF SysV!Receive, SysV!Waiting, SysV!Goto, SysV!serverVars
    <3>7. \A d \in Clients : SysV!Waiting(d)' <=> SysV!Waiting(d) /\ d # c
      BY <3>1 DEF SysV!Waiting
    <3>2. Cardinality(Waiters') \in Nat /\ Cardinality(Waiters') = Cardinality(Waiters) - 1
      BY <3>1, <3>7, OneWaiterLess
    <3>3. Cardinality(AnswersIn(queue')) >= Cardinality(AnswersIn(queue)) - 1
      <4>1. Cardinality(AnswersIn(Tail(queue))) \in Nat
        BY <1>1, <3>1, AnswersFinite
      <4>2. Cardinality(AnswersIn(queue)) =
              Cardinality(AnswersIn(Tail(queue)))
              + (IF Head(queue).type # "register" THEN 1 ELSE 0)
        BY <3>1, TailAnswers
      <4>3. Cardinality(AnswersIn(Tail(queue))) >= Cardinality(AnswersIn(queue)) - 1
        <5> HIDE DEF Enough
        <5> QED
          BY <1>1, <4>1, <4>2
      <4>4. queue' = Tail(queue)
        BY <3>1
      <4> HIDE DEF Enough
      <4> QED
        BY <4>3, <4>4, Zenon
    <3>4. InHand' = InHand
      BY <3>1 DEF InHand
    <3>5. /\ clientPc' \in [Clients -> ClientPlaces]
          /\ server # "start" /\ queue' \in Seq(SysV!Messages)
      BY <1>1, <3>1
    <3>6. Cardinality(AnswersIn(queue')) \in Nat
      BY <3>5, AnswersFinite
    <3> QED
      BY <1>1, <1>3, <3>1, <3>2, <3>3, <3>4, <3>5, <3>6
  <2>6. CASE SysV!ReceiveFails(c)
    <3>1. /\ UNCHANGED <<queue, response, server, exists>>
          /\ clientPc' = [clientPc EXCEPT ![c] = "ended"]
      BY <2>6 DEF SysV!ReceiveFails, SysV!Goto, SysV!serverVars
    <3>5. \A d \in Clients : SysV!Waiting(d)' => SysV!Waiting(d)
      BY <3>1 DEF SysV!Waiting
    <3>2. Cardinality(Waiters') \in Nat /\ Cardinality(Waiters') <= Cardinality(Waiters)
      BY <3>5, NoNewWaiter
    <3>3. InHand' = InHand
      BY <3>1 DEF InHand
    <3>4. clientPc' \in [Clients -> ClientPlaces]
      BY <3>1
    <3> QED
      BY <1>1, <1>3, <3>1, <3>2, <3>3, <3>4
  <2> QED
    BY <1>10, <2>1, <2>2, <2>3, <2>4, <2>5, <2>6 DEF SysV!ClientNext
<1>11. CASE UNCHANGED SysV!vars
  BY <1>4, <1>11 DEF SysV!vars, SysV!serverVars, SysV!clientVars
<1> QED
  BY <1>5, <1>6, <1>7, <1>8, <1>9, <1>10, <1>11 DEF SysV!Next, SysV!ServerNext, SysV!Raise

\* Whoever waits for an answer finds one in the common queue or in the server's
\* hands, though it need not be its own, as long as that queue exists.
THEOREM AnswersSuffice ==
  ASSUME SysV!MsgQueueAssumption, IsFiniteSet(Clients)
  PROVE  SysV!Spec => []SysV!EnoughAnswers
<1>1. SysV!Init => Enough
  <2> SUFFICES ASSUME SysV!Init PROVE Enough
    OBVIOUS
  <2>1. /\ queue = << >> /\ queue \in Seq(SysV!Messages) /\ response = SysV!Idle /\ server = "start"
        /\ exists = {} /\ \A c \in Clients : clientPc[c] = "start"
        /\ clientPc \in [Clients -> ClientPlaces]
    BY DEF SysV!Init, ClientPlaces
  <2> QED
    BY <2>1 DEF Enough
<1>2. Enough /\ [SysV!Next]_(SysV!vars) => Enough'
  BY EnoughStep
<1>3. Enough => SysV!EnoughAnswers
  BY SysVCardinality DEF Enough, SysV!EnoughAnswers, Waiters, SysV!Answers, AnswersIn, InHand
<1> QED
  BY <1>1, <1>2, <1>3, PTL DEF SysV!Spec
==============================================================================
