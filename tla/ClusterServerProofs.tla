------------------------- MODULE ClusterServerProofs -------------------------
(***************************************************************************)
(* Proofs about the table of the cluster's server (ClusterServer), for any *)
(* finite set of clients, any table that has room for them and any number  *)
(* of operations.  The two threads share the table without a lock; what    *)
(* keeps a client in it is that everything the network thread stores goes  *)
(* into a slot nobody has used, and that check_doubles clears a slot only  *)
(* while another one holds the same descriptor, unless that descriptor is  *)
(* being unregistered or was stored under its hands.                       *)
(***************************************************************************)
EXTENDS ClusterServer, FiniteSetTheorems, TLAPS

Registered == {c \in Clients : cpc[c] # "off"}

\* check_doubles compares different slots.
PairInOrder == i < j

\* The network thread has its hands on an open connection, or on none.
AtHand ==
  /\ npc \in {"epoll_wait", "read", "clear"}
  /\ npc \in {"read", "clear"} => done_fd \in open
  /\ kpc = "write" => cl_desc \in Descriptors

OpenHaveOwners == \A d \in open : owner[d] \in Clients

\* Slots are taken in order, and each by another client.
RoomLeft ==
  /\ \A s \in Slots : s >= client_count => client_descriptors[s] = 0
  /\ Cardinality(open) <= client_count
  /\ client_count + Len(backlog) = Cardinality(Registered)

Unregistering(d) == npc = "clear" /\ done_fd = d

\* The slot check_doubles is about to clear, or may find equal.
Comparing == kpc = "clear" \/ (kpc = "load_right" /\ client_descriptors[j] = left)

\* Clearing that slot takes no client's last entry, or one that is spoken for.
DoubleIsSpare ==
  Comparing /\ client_descriptors[j] \in open =>
    LET d == client_descriptors[j]
    IN  \/ \E s \in Slots \ {j} : client_descriptors[s] = d
        \/ owner[d] \in hit
        \/ Unregistering(d)

IInv ==
  /\ TypeOK /\ PairInOrder /\ AtHand /\ OpenHaveOwners /\ RoomLeft
  /\ DoubleIsSpare /\ ForgottenOnlyIfHit /\ StaleOnlyAfterReset

\* A set of numbers that is not empty has a least one.
LEMMA MinElement ==
  ASSUME NEW S, S \subseteq Nat, S # {}
  PROVE  Min(S) \in S
<1>1. \E x \in S : \A y \in S : ~(<<y, x>> \in OpToRel(<, Nat))
  BY NatLessThanWellFounded, WFMin
<1>2. \E x \in S : \A y \in S : x =< y
  <2>1. PICK x \in S : \A y \in S : ~(<<y, x>> \in OpToRel(<, Nat))
    BY <1>1
  <2>2. \A y \in S : ~(y < x)
    BY <2>1 DEF OpToRel
  <2>. QED BY <2>2
<1>. QED BY <1>2 DEF Min

LEMMA InitHolds == Init => IInv
<1>. SUFFICES ASSUME Init PROVE IInv
  OBVIOUS
<1>. USE DEF Init
<1>1. TypeOK
  BY ClientsAssumption, OperationsAssumption DEF TypeOK, Slots
<1>2. PairInOrder /\ AtHand /\ OpenHaveOwners
  BY DEF PairInOrder, AtHand, OpenHaveOwners
<1>3. RoomLeft
  <2>1. Registered = {} /\ Cardinality({}) = 0
    BY FS_EmptySet DEF Registered
  <2>. QED BY <2>1 DEF RoomLeft
<1>4. DoubleIsSpare /\ ForgottenOnlyIfHit /\ StaleOnlyAfterReset
  BY DEF DoubleIsSpare, ForgottenOnlyIfHit, StaleOnlyAfterReset, Slots, Descriptors
<1>. QED BY <1>1, <1>2, <1>3, <1>4 DEF IInv

(***************************************************************************)
(* What the steps do                                                       *)
(***************************************************************************)
\* A step that touches neither the table nor its descriptors.
Elsewhere ==
  /\ UNCHANGED <<table, owner, open, network, hit>>
  /\ reset \subseteq reset'
  /\ \/ UNCHANGED <<kpc, cl_desc, i, j, left>>
     \/ /\ kpc' \in {"pick", "load_left"} \/ (kpc' = "write" /\ cl_desc' \in Descriptors)
        /\ UNCHANGED <<i, j>> \/ (i' = 0 /\ j' = 1)

LEMMA ClientEffect ==
  ASSUME NEW c \in Clients, ClientNext(c)
  PROVE  Elsewhere
BY DEF ClientNext, Connect, Send, Receive, Leave, ClientStep, Elsewhere, table, network,
       computing, sockets

LEMMA ComputingEffect ==
  ASSUME TypeOK, Type \/ Pick \/ Write
  PROVE  Elsewhere
<1>1. CASE Type
  BY <1>1 DEF Type, ComputingStep, Elsewhere, table, network, sockets, traffic
<1>2. CASE Pick
  BY <1>2 DEF TypeOK, Pick, ComputingStep, Elsewhere, table, network, sockets, traffic
<1>3. CASE Write
  <2>1. reset \subseteq reset'
    BY <1>3 DEF Write
  <2>. QED BY <1>3, <2>1 DEF Write, ComputingStep, Elsewhere, table, network, sockets
<1>. QED BY <1>1, <1>2, <1>3

\* Every step is one of the table's or happens elsewhere.
LEMMA Steps ==
  ASSUME TypeOK, [Next]_vars
  PROVE  \/ Elsewhere \/ Accept \/ Read \/ ClearSlot \/ Close
         \/ LoadLeft \/ LoadRight \/ ClearDouble
         \/ \E d \in Descriptors : ErrorEvent(d) \/ DataEvent(d)
<1>1. CASE UNCHANGED vars
  BY <1>1 DEF vars, Elsewhere, table, network, computing, sockets, traffic
<1>2. ASSUME NEW c \in Clients, ClientNext(c) PROVE Elsewhere
  BY <1>2, ClientEffect
<1>3. CASE NetworkNext
  BY <1>3 DEF NetworkNext
<1>4. CASE ComputingNext
  BY <1>4, ComputingEffect DEF ComputingNext
<1>. QED BY <1>1, <1>2, <1>3, <1>4 DEF Next

\* accept finds a slot nobody has used and a descriptor that is free.
LEMMA AcceptEffect ==
  ASSUME IInv, Accept
  PROVE  \E infd \in Descriptors \ open :
           /\ client_count \in Slots /\ client_descriptors[client_count] = 0
           /\ Head(backlog) \in Clients
           /\ owner' = [owner EXCEPT ![infd] = Head(backlog)]
           /\ open' = open \cup {infd}
           /\ client_descriptors' = [client_descriptors EXCEPT ![client_count] = infd]
           /\ client_count' = client_count + 1
           /\ backlog' = Tail(backlog)
           /\ hit \subseteq hit'
           /\ kpc \in {"load_right", "clear"} /\ j = client_count => Head(backlog) \in hit'
           /\ npc = "epoll_wait" /\ npc' = "epoll_wait"
           /\ UNCHANGED <<computing, reset, cpc, done_fd>>
<1>. USE DEF IInv, TypeOK
<1>1. backlog # << >> /\ Len(backlog) \in Nat \ {0}
  BY DEF Accept
<1>2. client_count < Cardinality(Clients) /\ Cardinality(Clients) \in Nat
  <2>1. Registered \subseteq Clients /\ IsFiniteSet(Clients)
    BY ClientsAssumption DEF Registered
  <2>2. Cardinality(Registered) <= Cardinality(Clients) /\ Cardinality(Registered) \in Nat
        /\ Cardinality(Clients) \in Nat
    BY <2>1, FS_Subset, FS_CardinalityType
  <2>. QED BY <1>1, <2>2, ClientsAssumption DEF RoomLeft
<1>3. client_count \in Slots /\ client_descriptors[client_count] = 0
  BY <1>2, ClientsAssumption DEF Slots, RoomLeft
<1>4. Descriptors \ open # {}
  <2>1. IsFiniteSet(Descriptors) /\ Cardinality(Descriptors) = Cardinality(Clients)
    BY <1>2, FS_Interval DEF Descriptors
  <2>2. open # Descriptors
    BY <1>2, <2>1 DEF RoomLeft
  <2>. QED BY <2>2
<1>5. Min(Descriptors \ open) \in Descriptors \ open
  <2>1. Descriptors \ open \subseteq Nat
    BY DEF Descriptors
  <2>. QED BY <1>4, <2>1, MinElement
<1>6. Head(backlog) \in Clients
  BY <1>1
<1>7. /\ owner' = [owner EXCEPT ![Min(Descriptors \ open)] = Head(backlog)]
      /\ open' = open \cup {Min(Descriptors \ open)}
      /\ client_descriptors' = [client_descriptors EXCEPT ![client_count] = Min(Descriptors \ open)]
      /\ client_count' = client_count + 1 /\ backlog' = Tail(backlog)
      /\ UNCHANGED <<computing, reset, cpc, done_fd>>
      /\ npc = "epoll_wait" /\ npc' = "epoll_wait"
  BY DEF Accept, NetworkStep, traffic
<1>8. hit \subseteq hit'
      /\ (kpc \in {"load_right", "clear"} /\ j = client_count => Head(backlog) \in hit')
  BY DEF Accept
<1>. HIDE DEF IInv, TypeOK
<1>. QED BY <1>3, <1>5, <1>6, <1>7, <1>8

\* The network thread empties one slot of the descriptor it unregisters.
LEMMA ClearSlotEffect ==
  ASSUME TypeOK, ClearSlot
  PROVE  \E s \in Slots :
           /\ client_descriptors[s] = done_fd
           /\ client_descriptors' = [client_descriptors EXCEPT ![s] = 0]
           /\ npc = "clear" /\ npc' = "clear"
           /\ UNCHANGED <<client_count, server, sockets, done_fd, computing, traffic, hit>>
<1>1. SlotsOf(done_fd) \subseteq Nat /\ SlotsOf(done_fd) # {}
  BY DEF ClearSlot, SlotsOf, Slots
<1>2. Min(SlotsOf(done_fd)) \in SlotsOf(done_fd)
  BY <1>1, MinElement
<1>. QED BY <1>2 DEF ClearSlot, NetworkStep, SlotsOf

\* The loops of check_doubles stay inside the table.
LEMMA NextPairInOrder ==
  ASSUME TypeOK, PairInOrder, NextPair
  PROVE  i' \in Slots /\ j' \in Slots /\ PairInOrder' /\ kpc' \in {"scanf", "load_left"}
<1>. USE ClientsAssumption DEF TypeOK, PairInOrder, NextPair, LastPair, Slots
<1>1. CASE LastPair
  BY <1>1
<1>2. CASE ~LastPair /\ j = MAX_CLIENTS_NUMBER - 1
  BY <1>2
<1>3. CASE ~LastPair /\ j # MAX_CLIENTS_NUMBER - 1
  BY <1>3
<1>. QED BY <1>1, <1>2, <1>3

(***************************************************************************)
(* Types                                                                   *)
(***************************************************************************)
LEMMA ClientTypes ==
  ASSUME TypeOK, NEW c \in Clients, ClientNext(c)
  PROVE  TypeOK'
<1>. USE DEF TypeOK, ClientStep, table, network, sockets, computing
<1>1. CASE Connect(c)
  <2>1. backlog' \in Seq(Clients)
    BY <1>1 DEF Connect
  <2>. QED BY <1>1, <2>1 DEF Connect
<1>2. ASSUME NEW from \in {"send_name", "answer"}, Send(c, from) PROVE TypeOK'
  BY <1>2 DEF Send
<1>3. CASE Receive(c)
  BY <1>3 DEF Receive
<1>4. CASE Leave(c)
  <2>1. cpc' = [cpc EXCEPT ![c] = "gone"]
    BY <1>4 DEF Leave
  <2>2. edge' \subseteq Clients /\ reset' \subseteq Clients
    BY <1>4 DEF Leave
  <2>. QED BY <1>4, <2>1, <2>2 DEF Leave
<1>. QED BY <1>1, <1>2, <1>3, <1>4 DEF ClientNext

LEMMA NetworkTypes ==
  ASSUME IInv, NetworkNext
  PROVE  TypeOK'
<1>. USE DEF TypeOK, NetworkStep
<1>. TypeOK /\ AtHand
  BY DEF IInv
<1>1. CASE Accept
  <2>. PICK infd \in Descriptors \ open :
           /\ client_count \in Slots
           /\ Head(backlog) \in Clients
           /\ owner' = [owner EXCEPT ![infd] = Head(backlog)]
           /\ open' = open \cup {infd}
           /\ client_descriptors' = [client_descriptors EXCEPT ![client_count] = infd]
    BY <1>1, AcceptEffect
  <2>1. backlog' \in Seq(Clients) /\ hit' \subseteq Clients
    BY <1>1 DEF Accept
  <2>2. client_count' \in 0 .. MAX_CLIENTS_NUMBER
    BY <1>1, ClientsAssumption DEF Accept, Slots
  <2>3. npc' = "epoll_wait" /\ UNCHANGED <<server, done_fd, computing, traffic>>
    BY <1>1 DEF Accept
  <2>4. /\ client_descriptors' \in [Slots -> Descriptors \cup {0}]
        /\ owner' \in [Descriptors -> Clients \cup {NoClient}]
        /\ open' \subseteq Descriptors
    OBVIOUS
  <2>. QED BY <2>1, <2>2, <2>3, <2>4 DEF computing, traffic
<1>2. CASE Read
  <2>1. npc' \in {"epoll_wait", "read", "clear"}
    BY <1>2 DEF Read
  <2>. QED BY <1>2, <2>1 DEF Read, table, sockets, computing
<1>3. CASE ClearSlot
  BY <1>3, ClearSlotEffect DEF computing, sockets, traffic
<1>4. CASE Close
  BY <1>4 DEF Close, table, computing, traffic
<1>5. ASSUME NEW d \in Descriptors, ErrorEvent(d) PROVE TypeOK'
  BY <1>5 DEF ErrorEvent, table, computing
<1>6. ASSUME NEW d \in Descriptors, DataEvent(d) PROVE TypeOK'
  BY <1>6 DEF DataEvent, table, sockets, computing
<1>. QED BY <1>1, <1>2, <1>3, <1>4, <1>5, <1>6 DEF NetworkNext

LEMMA ComputingTypes ==
  ASSUME IInv, ComputingNext
  PROVE  TypeOK'
<1>. USE DEF TypeOK, ComputingStep, table, sockets, network, traffic
<1>. TypeOK /\ AtHand /\ PairInOrder /\ OpenHaveOwners
  BY DEF IInv
<1>1. CASE Type
  BY <1>1, OperationsAssumption DEF Type
<1>2. CASE Pick
  BY <1>2 DEF Pick
<1>3. CASE Write
  <2>1. i' \in Slots /\ j' \in Slots
    BY <1>3, ClientsAssumption DEF Write, Slots
  <2>2. server' \in {"up", "down"} /\ kpc' = "load_left" /\ cl_desc' = 0
    BY <1>3 DEF Write
  <2>3. cl_desc \in open => owner[cl_desc] \in Clients
    BY DEF OpenHaveOwners
  <2>4. edge' \subseteq Clients /\ reset' \subseteq Clients
    BY <1>3, <2>3 DEF Write
  <2>5. toClient' \in [Clients -> Nat]
    BY <1>3, <2>3 DEF Write
  <2>. QED BY <1>3, <2>1, <2>2, <2>4, <2>5 DEF Write
<1>4. CASE LoadLeft
  BY <1>4 DEF LoadLeft
<1>5. CASE LoadRight
  <2>1. i' \in Slots /\ j' \in Slots /\ kpc' \in {"scanf", "load_left", "clear"}
    BY <1>5, NextPairInOrder DEF LoadRight
  <2>. QED BY <1>5, <2>1 DEF LoadRight
<1>6. CASE ClearDouble
  <2>1. i' \in Slots /\ j' \in Slots /\ kpc' \in {"scanf", "load_left"}
    BY <1>6, NextPairInOrder DEF ClearDouble
  <2>. QED BY <1>6, <2>1 DEF ClearDouble
<1>. QED BY <1>1, <1>2, <1>3, <1>4, <1>5, <1>6 DEF ComputingNext

LEMMA TypesStay == IInv /\ [Next]_vars => TypeOK'
<1>. SUFFICES ASSUME IInv, [Next]_vars PROVE TypeOK'
  OBVIOUS
<1>1. CASE UNCHANGED vars
  BY <1>1 DEF IInv, TypeOK, vars
<1>. QED BY <1>1, ClientTypes, NetworkTypes, ComputingTypes DEF Next, IInv

(***************************************************************************)
(* The invariant's conjuncts                                               *)
(***************************************************************************)
LEMMA PairStaysInOrder == IInv /\ [Next]_vars => PairInOrder'
<1>. SUFFICES ASSUME IInv, [Next]_vars PROVE PairInOrder'
  OBVIOUS
<1>. USE DEF PairInOrder
<1>. TypeOK /\ PairInOrder
  BY DEF IInv
<1>1. CASE Elsewhere
  BY <1>1 DEF Elsewhere
<1>2. CASE Accept \/ Read \/ ClearSlot \/ Close \/ \E d \in Descriptors : ErrorEvent(d) \/ DataEvent(d)
  BY <1>2 DEF Accept, Read, ClearSlot, Close, ErrorEvent, DataEvent, computing
<1>3. CASE LoadLeft
  BY <1>3 DEF LoadLeft
<1>4. CASE LoadRight
  BY <1>4, NextPairInOrder DEF LoadRight
<1>5. CASE ClearDouble
  BY <1>5, NextPairInOrder DEF ClearDouble
<1>. QED BY <1>1, <1>2, <1>3, <1>4, <1>5, Steps

LEMMA HandsStay == IInv /\ [Next]_vars => AtHand'
<1>. SUFFICES ASSUME IInv, [Next]_vars PROVE AtHand'
  OBVIOUS
<1>. USE DEF AtHand
<1>. TypeOK /\ AtHand
  BY DEF IInv
<1>1. CASE Elsewhere
  BY <1>1 DEF Elsewhere, network
<1>2. CASE Accept
  BY <1>2 DEF Accept, NetworkStep, computing
<1>3. CASE Read
  BY <1>3 DEF Read, NetworkStep, sockets, computing
<1>4. CASE ClearSlot
  BY <1>4 DEF ClearSlot, NetworkStep, sockets, computing
<1>5. CASE Close
  BY <1>5 DEF Close, NetworkStep, computing
<1>6. ASSUME NEW d \in Descriptors, ErrorEvent(d) \/ DataEvent(d) PROVE AtHand'
  BY <1>6 DEF ErrorEvent, DataEvent, NetworkStep, Reported, sockets, computing
<1>7. CASE LoadLeft
  BY <1>7 DEF LoadLeft, ComputingStep, network, sockets
<1>8. CASE LoadRight
  BY <1>8 DEF LoadRight, NextPair, network, sockets
<1>9. CASE ClearDouble
  BY <1>9 DEF ClearDouble, NextPair, network, sockets
<1>. QED BY <1>1, <1>2, <1>3, <1>4, <1>5, <1>6, <1>7, <1>8, <1>9, Steps

LEMMA OwnersStay == IInv /\ [Next]_vars => OpenHaveOwners'
<1>. SUFFICES ASSUME IInv, [Next]_vars PROVE OpenHaveOwners'
  OBVIOUS
<1>. USE DEF OpenHaveOwners
<1>. TypeOK /\ OpenHaveOwners
  BY DEF IInv
<1>1. CASE Accept
  BY <1>1, AcceptEffect DEF TypeOK
<1>2. CASE Close \/ \E d \in Descriptors : ErrorEvent(d)
  BY <1>2 DEF Close, ErrorEvent
<1>3. CASE Elsewhere \/ Read \/ ClearSlot \/ LoadLeft \/ LoadRight \/ ClearDouble
           \/ \E d \in Descriptors : DataEvent(d)
  BY <1>3 DEF Elsewhere, Read, ClearSlot, LoadLeft, LoadRight, ClearDouble, DataEvent, sockets
<1>. QED BY <1>1, <1>2, <1>3, Steps

\* Neither the number of slots used nor who has connected is disturbed elsewhere.
LEMMA RegisteredStays ==
  ASSUME IInv, [Next]_vars, ~Accept, \A c \in Clients : ~Connect(c)
  PROVE  UNCHANGED <<client_count, backlog>> /\ Registered' = Registered
<1>. USE DEF table, network, sockets, computing, traffic
<1>. TypeOK
  BY DEF IInv
<1>1. CASE UNCHANGED vars
  BY <1>1 DEF vars, Registered
<1>2. ASSUME NEW c \in Clients, ClientNext(c)
      PROVE  UNCHANGED <<client_count, backlog>> /\ Registered' = Registered
  <2>1. UNCHANGED <<client_count, backlog>>
    BY <1>2 DEF ClientNext, Send, Receive, Leave
  <2>2. \E to \in {"recv", "answer", "gone"} : cpc' = [cpc EXCEPT ![c] = to] /\ cpc[c] # "off"
    BY <1>2 DEF ClientNext, Send, Receive, Leave, ClientStep
  <2>. QED BY <2>1, <2>2 DEF Registered, TypeOK
<1>3. CASE NetworkNext
  BY <1>3 DEF NetworkNext, Read, ClearSlot, Close, ErrorEvent, DataEvent, Registered
<1>4. CASE ComputingNext
  BY <1>4 DEF ComputingNext, Type, Pick, Write, LoadLeft, LoadRight, ClearDouble, Registered
<1>. QED BY <1>1, <1>2, <1>3, <1>4 DEF Next

LEMMA ConnectionsFinite == IsFiniteSet(Registered) /\ (TypeOK => IsFiniteSet(open))
<1>1. IsFiniteSet(Registered)
  BY FS_Subset, ClientsAssumption DEF Registered
<1>2. IsFiniteSet(Descriptors)
  BY FS_Interval, FS_CardinalityType, ClientsAssumption DEF Descriptors
<1>. QED BY <1>1, <1>2, FS_Subset DEF TypeOK

LEMMA RoomStays == IInv /\ [Next]_vars => RoomLeft'
<1>. SUFFICES ASSUME IInv, [Next]_vars PROVE RoomLeft'
  OBVIOUS
<1>. TypeOK /\ RoomLeft /\ AtHand
  BY DEF IInv
<1>0. /\ IsFiniteSet(Registered) /\ IsFiniteSet(open)
      /\ Cardinality(open) \in Nat /\ Cardinality(Registered) \in Nat
  BY ConnectionsFinite, FS_CardinalityType
<1>1. CASE Accept
  <2>1. PICK infd \in Descriptors \ open :
           /\ client_count \in Slots
           /\ open' = open \cup {infd}
           /\ client_descriptors' = [client_descriptors EXCEPT ![client_count] = infd]
           /\ client_count' = client_count + 1
           /\ backlog' = Tail(backlog) /\ UNCHANGED cpc
    BY <1>1, AcceptEffect
  <2>2. Cardinality(open') = Cardinality(open) + 1
    BY <1>0, <2>1, FS_AddElement
  <2>3. backlog # << >> /\ backlog \in Seq(Clients)
    BY <1>1 DEF Accept, TypeOK
  <2>4. Len(backlog') = Len(backlog) - 1
    BY <2>1, <2>3
  <2>5. Registered' = Registered
    BY <2>1 DEF Registered
  <2>6. client_count \in Nat /\ Len(backlog) \in Nat
    BY <2>3 DEF TypeOK
  <2>7. \A s \in Slots : s >= client_count' => client_descriptors'[s] = 0
    BY <2>1, <2>6 DEF RoomLeft, TypeOK, Slots
  <2>8. Cardinality(open') <= client_count'
    BY <1>0, <2>1, <2>2, <2>6 DEF RoomLeft
  <2>9. client_count' + Len(backlog') = Cardinality(Registered)
    <3>1. client_count + Len(backlog) = Cardinality(Registered)
      BY DEF RoomLeft
    <3>2. client_count' = client_count + 1
      BY <2>1
    <3>. QED BY <2>4, <2>6, <3>1, <3>2
  <2>. QED BY <2>5, <2>7, <2>8, <2>9 DEF RoomLeft
<1>2. ASSUME NEW c \in Clients, Connect(c) PROVE RoomLeft'
  <2>1. UNCHANGED <<client_descriptors, client_count, open>>
    BY <1>2 DEF Connect, table
  <2>2. Len(backlog') = Len(backlog) + 1
    BY <1>2 DEF Connect, TypeOK
  <2>3. c \notin Registered /\ Registered' = Registered \cup {c}
    BY <1>2 DEF Connect, ClientStep, Registered, TypeOK
  <2>4. Cardinality(Registered') = Cardinality(Registered) + 1
    BY <1>0, <2>3, FS_AddElement
  <2>5. client_count \in Nat /\ Len(backlog) \in Nat
    BY DEF TypeOK
  <2>. QED BY <1>0, <2>1, <2>2, <2>4, <2>5 DEF RoomLeft
<1>3. CASE ~Accept /\ \A c \in Clients : ~Connect(c)
  <2>1. UNCHANGED <<client_count, backlog>> /\ Registered' = Registered
    BY <1>3, RegisteredStays
  <2>2. open' \subseteq open
    BY <1>3, Steps DEF Elsewhere, Read, ClearSlot, Close, LoadLeft, LoadRight, ClearDouble,
                       ErrorEvent, DataEvent, sockets
  <2>3. Cardinality(open') <= Cardinality(open) /\ Cardinality(open') \in Nat
    BY <1>0, <2>2, FS_Subset, FS_CardinalityType
  <2>4. \A s \in Slots : client_descriptors'[s] \in {client_descriptors[s], 0}
    <3>1. CASE ClearSlot
      BY <3>1, ClearSlotEffect DEF TypeOK
    <3>2. CASE ClearDouble
      BY <3>2 DEF ClearDouble, TypeOK
    <3>3. CASE ~ClearSlot /\ ~ClearDouble
      BY <1>3, <3>3, Steps DEF Elsewhere, Read, Close, LoadLeft, LoadRight, ErrorEvent, DataEvent, table
    <3>. QED BY <3>1, <3>2, <3>3
  <2>5. client_count \in Nat
    BY DEF TypeOK
  <2>. QED BY <1>0, <2>1, <2>3, <2>4, <2>5 DEF RoomLeft
<1>. QED BY <1>1, <1>2, <1>3

\* A closed descriptor that is still in the table belonged to a reset connection.
LEMMA StaleStays == IInv /\ [Next]_vars => StaleOnlyAfterReset'
<1>. SUFFICES ASSUME IInv, [Next]_vars, NEW s \in Slots,
                     client_descriptors'[s] \in Descriptors \ open'
              PROVE  owner'[client_descriptors'[s]] \in reset'
  BY DEF StaleOnlyAfterReset
<1>. TypeOK /\ StaleOnlyAfterReset /\ AtHand
  BY DEF IInv
<1>. USE DEF StaleOnlyAfterReset
<1>0. 0 \notin Descriptors
  BY DEF Descriptors
<1>1. CASE Accept
  <2>1. PICK infd \in Descriptors \ open :
           /\ client_count \in Slots
           /\ owner' = [owner EXCEPT ![infd] = Head(backlog)]
           /\ open' = open \cup {infd}
           /\ client_descriptors' = [client_descriptors EXCEPT ![client_count] = infd]
           /\ UNCHANGED reset
    BY <1>1, AcceptEffect
  <2>2. client_descriptors'[s] = client_descriptors[s]
    BY <2>1 DEF TypeOK
  <2>. QED BY <2>1, <2>2 DEF TypeOK
<1>2. ASSUME NEW d \in Descriptors, ErrorEvent(d)
      PROVE  owner'[client_descriptors'[s]] \in reset'
  BY <1>2 DEF ErrorEvent, table
<1>3. CASE Close
  <2>1. npc = "clear" /\ SlotsOf(done_fd) = {} /\ open' = open \ {done_fd}
        /\ UNCHANGED <<client_descriptors, owner, reset>>
    BY <1>3 DEF Close, AtHand, NetworkStep, table, traffic
  <2>2. client_descriptors[s] # done_fd
    BY <2>1 DEF SlotsOf
  <2>. QED BY <2>1, <2>2
<1>4. CASE ClearSlot
  BY <1>0, <1>4, ClearSlotEffect DEF TypeOK, sockets, traffic
<1>5. CASE ClearDouble
  BY <1>0, <1>5 DEF ClearDouble, TypeOK, sockets, traffic
<1>6. CASE Elsewhere \/ Read \/ LoadLeft \/ LoadRight \/ \E d \in Descriptors : DataEvent(d)
  BY <1>6 DEF Elsewhere, Read, LoadLeft, LoadRight, DataEvent, table, sockets, traffic
<1>. QED BY <1>1, <1>2, <1>3, <1>4, <1>5, <1>6, Steps

(***************************************************************************)
(* check_doubles against the network thread                                *)
(***************************************************************************)
\* Between the loads and the store of check_doubles the network thread stores,
\* clears and closes; the spare entry survives all of it, or is not needed.
LEMMA DoublesStay == IInv /\ [Next]_vars => DoubleIsSpare'
<1>. SUFFICES ASSUME IInv, [Next]_vars, Comparing', client_descriptors'[j'] \in open'
              PROVE  \/ \E s \in Slots \ {j'} : client_descriptors'[s] = client_descriptors'[j']
                     \/ owner'[client_descriptors'[j']] \in hit'
                     \/ (npc' = "clear" /\ done_fd' = client_descriptors'[j'])
  BY DEF DoubleIsSpare, Unregistering
<1>. TypeOK /\ DoubleIsSpare /\ AtHand /\ PairInOrder /\ RoomLeft
  BY DEF IInv
<1>0. /\ 0 \notin Descriptors /\ open' \subseteq Descriptors
      /\ \A d \in open : d # 0
  BY TypesStay DEF Descriptors, TypeOK
<1>1. CASE Accept
  <2>1. PICK infd \in Descriptors \ open :
           /\ client_count \in Slots /\ client_descriptors[client_count] = 0
           /\ owner' = [owner EXCEPT ![infd] = Head(backlog)]
           /\ open' = open \cup {infd}
           /\ client_descriptors' = [client_descriptors EXCEPT ![client_count] = infd]
           /\ hit \subseteq hit'
           /\ kpc \in {"load_right", "clear"} /\ j = client_count => Head(backlog) \in hit'
           /\ npc = "epoll_wait"
           /\ UNCHANGED computing
    BY <1>1, AcceptEffect
  <2>2. kpc \in {"load_right", "clear"} /\ UNCHANGED <<kpc, j, left>>
    BY <2>1 DEF Comparing, computing
  <2>3. CASE j = client_count
    BY <2>1, <2>2, <2>3 DEF TypeOK
  <2>4. CASE j # client_count
    <3>1. client_descriptors'[j] = client_descriptors[j] /\ Comparing
      BY <2>1, <2>2, <2>4 DEF TypeOK, Comparing
    <3>2. CASE client_descriptors[j] = infd
      <4>1. client_count \in Slots \ {j} /\ client_descriptors'[client_count] = infd
        BY <2>1, <2>4 DEF TypeOK
      <4>. QED BY <2>2, <3>1, <3>2, <4>1
    <3>3. CASE client_descriptors[j] # infd
      <4>1. client_descriptors[j] \in open /\ owner'[client_descriptors[j]] = owner[client_descriptors[j]]
        BY <2>1, <2>2, <3>1, <3>3 DEF TypeOK
      <4>2. CASE owner[client_descriptors[j]] \in hit
        BY <2>1, <2>2, <3>1, <4>1, <4>2
      <4>3. ASSUME NEW s \in Slots \ {j}, client_descriptors[s] = client_descriptors[j]
            PROVE  client_descriptors'[s] = client_descriptors'[j]
        BY <1>0, <2>1, <3>1, <4>1, <4>3 DEF TypeOK
      <4>. QED BY <2>1, <2>2, <3>1, <4>1, <4>2, <4>3 DEF DoubleIsSpare, Unregistering
    <3>. QED BY <3>2, <3>3
  <2>. QED BY <2>3, <2>4
<1>2. CASE ClearSlot
  <2>1. PICK s \in Slots :
           /\ client_descriptors[s] = done_fd
           /\ client_descriptors' = [client_descriptors EXCEPT ![s] = 0]
           /\ npc = "clear" /\ npc' = "clear"
           /\ UNCHANGED <<sockets, done_fd, computing, hit>>
    BY <1>2, ClearSlotEffect
  <2>2. client_descriptors[j] = client_descriptors'[j] /\ UNCHANGED <<j, kpc, left, open, owner>>
    BY <1>0, <2>1 DEF TypeOK, computing, sockets
  <2>3. Comparing /\ client_descriptors[j] \in open
    BY <2>2 DEF Comparing
  <2>4. CASE client_descriptors[j] = done_fd
    BY <2>1, <2>2, <2>4 DEF Unregistering
  <2>5. CASE client_descriptors[j] # done_fd
    <3>1. \A t \in Slots : client_descriptors[t] = client_descriptors[j]
                             => client_descriptors'[t] = client_descriptors[t]
      BY <2>1, <2>5 DEF TypeOK
    <3>. QED BY <2>1, <2>2, <2>3, <2>5, <3>1 DEF DoubleIsSpare, Unregistering
  <2>. QED BY <2>4, <2>5
<1>3. CASE Close
  <2>1. /\ npc = "clear" /\ open' = open \ {done_fd}
        /\ UNCHANGED <<client_descriptors, owner, hit, kpc, j, left>>
    BY <1>3 DEF Close, AtHand, NetworkStep, table, computing
  <2>2. Comparing /\ client_descriptors[j] \in open /\ client_descriptors[j] # done_fd
    BY <2>1 DEF Comparing
  <2>. QED BY <2>1, <2>2 DEF DoubleIsSpare, Unregistering
<1>4. CASE Read \/ \E d \in Descriptors : ErrorEvent(d) \/ DataEvent(d)
  <2>1. /\ open' \subseteq open /\ npc # "clear"
        /\ UNCHANGED <<client_descriptors, owner, hit, kpc, j, left>>
    BY <1>4 DEF Read, ErrorEvent, DataEvent, NetworkStep, table, sockets, computing
  <2>2. Comparing /\ client_descriptors[j] \in open
    BY <2>1 DEF Comparing
  <2>. QED BY <2>1, <2>2 DEF DoubleIsSpare, Unregistering
<1>5. CASE LoadLeft
  <2>1. /\ left' = client_descriptors[i] /\ UNCHANGED <<client_descriptors, i, j>>
        /\ kpc' = "load_right"
    BY <1>5 DEF LoadLeft, ComputingStep, table
  <2>2. client_descriptors[j] = client_descriptors[i]
    BY <2>1 DEF Comparing
  <2>3. i \in Slots \ {j}
    BY DEF TypeOK, PairInOrder, Slots
  <2>. QED BY <2>1, <2>2, <2>3
<1>6. CASE LoadRight
  <2>1. client_descriptors[j] = left /\ UNCHANGED j
    BY <1>6, NextPairInOrder DEF LoadRight, Comparing
  <2>2. Comparing
    BY <1>6, <2>1 DEF LoadRight, Comparing
  <2>. QED BY <1>6, <2>1, <2>2 DEF LoadRight, DoubleIsSpare, Unregistering, table, sockets, network
<1>7. CASE ClearDouble
  BY <1>7, NextPairInOrder DEF ClearDouble, Comparing
<1>8. CASE Elsewhere
  <2>1. UNCHANGED <<kpc, j, left>>
    BY <1>8 DEF Elsewhere, Comparing
  <2>. QED BY <1>8, <2>1 DEF Elsewhere, Comparing, DoubleIsSpare, Unregistering, table, network
<1>. QED BY <1>1, <1>2, <1>3, <1>4, <1>5, <1>6, <1>7, <1>8, Steps

\* Who is connected stays in the table, but for the exceptions the property names.
LEMMA NobodyForgotten == IInv /\ [Next]_vars => ForgottenOnlyIfHit'
<1>. SUFFICES ASSUME IInv, [Next]_vars, NEW d \in open'
              PROVE  \/ SlotsOf(d)' # {} \/ owner'[d] \in hit'
                     \/ (npc' \in {"clear", "close"} /\ done_fd' = d)
  BY DEF ForgottenOnlyIfHit
<1>. TypeOK /\ DoubleIsSpare /\ AtHand /\ PairInOrder /\ RoomLeft /\ ForgottenOnlyIfHit
  BY DEF IInv
<1>0. d \in Descriptors /\ d # 0
  BY TypesStay DEF Descriptors, TypeOK
<1>1. CASE Accept
  <2>1. PICK infd \in Descriptors \ open :
           /\ client_count \in Slots /\ client_descriptors[client_count] = 0
           /\ owner' = [owner EXCEPT ![infd] = Head(backlog)]
           /\ open' = open \cup {infd}
           /\ client_descriptors' = [client_descriptors EXCEPT ![client_count] = infd]
           /\ hit \subseteq hit'
           /\ npc = "epoll_wait"
    BY <1>1, AcceptEffect
  <2>2. CASE d = infd
    BY <2>1, <2>2 DEF SlotsOf, TypeOK
  <2>3. CASE d # infd
    <3>1. d \in open /\ owner'[d] = owner[d]
      BY <2>1, <2>3 DEF TypeOK
    <3>2. SlotsOf(d) \subseteq SlotsOf(d)'
      BY <1>0, <2>1 DEF SlotsOf, TypeOK
    <3>. QED BY <2>1, <3>1, <3>2 DEF ForgottenOnlyIfHit
  <2>. QED BY <2>2, <2>3
<1>2. CASE ClearSlot
  <2>1. PICK s \in Slots :
           /\ client_descriptors[s] = done_fd
           /\ client_descriptors' = [client_descriptors EXCEPT ![s] = 0]
           /\ npc = "clear" /\ npc' = "clear"
           /\ UNCHANGED <<sockets, done_fd, hit>>
    BY <1>2, ClearSlotEffect
  <2>2. CASE d # done_fd
    <3>1. SlotsOf(d) \subseteq SlotsOf(d)'
      BY <2>1, <2>2 DEF SlotsOf, TypeOK
    <3>. QED BY <2>1, <2>2, <3>1 DEF ForgottenOnlyIfHit, sockets
  <2>. QED BY <2>1, <2>2
<1>3. CASE Close
  BY <1>3 DEF Close, ForgottenOnlyIfHit, SlotsOf, table
<1>4. CASE Read \/ \E e \in Descriptors : ErrorEvent(e) \/ DataEvent(e)
  <2>1. /\ open' \subseteq open /\ npc \notin {"clear", "close"}
        /\ UNCHANGED <<client_descriptors, owner, hit>>
    BY <1>4 DEF Read, ErrorEvent, DataEvent, NetworkStep, table, sockets
  <2>. QED BY <2>1 DEF ForgottenOnlyIfHit, SlotsOf
<1>5. CASE ClearDouble
  <2>1. /\ client_descriptors' = [client_descriptors EXCEPT ![j] = 0]
        /\ Comparing /\ UNCHANGED <<owner, open, npc, done_fd, hit>>
    BY <1>5 DEF ClearDouble, Comparing, sockets, network
  <2>2. CASE client_descriptors[j] = d
    <3>1. ASSUME NEW s \in Slots \ {j}, client_descriptors[s] = d
          PROVE  s \in SlotsOf(d)'
      BY <2>1, <3>1 DEF SlotsOf, TypeOK
    <3>. QED BY <2>1, <2>2, <3>1 DEF DoubleIsSpare, Unregistering
  <2>3. CASE client_descriptors[j] # d
    <3>1. SlotsOf(d) \subseteq SlotsOf(d)'
      BY <2>1, <2>3 DEF SlotsOf, TypeOK
    <3>. QED BY <2>1, <3>1 DEF ForgottenOnlyIfHit
  <2>. QED BY <2>2, <2>3
<1>6. CASE Elsewhere \/ LoadLeft \/ LoadRight
  <2>1. UNCHANGED <<client_descriptors, owner, open, npc, done_fd, hit>>
    BY <1>6 DEF Elsewhere, LoadLeft, LoadRight, table, network, sockets
  <2>. QED BY <2>1 DEF ForgottenOnlyIfHit, SlotsOf
<1>. QED BY <1>1, <1>2, <1>3, <1>4, <1>5, <1>6, Steps

(***************************************************************************)
(* The theorems                                                            *)
(***************************************************************************)
\* The invariant behind the others: the two threads' steps, in any order, keep
\* every open descriptor in the table or accounted for (server.c:282-396, 476).
THEOREM InductiveInvariant == Spec => []IInv
<1>1. IInv /\ [Next]_vars => IInv'
  BY TypesStay, PairStaysInOrder, HandsStay, OwnersStay, RoomStays, StaleStays, DoublesStay,
     NobodyForgotten DEF IInv
<1>. QED BY InitHolds, <1>1, PTL DEF Spec

\* With no more clients than slots the table never overflows (server.c:282).
THEOREM TypeCorrect == Spec => []TypeOK
<1>1. IInv => TypeOK
  BY DEF IInv
<1>. QED BY InductiveInvariant, <1>1, PTL

\* check_doubles forgets a connected client only if accept stored it in the
\* very slot that was being compared (server.c:282, 485-487).
THEOREM ForgottenOnlyByTheRace == Spec => []ForgottenOnlyIfHit
<1>1. IInv => ForgottenOnlyIfHit
  BY DEF IInv
<1>. QED BY InductiveInvariant, <1>1, PTL

\* A client that ends with nothing unread leaves no entry behind: only a reset,
\* handled by close() alone, does (server.c:237, 378-384).
THEOREM StaleOnlyByReset == Spec => []StaleOnlyAfterReset
<1>1. IInv => StaleOnlyAfterReset
  BY DEF IInv
<1>. QED BY InductiveInvariant, <1>1, PTL
==============================================================================
