---------------------------- MODULE AddressList ----------------------------
(* The address book as a doubly linked list (cw01, list.c): the list's nodes
   are chunks of a heap, linked by next and prev. *)
EXTENDS Naturals, Sequences, FiniteSets

CONSTANTS Nodes,       \* list nodes
          NameOf,      \* NameOf[n]: the name in node n, as a number
          Null

(* What the constants have to be. *)
ListAssumption == NameOf \in [Nodes -> Nat] /\ Null \notin Nodes

VARIABLES head,       \* list->head
          next, prev, \* the links of every node
          allocated,  \* the nodes that were made and not freed
          listed,     \* the nodes added and not deleted
          order       \* "added", "sorted", "mixed" (added to since), "stale" (deleted
                      \* from after a sort), or "removed": the whole list is freed

vars == <<head, next, prev, allocated, listed, order>>
Links == [Nodes -> Nodes \cup {Null}]

TypeOK ==
    /\ head \in Nodes \cup {Null}
    /\ next \in Links /\ prev \in Links
    /\ allocated \subseteq Nodes /\ listed \subseteq Nodes
    /\ order \in {"added", "sorted", "mixed", "stale", "removed"}

Init ==
    /\ head = Null
    /\ next = [n \in Nodes |-> Null] /\ prev = [n \in Nodes |-> Null]
    /\ allocated = {} /\ listed = {}
    /\ order = "added"

(* The nodes met on the way along nx from a node; no longer than Nodes are
   many, so that a ring does not matter. *)
RECURSIVE Walk(_, _, _)
Walk(nx, n, steps) ==
    IF n = Null \/ steps = 0 THEN <<>> ELSE <<n>> \o Walk(nx, nx[n], steps - 1)
Chain(nx, h) == Walk(nx, h, Cardinality(Nodes) + 1)
Members(nx, h) == {Chain(nx, h)[i] : i \in DOMAIN Chain(nx, h)}

(* Every operation walks along next. On a freed node, or in a ring, what it
   does next is not the program's any more: the model stops there. *)
Intact ==
    /\ order # "removed"
    /\ Members(next, head) \subseteq allocated
    /\ Len(Chain(next, head)) <= Cardinality(Nodes)
-----------------------------------------------------------------------------
create_node(n) ==
    /\ n \notin allocated
    /\ allocated' = allocated \cup {n}
    /\ next' = [next EXCEPT ![n] = Null]
    /\ prev' = [prev EXCEPT ![n] = Null]
    /\ UNCHANGED <<head, listed, order>>

(* The callers add a node once. *)
add_element_to_list(n) ==
    /\ n \in allocated \ listed
    /\ listed' = listed \cup {n}
    /\ LET last == Chain(next, head)[Len(Chain(next, head))]
       IN  IF head = Null
              THEN head' = n /\ next' = [next EXCEPT ![n] = Null] /\ prev' = [prev EXCEPT ![n] = Null]
              ELSE /\ head' = head
                   /\ next' = [next EXCEPT ![last] = n, ![n] = Null]
                   /\ prev' = [prev EXCEPT ![n] = last]
    /\ order' = IF order = "sorted" THEN "mixed" ELSE order
    /\ UNCHANGED allocated

(* Mutant: the new neighbour keeps its link to the deleted node. *)
DeleteForwardOnly(n) ==
    /\ n \in allocated
    /\ listed' = listed \ {n}
    /\ IF n \notin Members(next, head)
          THEN UNCHANGED <<head, next, prev, allocated>>
          ELSE /\ allocated' = allocated \ {n}
               /\ IF prev[n] = Null
                     THEN head' = next[n] /\ UNCHANGED <<next, prev>>
                     ELSE /\ next' = [next EXCEPT ![prev[n]] = next[n]]
                          /\ UNCHANGED <<head, prev>>
    /\ order' = IF order = "added" THEN order ELSE "stale"

(* The node is looked for along next, unlinked by its prev, and freed. *)
delete_element_from_list(n) ==
    /\ n \in allocated
    /\ listed' = listed \ {n}
    /\ IF n \notin Members(next, head)
          THEN UNCHANGED <<head, next, prev, allocated>>
          ELSE /\ allocated' = allocated \ {n}
               /\ IF prev[n] = Null
                     THEN /\ head' = next[n]
                          /\ prev' = IF next[n] = Null THEN prev ELSE [prev EXCEPT ![next[n]] = Null]
                          /\ UNCHANGED next
                     ELSE /\ next' = [next EXCEPT ![prev[n]] = next[n]]
                          /\ prev' = IF next[n] = Null THEN prev ELSE [prev EXCEPT ![next[n]] = prev[n]]
                          /\ UNCHANGED head
    /\ order' = IF order = "added" THEN order ELSE "stale"

(* sortListByName: the first of the smallest nodes, and the one before it. *)
SmallestIn(chain) ==
    CHOOSE i \in DOMAIN chain :
        \A j \in DOMAIN chain :
            /\ NameOf[chain[i]] <= NameOf[chain[j]]
            /\ j < i => NameOf[chain[i]] < NameOf[chain[j]]

(* It changes places with the first node, by next alone; the rest follows. *)
ExchangeFirst(nx, node, smallest, smallestPrev) ==
    LET linked == [nx EXCEPT ![smallestPrev] = node]
    IN  [linked EXCEPT ![node] = linked[smallest], ![smallest] = linked[node]]

RECURSIVE SortedFrom(_, _)
SortedFrom(nx, node) ==
    IF node = Null \/ nx[node] = Null THEN [first |-> node, next |-> nx]
    ELSE LET chain == Chain(nx, node)
             i == SmallestIn(chain)
             smallest == chain[i]
             exchanged == IF i = 1 THEN nx ELSE ExchangeFirst(nx, node, smallest, chain[i - 1])
             rest == SortedFrom(exchanged, exchanged[smallest])
         IN  [first |-> smallest, next |-> [rest.next EXCEPT ![smallest] = rest.first]]

List_sort ==
    /\ LET result == SortedFrom(next, head)
       IN  head' = result.first /\ next' = result.next
    /\ order' = IF order = "stale" THEN order ELSE "sorted"
    /\ UNCHANGED <<prev, allocated, listed>>

(* The nodes are freed; list->head still points at the first one. *)
remove_list ==
    /\ allocated' = allocated \ Members(next, head)
    /\ order' = IF order = "stale" THEN order ELSE "removed"
    /\ UNCHANGED <<head, next, prev, listed>>

Next ==
    /\ Intact
    /\ \/ \E n \in Nodes :
             create_node(n) \/ add_element_to_list(n) \/ delete_element_from_list(n)
       \/ List_sort \/ remove_list

Spec == Init /\ [][Next]_vars
-----------------------------------------------------------------------------
(* As long as nothing was deleted after a sort, the list holds exactly the
   nodes that were added and not deleted, each once; until the first sort each
   node's prev is the one before it; a sort leaves the names in order; and the
   end of the list frees them all: tresc.txt asks for no lost contact and no
   leak. After a sort prev is stale (list.c:214-219). *)
NobodyLost ==
    LET chain == Chain(next, head)
    IN  /\ order \in {"added", "sorted", "mixed"} =>
              Members(next, head) = listed /\ Len(chain) = Cardinality(listed)
        /\ order = "added" =>
              \A i \in DOMAIN chain : prev[chain[i]] = IF i = 1 THEN Null ELSE chain[i - 1]
        /\ order = "sorted" =>
              \A i, j \in DOMAIN chain : i < j => NameOf[chain[i]] <= NameOf[chain[j]]
        /\ order = "removed" => listed \cap allocated = {}
=============================================================================
