---------------------------- MODULE MCLibraries ----------------------------
(* One run for the parts without a schedule of their own, under every sequence
   of calls: the ring buffer of the barber shop (cw07), the address book as a
   list and as a tree (cw01), the sorting of records (cw02/zad1), and the file
   locks of several users (cw02/zad3), whose names have no prefix here.
   LibrariesInit chooses one; the others stay in an initial state. *)
EXTENDS LibraryParts

CONSTANTS Nodes, Contacts, Null

VARIABLES program,
          head, next, prev, allocated, listed, order,
          root, sortedBy

(* Names and surnames, some of them the same; nodes and contacts are numbers. *)
Names(people) == [p \in people |-> (3 * p) % 4]
Surnames(people) == [p \in people |-> p \div 2]

List == INSTANCE AddressList WITH NameOf <- Names(Nodes)
Tree == INSTANCE AddressTree WITH NameOf <- Names(Contacts), SurnameOf <- Surnames(Contacts)

ASSUME ConstantsAssumption == List!ListAssumption /\ Tree!TreeAssumption

listVars == <<head, next, prev, allocated, listed, order>>
treeVars == <<root, sortedBy>>
locksVars == vars
libraryVars == <<program, listVars, treeVars, sortVars, locksVars, queueVars>>

(* A program that does not run has one initial state. *)
LibrariesInit ==
    /\ program \in {"list", "tree", "sort", "locks", "queue"}
    /\ List!Init /\ Tree!Init /\ Sort!Init /\ Init /\ QueueInit
    /\ program = "locks" \/ index = CHOOSE first \in [Users -> Chars] : TRUE
LibrariesNext ==
    \/ program = "list" /\ List!Next /\ UNCHANGED <<program, treeVars, sortVars, locksVars, queueVars>>
    \/ program = "tree" /\ Tree!Next /\ UNCHANGED <<program, listVars, sortVars, locksVars, queueVars>>
    \/ program = "sort" /\ Sort!Next /\ UNCHANGED <<program, listVars, treeVars, locksVars, queueVars>>
    \/ program = "locks" /\ Next /\ UNCHANGED <<program, listVars, treeVars, sortVars, queueVars>>
    \/ program = "queue" /\ QueueNext /\ UNCHANGED <<program, listVars, treeVars, sortVars, locksVars>>

LibrariesSpec == LibrariesInit /\ [][LibrariesNext]_libraryVars
-----------------------------------------------------------------------------
(* The list loses, doubles and leaks no node until one is deleted after a sort
   (cw01/zad4/list.c:53, 87, 193, 33). *)
NobodyLost == List!NobodyLost

(* An insertion, a deletion or a sort by name takes no contact out of the tree
   but one with the deleted surname (list.c:389, 453, 544). *)
TreeLosesNobody == Tree!TreeLosesNobody

(* Until a sort by name, search finds every surname in the tree, whatever was
   inserted and deleted before (list.c:522). *)
EverybodyFound == Tree!EverybodyFound
=============================================================================
