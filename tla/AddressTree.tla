---------------------------- MODULE AddressTree ----------------------------
(* The address book as a search tree (cw01, list.c). A tree is <<>> or
   <<contact, left, right>>; the nodes are the library's own copies. *)
EXTENDS Naturals, Sequences, FiniteSets

CONSTANTS Contacts,    \* who may be added
          SurnameOf,   \* SurnameOf[c], as a number
          NameOf       \* NameOf[c], as a number

(* What the constants have to be. *)
TreeAssumption == SurnameOf \in [Contacts -> Nat] /\ NameOf \in [Contacts -> Nat]

VARIABLES root,      \* *tree
          sortedBy   \* the field the root was placed by, or "crashed", or "none": no tree

vars == <<root, sortedBy>>

Empty == <<>>
Node(contact, left, right) == <<contact, left, right>>
Contact(t) == t[1]
Left(t) == t[2]
Right(t) == t[3]

(* The contacts of a tree, in order. *)
RECURSIVE Inorder(_)
Inorder(t) ==
    IF t = Empty THEN <<>> ELSE Inorder(Left(t)) \o <<Contact(t)>> \o Inorder(Right(t))
Members(t) == {Inorder(t)[i] : i \in DOMAIN Inorder(t)}

TypeOK == Members(root) \subseteq Contacts /\ sortedBy \in {"none", "surname", "name", "crashed"}

Init == root = Empty /\ sortedBy = "none"
-----------------------------------------------------------------------------
RECURSIVE Inserted(_, _)
Inserted(t, c) ==
    IF t = Empty THEN Node(c, Empty, Empty)
    ELSE IF SurnameOf[Contact(t)] > SurnameOf[c]
         THEN Node(Contact(t), Inserted(Left(t), c), Right(t))
         ELSE Node(Contact(t), Left(t), Inserted(Right(t), c))

(* Names are compared at the root only: below it the call is the one above. *)
InsertedByName(t, c) ==
    IF t = Empty THEN Node(c, Empty, Empty)
    ELSE IF NameOf[Contact(t)] > NameOf[c]
         THEN Node(Contact(t), Inserted(Left(t), c), Right(t))
         ELSE Node(Contact(t), Left(t), Inserted(Right(t), c))

RECURSIVE minValueNode(_)
minValueNode(t) == IF Left(t) = Empty THEN t ELSE minValueNode(Left(t))

(* Mutant: the successor is unlinked together with its right subtree. *)
RECURSIVE WithoutFirst(_)
WithoutFirst(t) == IF Left(t) = Empty THEN Empty ELSE Node(Contact(t), WithoutFirst(Left(t)), Right(t))
RECURSIVE DeletedCuttingSuccessor(_, _)
DeletedCuttingSuccessor(t, surname) ==
    IF t = Empty THEN Empty
    ELSE IF SurnameOf[Contact(t)] > surname
         THEN Node(Contact(t), DeletedCuttingSuccessor(Left(t), surname), Right(t))
    ELSE IF SurnameOf[Contact(t)] < surname
         THEN Node(Contact(t), Left(t), DeletedCuttingSuccessor(Right(t), surname))
    ELSE IF Left(t) = Empty THEN Right(t)
    ELSE IF Right(t) = Empty THEN Left(t)
    ELSE Node(Contact(minValueNode(Right(t))), Left(t), WithoutFirst(Right(t)))

(* Mutant: the right child moves up, and not the first of its subtree. *)
RECURSIVE DeletedRaisingChild(_, _)
DeletedRaisingChild(t, surname) ==
    IF t = Empty THEN Empty
    ELSE IF SurnameOf[Contact(t)] > surname
         THEN Node(Contact(t), DeletedRaisingChild(Left(t), surname), Right(t))
    ELSE IF SurnameOf[Contact(t)] < surname
         THEN Node(Contact(t), Left(t), DeletedRaisingChild(Right(t), surname))
    ELSE IF Left(t) = Empty THEN Right(t)
    ELSE IF Right(t) = Empty THEN Left(t)
    ELSE LET child == Contact(Right(t))
         IN  Node(child, Left(t), DeletedRaisingChild(Right(t), SurnameOf[child]))

(* The first node with the surname goes. With two children its successor's
   content moves up and the successor is deleted, by its surname too. *)
RECURSIVE Deleted(_, _)
Deleted(t, surname) ==
    IF t = Empty THEN Empty
    ELSE IF SurnameOf[Contact(t)] > surname
         THEN Node(Contact(t), Deleted(Left(t), surname), Right(t))
    ELSE IF SurnameOf[Contact(t)] < surname
         THEN Node(Contact(t), Left(t), Deleted(Right(t), surname))
    ELSE IF Left(t) = Empty THEN Right(t)
    ELSE IF Right(t) = Empty THEN Left(t)
    ELSE LET successor == Contact(minValueNode(Right(t)))
         IN  Node(successor, Left(t), Deleted(Right(t), SurnameOf[successor]))

RECURSIVE SearchFinds(_, _)
SearchFinds(t, surname) ==
    /\ t # Empty
    /\ \/ SurnameOf[Contact(t)] = surname
       \/ SurnameOf[Contact(t)] < surname /\ SearchFinds(Right(t), surname)
       \/ SurnameOf[Contact(t)] > surname /\ SearchFinds(Left(t), surname)

(* The root is copied into the new tree and deleted, until none is left. *)
RECURSIVE MovedByName(_, _)
MovedByName(from, to) ==
    IF from = Empty THEN to
    ELSE MovedByName(Deleted(from, SurnameOf[Contact(from)]), InsertedByName(to, Contact(from)))
-----------------------------------------------------------------------------
(* create_tree does not clear what malloc returns: the first insertion finds
   a null pointer there, or follows whatever the chunk held before. *)
create_tree ==
    /\ sortedBy = "none"
    /\ sortedBy' \in {"surname", "crashed"}
    /\ UNCHANGED root

insert_to_tree(c) ==
    /\ sortedBy \in {"surname", "name"}
    /\ c \notin Members(root)
    /\ root' = Inserted(root, c)
    /\ UNCHANGED sortedBy

(* The key is a contact the caller has, in the tree or not. *)
deleteNode(key) ==
    /\ sortedBy \in {"surname", "name"}
    /\ root' = Deleted(root, SurnameOf[key])
    /\ UNCHANGED sortedBy

(* It makes a tree of its own, with the same unset root. *)
sort_tree_by_name ==
    /\ sortedBy \in {"surname", "name"}
    /\ \/ root' = MovedByName(root, Empty) /\ sortedBy' = "name"
       \/ root # Empty /\ sortedBy' = "crashed" /\ UNCHANGED root

(* Only the pointer to the root is freed. *)
remove_tree ==
    /\ sortedBy \in {"surname", "name"}
    /\ root' = Empty
    /\ sortedBy' = "none"

Next ==
    \/ create_tree \/ sort_tree_by_name \/ remove_tree
    \/ \E c \in Contacts : insert_to_tree(c) \/ deleteNode(c)

Spec == Init /\ [][Next]_vars
-----------------------------------------------------------------------------
(* Nobody is lost or doubled, whatever the shape the tree was left in by
   earlier sorts: an insertion adds its contact, a deletion takes away one of
   the key's surname at the most, and a sort takes everybody along (list.c:389,
   453, 544). *)
TreeLosesNobody ==
    [][ /\ Len(Inorder(root')) = Cardinality(Members(root'))
        /\ \A c \in Contacts :
              /\ insert_to_tree(c) => Members(root') = Members(root) \cup {c}
              /\ deleteNode(c) =>
                    \/ root' = root
                    \/ \E gone \in Members(root) :
                          /\ SurnameOf[gone] = SurnameOf[c]
                          /\ Members(root') = Members(root) \ {gone}
        /\ sort_tree_by_name => Members(root') = Members(root) ]_vars

(* Until a sort by name the tree is in order of surnames, and so search finds
   every surname there is, whatever was deleted (list.c:487-496, 522). *)
EverybodyFound ==
    sortedBy = "surname" =>
        /\ \A i, j \in DOMAIN Inorder(root) :
              i < j => SurnameOf[Inorder(root)[i]] <= SurnameOf[Inorder(root)[j]]
        /\ \A c \in Members(root) : SearchFinds(root, SurnameOf[c])
=============================================================================
