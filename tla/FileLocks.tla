----------------------------- MODULE FileLocks -----------------------------
(* The menu over fcntl() record locks (cw02/zad3, locks.c): several users, each
   a process with the same file open, lock, unlock, read and write single
   characters of it. The kernel's table of locks is external. *)
CONSTANTS Users,   \* processes of locks.c
          Chars    \* positions in the file

VARIABLES lock,    \* lock[c][u]: u's lock on character c, in the kernel
          pc,      \* where the user's program is
          index,   \* the position typed last
          l_type,  \* what F_GETLK left in the structure: the type found
          since    \* history: the locks others got on index since it was looked at

vars == <<lock, pc, index, l_type, since>>
Held == {"F_RDLCK", "F_WRLCK"}
Types == Held \cup {"F_UNLCK"}
Claims == [user : Users, type : Held]

TypeOK ==
    /\ lock \in [Chars -> [Users -> Types]]
    /\ pc \in [Users -> {"menu", "getchar", "done"} \cup Held]
    /\ index \in [Users -> Chars]
    /\ l_type \in [Users -> Types]
    /\ since \in [Users -> SUBSET Claims]

Init ==
    /\ lock = [c \in Chars |-> [u \in Users |-> "F_UNLCK"]]
    /\ pc = [u \in Users |-> "menu"]
    /\ index \in [Users -> Chars]
    /\ l_type = [u \in Users |-> "F_UNLCK"]
    /\ since = [u \in Users |-> {}]

(* F_GETLK with F_WRLCK: one lock of another user in the way, if there is any. *)
Found(u, c) ==
    {lock[c][v] : v \in Users \ {u}} \cap Held
GetLock(u, c, type) ==
    IF Found(u, c) = {} THEN type = "F_UNLCK" ELSE type \in Found(u, c)

(* F_SETLK. A user's own lock on the character is replaced. *)
Conflict(u, c, type) ==
    \E v \in Users \ {u} : "F_WRLCK" \in {type, lock[c][v]} /\ lock[c][v] # "F_UNLCK"
Noticed(u, c, type) ==
    [v \in Users |-> IF v # u /\ index[v] = c
                     THEN since[v] \cup {[user |-> u, type |-> type]} ELSE since[v]]
-----------------------------------------------------------------------------
(* Options 1 and 2: the check is for a write lock in both, and any lock found
   refuses the new one. *)
CheckToLock(u, c, type) ==
    /\ pc[u] = "menu"
    /\ index' = [index EXCEPT ![u] = c]
    /\ since' = [since EXCEPT ![u] = {}]
    /\ IF Found(u, c) = {} THEN pc' = [pc EXCEPT ![u] = type] ELSE UNCHANGED pc
    /\ UNCHANGED <<lock, l_type>>

(* Mutant: a new lock is set even where another user's is in the way. *)
SetLockAnyway(u) ==
    /\ pc[u] \in Held
    /\ lock' = [lock EXCEPT ![index[u]][u] = pc[u]]
    /\ since' = Noticed(u, index[u], pc[u])
    /\ pc' = [pc EXCEPT ![u] = "menu"]
    /\ UNCHANGED <<index, l_type>>

SetLock(u) ==
    /\ pc[u] \in Held
    /\ IF Conflict(u, index[u], pc[u])
          THEN UNCHANGED <<lock, since>>
          ELSE /\ lock' = [lock EXCEPT ![index[u]][u] = pc[u]]
               /\ since' = Noticed(u, index[u], pc[u])
    /\ pc' = [pc EXCEPT ![u] = "menu"]
    /\ UNCHANGED <<index, l_type>>

(* Option 4, which never fails. *)
Unlock(u, c) ==
    /\ pc[u] = "menu"
    /\ lock' = [lock EXCEPT ![c][u] = "F_UNLCK"]
    /\ index' = [index EXCEPT ![u] = c]
    /\ since' = [since EXCEPT ![u] = {}]
    /\ UNCHANGED <<pc, l_type>>

(* Options 3, 5 and 6: the look is stored. 3 goes through the file; 5 reads at
   once unless it found a read lock; 6 asks for the character first. *)
LookAt(u, c, option) ==
    /\ pc[u] = "menu"
    /\ \E type \in Types : GetLock(u, c, type) /\ l_type' = [l_type EXCEPT ![u] = type]
    /\ IF option = 3 THEN UNCHANGED index ELSE index' = [index EXCEPT ![u] = c]
    /\ IF option = 3 THEN UNCHANGED since ELSE since' = [since EXCEPT ![u] = {}]
    /\ pc' = [pc EXCEPT ![u] = IF option = 6 THEN "getchar" ELSE @]
    /\ UNCHANGED lock

(* The character is written unless a write lock was found, when it was looked at. *)
Writes(u) == pc[u] = "getchar" /\ l_type[u] # "F_WRLCK"
Write(u) ==
    /\ pc[u] = "getchar"
    /\ pc' = [pc EXCEPT ![u] = "menu"]
    /\ UNCHANGED <<lock, index, l_type, since>>

(* Option 0: the kernel drops the locks with the descriptor. *)
Exit(u) ==
    /\ pc[u] = "menu"
    /\ pc' = [pc EXCEPT ![u] = "done"]
    /\ lock' = [c \in Chars |-> [lock[c] EXCEPT ![u] = "F_UNLCK"]]
    /\ UNCHANGED <<index, l_type, since>>

Next ==
    \E u \in Users :
        \/ SetLock(u) \/ Write(u) \/ Exit(u)
        \/ \E c \in Chars :
              \/ \E type \in Held : CheckToLock(u, c, type)
              \/ Unlock(u, c)
              \/ \E option \in {3, 5, 6} : LookAt(u, c, option)

Spec == Init /\ [][Next]_vars
-----------------------------------------------------------------------------
(* A locked character is another user's only through a race: a write lock is
   its holder's alone; two users share a character for reading, and somebody
   writes under another's lock of the kind he looks for, only if the second
   came between the look of the first and what the first did then
   (locks.c:68-77, 213-219). *)
Exclusive ==
    \A c \in Chars, u, v \in Users :
        u # v /\ lock[c][u] = "F_WRLCK" => lock[c][v] = "F_UNLCK"

OthersOn(u) == {v \in Users \ {u} : lock[index[u]][v] # "F_UNLCK"}
OnlyRacesShare ==
    \A u \in Users :
        /\ pc[u] \in Held => \A v \in OthersOn(u) : \E claim \in since[u] : claim.user = v
        /\ Writes(u) => \A v \in OthersOn(u) :
              lock[index[u]][v] = "F_WRLCK" => [user |-> v, type |-> "F_WRLCK"] \in since[u]

LocksHold == Exclusive /\ OnlyRacesShare
=============================================================================
