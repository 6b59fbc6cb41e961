--------------------------- MODULE SleepingBarber ----------------------------
(***************************************************************************)
(* The shop as cw07/tresc.txt describes it.  A client who finds the barber *)
(* asleep wakes him and sits down in the barber's chair; one who finds him *)
(* awake takes a place in the waiting room, or leaves if there is none.    *)
(* The barber cuts the client in his chair, then invites the one who has   *)
(* waited longest, and sleeps only when nobody waits.                      *)
(***************************************************************************)
EXTENDS Integers, Sequences

CONSTANTS Clients, NoPid, MaxChairs

VARIABLES
  waiting, \* the waiting room, longest waiting first
  inChair, \* the client in the barber's chair, or NoPid
  asleep,  \* the barber sleeps
  cuts     \* the number of haircuts each client has been given

shop == <<waiting, inChair, asleep, cuts>>

Present(c) == inChair = c \/ \E i \in 1 .. Len(waiting) : waiting[i] = c

Init ==
  /\ waiting = << >>
  /\ inChair = NoPid
  /\ asleep = TRUE
  /\ cuts = [c \in Clients |-> 0]

WakeBarber(c) ==
  /\ asleep
  /\ asleep' = FALSE
  /\ inChair' = c
  /\ UNCHANGED <<waiting, cuts>>

TakePlace(c) ==
  /\ ~asleep
  /\ ~Present(c)
  /\ Len(waiting) < MaxChairs
  /\ waiting' = Append(waiting, c)
  /\ UNCHANGED <<inChair, asleep, cuts>>

FinishCut ==
  /\ inChair # NoPid
  /\ cuts' = [cuts EXCEPT ![inChair] = @ + 1]
  /\ inChair' = NoPid
  /\ UNCHANGED <<waiting, asleep>>

InviteNext ==
  /\ ~asleep
  /\ inChair = NoPid
  /\ waiting # << >>
  /\ inChair' = Head(waiting)
  /\ waiting' = Tail(waiting)
  /\ UNCHANGED <<asleep, cuts>>

FallAsleep ==
  /\ ~asleep
  /\ inChair = NoPid
  /\ waiting = << >>
  /\ asleep' = TRUE
  /\ UNCHANGED <<waiting, inChair, cuts>>

Next ==
  \/ \E c \in Clients : WakeBarber(c) \/ TakePlace(c)
  \/ FinishCut
  \/ InviteNext
  \/ FallAsleep

Spec == Init /\ [][Next]_shop
==============================================================================
