----------------------------- MODULE WaitingRoom -----------------------------
(***************************************************************************)
(* What the waiting room promises (cw07/tresc.txt asks for a FIFO queue in *)
(* shared memory): a line of at most MaxChairs pids, served in the order   *)
(* they came; a push into a full room and a pop from an empty one answer   *)
(* -1 and change nothing.                                                  *)
(***************************************************************************)
EXTENDS Integers, Sequences

CONSTANTS Clients, NoPid, MaxChairs

VARIABLES
  line,   \* the pids waiting, first to be served first
  answer  \* what the last call returned

Init == line = << >> /\ answer = NoPid

Enter(c) ==
  /\ Len(line) < MaxChairs
  /\ line' = Append(line, c)
  /\ answer' = 0

TurnedAway ==
  /\ Len(line) = MaxChairs
  /\ answer' = -1
  /\ UNCHANGED line

Call ==
  /\ line # << >>
  /\ answer' = Head(line)
  /\ line' = Tail(line)

NobodyWaits ==
  /\ line = << >>
  /\ answer' = NoPid
  /\ UNCHANGED line

Next ==
  \/ \E c \in Clients : Enter(c)
  \/ TurnedAway
  \/ Call
  \/ NobodyWaits

Spec == Init /\ [][Next]_<<line, answer>>
==============================================================================
