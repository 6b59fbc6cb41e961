--------------------------- MODULE ReadersWriters ----------------------------
(***************************************************************************)
(* What both programs of cw09 promise about the shared array (tresc.txt):  *)
(* any number of readers may read it at once, a writer has it to itself.   *)
(***************************************************************************)
CONSTANTS Readers, Writers

VARIABLES
  reading, \* the readers scanning the array
  writing  \* the writers changing it

Init == reading = {} /\ writing = {}

StartRead(r) ==
  /\ r \notin reading
  /\ writing = {}
  /\ reading' = reading \cup {r}
  /\ UNCHANGED writing

EndRead(r) ==
  /\ r \in reading
  /\ reading' = reading \ {r}
  /\ UNCHANGED writing

StartWrite(w) ==
  /\ reading = {}
  /\ writing = {}
  /\ writing' = {w}
  /\ UNCHANGED reading

EndWrite(w) ==
  /\ writing = {w}
  /\ writing' = {}
  /\ UNCHANGED reading

Next ==
  \/ \E r \in Readers : StartRead(r) \/ EndRead(r)
  \/ \E w \in Writers : StartWrite(w) \/ EndWrite(w)

Spec == Init /\ [][Next]_<<reading, writing>>
==============================================================================
