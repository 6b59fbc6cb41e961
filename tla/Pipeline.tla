----------------------------- MODULE Pipeline -----------------------------
(* The interpreter of pipelines (cw05/zad1, pipes.c): which ends of which pipes
   the interpreter and the programs of a line hold. The interpreter opens and
   closes the two ends of a pipe together, so a pair of its descriptors is one
   slot; slots are used again, pipes are not. *)
EXTENDS Naturals, Sequences, FiniteSets, FiniteSetsExt

CONSTANTS MaxPrograms, MaxLines   \* bounds of the model

(* What the constants have to be. *)
PipelineAssumption == MaxPrograms \in Nat \ {0} /\ MaxLines \in Nat \ {0}

VARIABLES pc,        \* "getline", "programs" or "waitpid"
          programs,  \* TRUE where a segment of the line has a program, FALSE where it is blank
          i, has_args,
          write_pipe, read_pipe,  \* slots; they keep the numbers of closed pipes
          slot,      \* slot[s]: the interpreter's pipe there
          made,      \* pipes made so far
          before,    \* and before this line
          child,     \* child[k]: the k-th program's stdin, stdout and other pipes
          lines      \* lines read

vars == <<pc, programs, i, has_args, write_pipe, read_pipe, slot, made, before, child, lines>>

Slots == 1 .. MaxLines + 2
Unset == 0     \* what the two arrays hold at first: no descriptor
NoPipe == 0
Terminal == 0
Failed == [stdin |-> Terminal, stdout |-> Terminal, holds |-> {}]
number_of_programs == Len(programs)

TypeOK ==
    /\ pc \in {"getline", "programs", "waitpid"}
    /\ programs \in Seq(BOOLEAN) /\ i \in Nat /\ has_args \in BOOLEAN
    /\ {write_pipe, read_pipe} \subseteq Slots \cup {Unset}
    /\ slot \in [Slots -> Nat] /\ made \in Nat /\ before \in 0 .. made
    /\ DOMAIN child \subseteq 0 .. MaxPrograms - 1
    /\ lines \in 0 .. MaxLines

Init ==
    /\ pc = "getline" /\ programs = <<>> /\ i = 0 /\ has_args = TRUE
    /\ write_pipe = Unset /\ read_pipe = Unset
    /\ slot = [s \in Slots |-> NoPipe] /\ made = 0 /\ before = 0
    /\ child = <<>> /\ lines = 0

(* line_to_programs and program_to_args: the segments between bars, and which
   of them are blank. A line that is empty or begins with a blank segment is
   left out until both arrays have been set: the code may then close whatever
   descriptors the unset numbers name. *)
GetLine ==
    /\ pc = "getline" /\ lines < MaxLines
    /\ \E n \in 0 .. MaxPrograms : programs' \in [1 .. n -> BOOLEAN]
    /\ programs' = <<>> \/ ~programs'[1] => Unset \notin {write_pipe, read_pipe}
    /\ pc' = "programs" /\ i' = 0 /\ child' = <<>>
    /\ before' = made /\ lines' = lines + 1
    /\ UNCHANGED <<has_args, write_pipe, read_pipe, slot, made>>

Closed(slots, s) == IF s = Unset THEN slots ELSE [slots EXCEPT ![s] = NoPipe]
Free(slots) == Min({s \in Slots : slots[s] = NoPipe})

(* What the k-th program starts with: descriptors 0 and 1 from the slots w and
   r, those closed, and everything else inherited. dup2 of a closed one fails. *)
Forked(k, w, r, slots) ==
    LET last == k = number_of_programs - 1
        piped == {s \in {w, r} : (s = w /\ ~last) \/ (s = r /\ k > 0)}
    IN  IF (~last /\ slots[w] = NoPipe) \/ (k > 0 /\ (slots[r] = NoPipe \/ (~last /\ r = w)))
        THEN Failed
        ELSE [stdin |-> IF k > 0 THEN slots[r] ELSE Terminal,
              stdout |-> IF last THEN Terminal ELSE slots[w],
              holds |-> {slots[s] : s \in Slots \ piped} \ {NoPipe}]

(* Mutant: they change places after a blank segment as well. *)
SwapAlways == IF i > 0 THEN <<read_pipe, write_pipe>> ELSE <<write_pipe, read_pipe>>

(* Where the two arrays are when the k-th segment begins. They change places,
   number by number, unless the segment before was blank. *)
swap_write_read_pipes ==
    IF i > 0 /\ has_args THEN <<read_pipe, write_pipe>> ELSE <<write_pipe, read_pipe>>

(* The loop's body, for one segment. *)
Program ==
    /\ pc = "programs" /\ i < number_of_programs
    /\ LET opened == IF i = 0 THEN [slot EXCEPT ![Free(slot)] = made + 1] ELSE slot
           w == IF i = 0 THEN Free(slot) ELSE swap_write_read_pipes[1]
           r == swap_write_read_pipes[2]
           kept == IF i > 0 THEN Closed(opened, r) ELSE opened
           more == i < number_of_programs - 1
           count == IF i = 0 THEN made + 1 ELSE made
       IN  /\ write_pipe' = w
           /\ has_args' = programs[i + 1]
           /\ IF programs[i + 1]
                 THEN /\ child' = [k \in DOMAIN child \cup {i} |->
                                     IF k = i THEN Forked(i, w, r, opened) ELSE child[k]]
                      /\ slot' = IF more THEN [kept EXCEPT ![Free(kept)] = count + 1] ELSE kept
                      /\ read_pipe' = IF more THEN Free(kept) ELSE r
                      /\ made' = IF more THEN count + 1 ELSE count
                 ELSE /\ slot' = opened /\ read_pipe' = r /\ made' = count
                      /\ UNCHANGED child
    /\ i' = i + 1
    /\ UNCHANGED <<pc, programs, before, lines>>

EndOfLine ==
    /\ pc = "programs" /\ i = number_of_programs
    /\ slot' = Closed(slot, write_pipe)
    /\ pc' = "waitpid"
    /\ UNCHANGED <<programs, i, has_args, write_pipe, read_pipe, made, before, child, lines>>

(* The children but the last are waited for; the next line is read. *)
Wait ==
    /\ pc = "waitpid"
    /\ pc' = "getline"
    /\ UNCHANGED <<programs, i, has_args, write_pipe, read_pipe, slot, made, before, child, lines>>

Next == GetLine \/ Program \/ EndOfLine \/ Wait
Spec == Init /\ [][Next]_vars
-----------------------------------------------------------------------------
(* Whatever lines came before, when a line that begins and ends with a program
   is waited for, each program's output is the next one's input, blank segments
   left out, and nobody else holds an end of that pipe: the reader sees its end
   when the writer is done, and the writer a broken pipe when the reader is
   (pipes.c:24-75). The interpreter has kept no pipe of the line. *)
EndsMeet ==
    pc = "waitpid" /\ programs # <<>> /\ programs[1] /\ programs[number_of_programs] =>
        /\ \A s \in Slots : slot[s] <= before
        /\ DOMAIN child = {k \in 0 .. number_of_programs - 1 : programs[k + 1]}
        /\ child[0].stdin = Terminal /\ child[number_of_programs - 1].stdout = Terminal
        /\ \A k, l \in DOMAIN child : k < l /\ (\A m \in DOMAIN child : m <= k \/ m >= l) =>
              LET joint == child[k].stdout
              IN  /\ joint > before /\ child[l].stdin = joint
                  /\ \A m \in DOMAIN child :
                        /\ joint \notin child[m].holds
                        /\ m # k => child[m].stdout # joint
                        /\ m # l => child[m].stdin # joint
=============================================================================
