--------------------------- MODULE AddressSpaces ---------------------------
(***************************************************************************)
(* What the memory of processes promises: each has cells of its own, which *)
(* keep what it stored in them until it is gone or executes a program.  A  *)
(* child begins with a copy.  Paging and swapping are not seen.            *)
(***************************************************************************)
CONSTANTS Procs, Cells, Values,
          Absent,      \* a cell not touched so far
          Old,         \* what a cell holds that was not stored to: anything
          Images       \* what a program's cells hold at its start

VARIABLE space         \* process |-> cell |-> value

Nothing == [c \in Cells |-> Absent]

Store(q, c, x)    == space[q][c] # Absent /\ space' = [space EXCEPT ![q][c] = x]
Touch(q, c)       == space[q][c] = Absent /\ space' = [space EXCEPT ![q][c] = Old]
Copy(q, child)    == space[child] = Nothing /\ space' = [space EXCEPT ![child] = space[q]]
Execute(q, image) == space' = [space EXCEPT ![q] = image]
Leave(q)          == space' = [space EXCEPT ![q] = Nothing]

Next == \E q \in Procs :
  \/ \E c \in Cells : Touch(q, c) \/ \E x \in Values : Store(q, c, x)
  \/ \E child \in Procs \ {q} : Copy(q, child)
  \/ \E image \in Images : Execute(q, image)
  \/ Leave(q)

Spec == [][Next]_space
=============================================================================
