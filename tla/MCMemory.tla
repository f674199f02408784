------------------------------ MODULE MCMemory ------------------------------
(* The instance of Memory: a row of pages, programs right and wrong.       *)
EXTENDS Memory

Segment(start, file, mem, write, wrong) ==
  [start |-> start, file |-> file, mem |-> mem, write |-> write, wrong |-> wrong]
Program(wrong, segs) == [wrong |-> wrong, segs |-> segs]

MCPrograms ==
  { Program("no", <<Segment(0, 1, 2, FALSE, "no")>>),
    \* the second segment begins in the first
    Program("no", <<Segment(0, 1, 2, FALSE, "no"), Segment(1, 1, 1, TRUE, "no")>>),
    \* the second segment begins below the first and reaches into it
    Program("no", <<Segment(1, 1, 1, FALSE, "no"), Segment(0, 1, 2, TRUE, "no")>>),
    \* nothing but a stack, and a segment that is passed over
    Program("no", <<Segment(0, 0, 1, TRUE, "no")>>),
    Program("header", <<>>),
    Program("no", <<Segment(0, 2, 2, TRUE, "short")>>) }
=============================================================================
