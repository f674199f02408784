---------------------------- MODULE StrideWords ----------------------------
(***************************************************************************)
(* The arithmetic of kern/schedule/default_sched.c: strides are uint32_t   *)
(* words that wrap, and their differences are read as int32_t.             *)
(***************************************************************************)
EXTENDS Integers

CONSTANT BigStride   \* BIG_STRIDE, the greatest int32_t

ASSUME BigStrideAssumption == BigStride \in Nat \ {0}

\* How many values a stride has: 2^32.
Words == 2 * BigStride + 2

Strides == 0 .. Words - 1

\* The sum of a stride and a pass, as a uint32_t.
Wrapped(s) == IF s >= Words THEN s - Words ELSE s

\* The difference of two strides, as an int32_t.
Signed(d) ==
  IF d > BigStride THEN d - Words ELSE IF d < -BigStride - 1 THEN d + Words ELSE d
=============================================================================
