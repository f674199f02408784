---------------------------- MODULE StridePolicy ----------------------------
(***************************************************************************)
(* Stride scheduling as kern/schedule/default_sched.c means it: each time, *)
(* a process no other is behind of runs, and its stride grows by at most   *)
(* BIG_STRIDE.                                                             *)
(***************************************************************************)
EXTENDS StrideWords

CONSTANT Sharers  \* the processes that share the processor

VARIABLE stride   \* proc->lab6_stride

\* proc_stride_comp_f: below 0 if p comes before q.
Comp(p, q) == Signed(stride[p] - stride[q])

Init == stride = [p \in Sharers |-> 0]

Run(p) ==
  /\ \A q \in Sharers : Comp(p, q) <= 0
  /\ \E pass \in 0 .. BigStride : stride' = [stride EXCEPT ![p] = Wrapped(@ + pass)]

Next == \E p \in Sharers : Run(p)

Spec == Init /\ [][Next]_stride

-----------------------------------------------------------------------------
TypeOK == stride \in [Sharers -> Strides]

(* Although strides wrap, the comparison is an order at all times: the     *)
(* differences add up, so that none of them has overflowed.  This is why   *)
(* BIG_STRIDE may be as large as an int32_t but no larger.                 *)
Consistent ==
  \A p, q, r \in Sharers : Comp(p, q) + Comp(q, r) = Comp(p, r)
=============================================================================
