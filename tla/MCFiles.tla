------------------------------ MODULE MCFiles ------------------------------
(* The instance of Files: what several processes share; a file on an empty *)
(* disk, and on one that fills up; two files that change in turn.          *)
EXTENDS Files

Flags(access, extra) ==
  [read   |-> access # "w", write |-> access # "r",
   create |-> "create" \in extra, excl |-> "excl" \in extra,
   trunc  |-> "trunc" \in extra, append |-> "append" \in extra]

Sharing ==
  [procs |-> Procs, stored |-> <<>>, most |-> NFds + 1,
   opens |-> {"f", "d", Device, Missing, TooLong} \X
             {Flags("r", {}), Flags("w", {}), Flags("r", {"create", "excl"})},
   nodes |-> {"f", Root, "d", Device, Missing, TooLong}, lens |-> {}, seeks |-> {0}]

\* Two descriptors of one file.
Single ==
  [procs |-> {First}, stored |-> <<>>, most |-> NFds,
   opens |-> {"f"} \X {Flags("rw", {}), Flags("rw", {"trunc"})},
   nodes |-> {"f"}, lens |-> {2}, seeks |-> {3}]

Full == [Single EXCEPT !.stored = <<"g">>, !.lens = {1}]

InTurn ==
  [procs |-> {First}, stored |-> <<"g">>, most |-> 1,
   opens |-> {"f", "g"} \X {Flags("rw", {}), Flags("r", {"create"}), Flags("rw", {"append"})},
   nodes |-> {"f"}, lens |-> {2}, seeks |-> {3}]

MCLoads == {Sharing, Single, Full, InTurn}
=============================================================================
