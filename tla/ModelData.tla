------------------------------ MODULE ModelData ------------------------------
(***************************************************************************)
(* The contents of a tensor, an activation or a persistent state, told     *)
(* apart by how they came about.  What an executable writes is named after *)
(* the invocation and everything that it read, so two contents are equal   *)
(* just when the program would have produced the same bytes.               *)
(***************************************************************************)
EXTENDS Naturals, Sequences

Content(of, by, from) == [of |-> of, by |-> by, from |-> from]

Missing == Content("missing", 0, <<>>)      \* no bytes at all
Junk == Content("junk", 0, <<>>)            \* bytes nobody should read

TensorData(t) == Content(t, 0, <<>>)        \* ModelTensor::data
HostData(v, n) == Content(v, n, <<>>)       \* the n-th choice of a caller
ZeroState(s) == Content(s, 0, <<>>)
HostOp(v, data) == Content(v, 0, <<data>>)  \* embedding lookup, LM head
ConstantData(j) == Content("constant", j, <<>>)

\* What invocation j writes to an output or a state, having read `data`.
Computed(item, j, data) == Content(item, j, data)
=============================================================================
