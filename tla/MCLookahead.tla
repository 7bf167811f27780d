----------------------------- MODULE MCLookahead -----------------------------
(***************************************************************************)
(* Two invocations: the page of the second takes the rows in which the     *)
(* first leaves an output for the host.  Each program alone is correct,    *)
(* and the output is not read by the second invocation.                    *)
(***************************************************************************)
EXTENDS ModelSession

MCTensors == {"w1", "w2"}
MCValues == {"a", "b", "c"}
MCExternalInputs == {"a"}
MCExternalOutputs == {"b", "c"}
MCChoices == [x \in {"a", "kv"} |-> {1}]
NoHostOps == [v \in {} |-> "a"]
MCSlots == 1 .. 4
MCPages == 1 .. 2
MCPageImage == <<[s \in {1} |-> "w1"], [s \in {2} |-> "w2"]>>

Plain(v, s) == [value |-> v, slot |-> s, kind |-> "plain", pre |-> FALSE]

Program(in, weight, page, out) ==
    [inputs |-> <<in, weight>>, outputs |-> <<out>>, states |-> <<>>,
     constants |-> {}, workspace |-> {}, scratch |-> {}, page |-> page, looksAhead |-> TRUE]

MCInvocations ==
    <<Program(Plain("a", 3), Plain("w1", 1), 1, [value |-> "b", slot |-> 2]),
      Program(Plain("a", 3), Plain("w2", 2), 2, [value |-> "c", slot |-> 4])>>
=============================================================================
