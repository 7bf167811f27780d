---------------------------- MODULE MCModelSession ----------------------------
(***************************************************************************)
(* A package of three invocations: pages of two banks, a resident weight,  *)
(* an input of the second invocation that comes ahead over a workspace of  *)
(* the first and one that is loaded inside the program over its delivered  *)
(* output, a value that is copied, one that is aliased over an invocation  *)
(* in between, an input that the first invocation prefetches, states, an   *)
(* embedding and an LM head.                                               *)
(***************************************************************************)
EXTENDS ModelSessionPlacement

MCTensors == {"w1", "w2", "r", "x1", "x2"}
MCValues == {"ids", "in", "mid", "far", "rows", "out", "logits"}
MCExternalInputs == {"ids", "rows", "mid"}
MCExternalOutputs == {"mid", "out"}
MCEmbedding == [v \in {"in"} |-> "ids"]
MCLmHead == [v \in {"logits"} |-> "out"]
MCChoices == [x \in {"ids", "rows", "mid", "kv"} |-> IF x = "rows" THEN {1, 2} ELSE {1}]
MCSlots == 1 .. 14
MCPages == 1 .. 2
MCPageImage == <<[s \in {1} |-> "w1"], [s \in {2} |-> "w2"]>>

In(v, s, k, pre) == [value |-> v, slot |-> s, kind |-> k, pre |-> pre]
Plain(v, s) == In(v, s, "plain", FALSE)
Out(v, s) == [value |-> v, slot |-> s]
State(t, s) == [state |-> t, slot |-> s]

MCInvocations ==
    <<[inputs |-> <<Plain("ids", 4), Plain("w1", 1), Plain("r", 3), In("rows", 5, "prefetch", FALSE)>>,
       outputs |-> <<Out("mid", 6), Out("far", 7)>>,
       states |-> <<State("kv", 8)>>,
       constants |-> {9}, workspace |-> {10}, scratch |-> {}, page |-> 1, looksAhead |-> TRUE],
      [inputs |-> <<Plain("mid", 11), Plain("w2", 2), In("x1", 10, "paged", TRUE),
                    In("x2", 6, "paged", FALSE), Plain("rows", 5)>>,
       outputs |-> <<>>,
       states |-> <<State("kv", 8)>>,
       constants |-> {}, workspace |-> {}, scratch |-> {9}, page |-> 2, looksAhead |-> TRUE],
      [inputs |-> <<Plain("far", 7), Plain("w1", 1), Plain("r", 14), Plain("in", 12),
                    In("x1", 13, "paged", TRUE)>>,
       outputs |-> <<Out("out", 4)>>,
       states |-> <<>>,
       constants |-> {9}, workspace |-> {11}, scratch |-> {}, page |-> 1, looksAhead |-> TRUE]>>
=============================================================================
