-------------------------- MODULE MCTransportOrder --------------------------
(***************************************************************************)
(* Programs of MEM queues only, in which every page event has one waiting  *)
(* queue: then nothing but the order of packets and WAITs can block, which *)
(* is what validate_queue_transport_order is there to rule out.  Every     *)
(* order of the controls of each queue is a candidate; loading filters.    *)
(***************************************************************************)
EXTENDS QueueControl, SequencesExt

Control(op, id) == [op |-> op, id |-> id]

\* The controls of the two queues, as sets.
Contents == {[mem0 |-> {Control("packet", 1), Control("packet", 2), Control("wait", 3)},
              mem1 |-> {Control("packet", 3), Control("wait", 1), Control("wait", 2)}],
             [mem0 |-> {Control("packet", 1), Control("packet", 2), Control("wait", 2)},
              mem1 |-> {Control("packet", 2), Control("packet", 3),
                        Control("wait", 1), Control("wait", 3)}]}

Has(set, op, id) == Control(op, id) \in set

QueuePrograms ==
    UNION {{[start    |-> start,
             sides    |-> [p \in PageIds |-> Sides],
             targets  |-> [p \in PageIds |->
                              {q \in MemQueues : Has(set[q], "packet", p)}],
             members  |-> [e \in PageEvents |-> {e}],
             code     |-> [mem0 |-> c0, mem1 |-> c1],
             offset   |-> [e \in PageEvents |->
                              [q \in {r \in Queues : Has(set[r], "wait", e)} |-> 0]],
             producer |-> [e \in PageEvents |-> {}]] :
                c0 \in SetToSeqs(set.mem0), c1 \in SetToSeqs(set.mem1),
                start \in {<<0, 0, 0>>, <<1, 0, 0>>}} :
           set \in Contents}
=============================================================================
