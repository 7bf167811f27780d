--------------------------- MODULE MCQueueControl ---------------------------
(***************************************************************************)
(* Programs of two pages as the pager links them: every control has a      *)
(* nominal cycle, and each queue takes its controls in that order.  A      *)
(* timeline is the nominal order of the packets of page 1 and 2 ("p1",     *)
(* "p2"), of the startup waits for the events 1 and 2 ("w1", "w2"), of a   *)
(* notification by a queue that has passed "w1" ("n1"), and of the WAIT of *)
(* a later phase of event 1 that depends on that notification ("l1").      *)
(***************************************************************************)
EXTENDS QueueControl, SequencesExt

MCQueues == {"mem0", "mem1", "mxm", "vxm"}
MCMemQueues == {"mem0", "mem1"}
MCMxmQueues == {"mxm"}

Control(op, id) == [op |-> op, id |-> id]

ControlsAt(node) ==
    CASE node = "p1" -> <<Control("packet", 1)>>
      [] node = "p2" -> <<Control("packet", 2)>>
      [] node = "w1" -> <<Control("issue", 0), Control("wait", 1)>>
      [] node = "w2" -> <<Control("issue", 0), Control("wait", 2)>>
      [] node = "n1" -> <<Control("notify", 1)>>
      [] node = "l1" -> <<Control("signal", 1), Control("wait", 1)>>

\* The controls of a queue that takes part in the given nodes.
Linked(timeline, nodes) ==
    FlattenSeq([i \in DOMAIN SelectSeq(timeline, LAMBDA n : n \in nodes) |->
        ControlsAt(SelectSeq(timeline, LAMBDA n : n \in nodes)[i])])

Timelines == {<<"p1", "w1", "n1", "l1", "p2", "w2">>,
              <<"p1", "w1", "n1", "p2", "l1", "w2">>,
              <<"p1", "p2", "w1", "n1", "w2", "l1">>,
              <<"p1", "w1", "p2", "w2", "n1", "l1">>}

\* Which queue takes part in what.
Roles == {[mem0 |-> {"p1", "p2", "w1", "w2"}, mem1 |-> {"p2", "l1"},
           mxm  |-> {"w1", "w2"},             vxm  |-> {"w1", "n1"}],
          [mem0 |-> {"p1", "w2"},             mem1 |-> {"p1", "p2", "w1", "w2"},
           mxm  |-> {"w1"},                   vxm  |-> {"l1", "w2"}] }

Notifier(role) == [role EXCEPT !.mxm = IF "n1" \in role.vxm THEN @ ELSE @ \cup {"n1"}]

Offsets == {[mem0 |-> 0, mem1 |-> 3, mxm |-> 1, vxm |-> 1],
            [mem0 |-> 1, mem1 |-> 2, mxm |-> 3, vxm |-> 0],
            [mem0 |-> 0, mem1 |-> 0, mxm |-> 2, vxm |-> 3]}

\* What a queue with the given nodes waits for and receives.
WaitsIn(nodes, e) == IF e = 1 THEN {"w1", "l1"} \cap nodes # {} ELSE "w2" \in nodes
ReceivesIn(nodes, p) == IF p = 1 THEN "p1" \in nodes ELSE "p2" \in nodes

LinkedPrograms ==
    {[start    |-> start,
      sides    |-> [p \in PageIds |-> Sides],
      targets  |-> [p \in PageIds |-> {q \in MemQueues : ReceivesIn(role[q], p)}],
      members  |-> members,
      code     |-> [q \in Queues |-> Linked(timeline, Notifier(role)[q])],
      offset   |-> [e \in PageEvents |-> [q \in {r \in Queues : WaitsIn(role[r], e)} |-> offset[q]]],
      producer |-> [e \in PageEvents |-> producer]] :
        timeline \in Timelines, role \in Roles, offset \in Offsets,
        start \in {[p \in PageIds |-> 0], [p \in PageIds |-> 2 * (p - 1)]},
        producer \in {{}, {"mem1"}}, members \in {<<{1}, {2}>>, <<{1}, {1, 2}>>}}

\* A later phase may depend on computation that an earlier one started, but
\* the pager never puts such a queue into the startup rendezvous.
StartupIsFree(prog) ==
    \A q \in Queues, e \in PageEvents :
        \A i \in DOMAIN prog.code[q] : \A j \in 1 .. i - 1 :
            IsWait(prog.code[q][i], e) /\ prog.code[q][j].op = "signal" =>
                /\ prog.offset[e][q] > StartupWindow
                /\ q \notin prog.producer[e] \cup MxmQueues

\* Event 2 needs both pages in a quarter of the programs only.
SharedOnce(prog) ==
    prog.members[2] = {1, 2} => prog.start[2] = 0 /\ prog.producer[1] = {}

\* Programs of the two MEM queues only, in which every event has one waiting
\* queue and nothing but the order of packets and WAITs can block: every order
\* of these controls is a candidate, and loading filters.
OrderContents == {[mem0 |-> {Control("packet", 1), Control("packet", 2), Control("wait", 2)},
                   mem1 |-> {Control("packet", 1), Control("packet", 2), Control("wait", 1)}],
                  [mem0 |-> {Control("packet", 1), Control("wait", 2)},
                   mem1 |-> {Control("packet", 2), Control("wait", 1)}]}

OrderPrograms ==
    UNION {{[start    |-> start,
             sides    |-> [p \in PageIds |-> Sides],
             targets  |-> [p \in PageIds |->
                              {m \in MemQueues : Control("packet", p) \in set[m]}],
             members  |-> [e \in PageEvents |-> {e}],
             code     |-> [mem0 |-> c0, mem1 |-> c1, mxm |-> <<>>, vxm |-> <<>>],
             offset   |-> [e \in PageEvents |->
                              [q \in {m \in MemQueues : Control("wait", e) \in set[m]} |-> 0]],
             producer |-> [e \in PageEvents |-> {}]] :
                c0 \in SetToSeqs(set.mem0), c1 \in SetToSeqs(set.mem1),
                start \in {<<0, 0>>, <<2, 0>>}} :
           set \in OrderContents}

MCPrograms ==
    {prog \in LinkedPrograms : StartupIsFree(prog) /\ SharedOnce(prog)} \cup OrderPrograms
=============================================================================
