----------------------------- MODULE ComputeCode -----------------------------
(***************************************************************************)
(* Programs of the local instruction memories (i-MEM) as the segment       *)
(* planner of imem_capacity.cpp reads them: a queue is a sequence of       *)
(* commands that take their cycles one after another.                      *)
(***************************************************************************)
EXTENDS Integers, Sequences, Functions

CONSTANTS
    Queues,            \* ICU queues
    ComputeQueues,     \* those of kind Vxm, SxmTranspose and SxmPermute
    VxmQueues,         \* those of kind Vxm
    Depth,             \* i-MEM words of each queue
    PacketWords,       \* words of a native 3D packet
    Programs           \* [code, drains, maxCycle, reloadable]

(***************************************************************************)
(* A packet waits, issues over span cycles, and the unit works on for tail *)
(* cycles; a NOP only waits; "other" is any command the planner does not   *)
(* split.  An id names a packet through all its copies.                    *)
(***************************************************************************)
Packet(id, wait, span, tail) ==
    [op |-> "packet", id |-> id, wait |-> wait, span |-> span, tail |-> tail]
Nop(wait) == [op |-> "nop", id |-> 0, wait |-> wait, span |-> 0, tail |-> 0]
Other == [op |-> "other", id |-> 0, wait |-> 0, span |-> 1, tail |-> 0]

Commands ==
    {c \in [op : {"packet", "nop", "other"}, id : Nat, wait : Nat, span : Nat, tail : Nat] :
        c.op = "nop" => c.span = 0}

ASSUME ComputeAssumption ==
    /\ VxmQueues \subseteq ComputeQueues /\ ComputeQueues \subseteq Queues
    /\ Depth \in [Queues -> Nat] /\ PacketWords \in Nat \ {0}

ASSUME ProgramsAssumption ==
    \A prog \in Programs :
        /\ prog.code \in [Queues -> Seq(Commands)]
        /\ prog.drains \subseteq Nat /\ prog.maxCycle \in Nat
        /\ prog.reloadable \in BOOLEAN

Words(c) == IF c.op = "packet" THEN PacketWords ELSE 1
Occupied(code) == SumFunction([i \in DOMAIN code |-> Words(code[i])])

\* The cycle behind the first k commands of a queue.
Behind(code) ==
    LET behind[k \in 0 .. Len(code)] ==
            IF k = 0 THEN 0 ELSE behind[k - 1] + code[k].wait + code[k].span
    IN  behind

\* The cycle of the first issue of a command, and the one behind its last.
First(code, k) == Behind(code)[k - 1] + code[k].wait
End(code, k) == First(code, k) + code[k].span

PacketsOf(code) == {k \in DOMAIN code : code[k].op = "packet"}

\* The packets that start to issue at a cycle of the queue.
StartingAt(code, cycle) == {code[k].id : k \in {n \in PacketsOf(code) : First(code, n) = cycle}}

\* The commands that issue at a cycle.
IssuingAt(code, cycle) ==
    {code[k] : k \in {n \in PacketsOf(code) : First(code, n) <= cycle /\ cycle < End(code, n)}}
=============================================================================
