---------------------------- MODULE ComputeSegments ----------------------------
(***************************************************************************)
(* Compute queues whose code does not fit their i-MEM run in segments.     *)
(* plan_compute_imem_segments cuts the code at the drains the compiler     *)
(* declares, and CModelRuntime loads the next segment when the logical     *)
(* clock comes to the boundary (reload_drained_compute_imem), while all    *)
(* other queues and the transports of weight pages keep their programs.    *)
(* The logical clock may be held in any cycle by a common barrier.         *)
(*                                                                         *)
(* The chip is external: queues issue what they hold, and the VXM is busy  *)
(* until its tail has run out.                                             *)
(***************************************************************************)
EXTENDS ComputeCode

CONSTANT MaxWait     \* 0xffffff, the wait a packet header can hold

ASSUME MaxWaitAssumption == MaxWait \in Nat

VARIABLES
    program,     \* the linked program
    phase,       \* "idle", "running", or "broken" after an exception
    segments,    \* compute_imem_segments_: [code, length] of each, by its end
    segment,     \* compute_imem_segment_: the end of the one that runs
    boundary,    \* compute_imem_boundary_
    L,           \* executed_cycles_
    installed,   \* the code each queue holds
    origin,      \* the logical cycle at which it was installed
    tail,        \* physical cycles until the VXM is idle
    issued       \* per queue, <<packet, logical cycle>> of the first issues

vars == <<program, phase, segments, segment, boundary, L, installed, origin, tail, issued>>

-----------------------------------------------------------------------------
(***************************************************************************)
(* The plan: split_resident_program_at_drains on the queues that overflow. *)
(***************************************************************************)
Overflows(code, q) == Occupied(code) > Depth[q]
Selected(prog) == {q \in Queues : Overflows(prog.code[q], q)}

\* Only compute queues are cut, and only under common barriers and untimed.
Supported(prog) == prog.reloadable /\ Selected(prog) \subseteq ComputeQueues

\* The half-open intervals end at the drains inside the program and behind
\* its last cycle.  An interval, and the segment made of it, is named by its
\* end; segments run in the order of their ends.
Drains(prog) == {d \in prog.drains : 0 < d /\ d < prog.maxCycle}
Ends(prog) == Drains(prog) \cup {prog.maxCycle + 1}

Begin(ends, e) ==
    CHOOSE b \in ends \cup {0} : b < e /\ \A d \in ends : d < e => d <= b

\* The interval of a cycle (upper_bound), 0 behind the last.
PartOf(ends, cycle) ==
    IF \A e \in ends : e <= cycle THEN 0
    ELSE CHOOSE e \in ends : e > cycle /\ \A d \in ends : d > cycle => e <= d

\* Mutant: only the first issue is compared with the drain.
CrossesAtFirst(part, end) == part = 0

Crosses(part, end) == part = 0 \/ end > part

\* Mutant: the wait counts from the beginning of the whole program.
RebasedToWhole(first, begin, local) == first - local

\* The wait in the new segment, whose clock starts at its own beginning.
Rebased(first, begin, local) == first - begin - local

\* The copy of a packet, with the wait in its header.
WithWait(c, wait) == [c EXCEPT !.wait = wait]

\* One command of a queue, which first issues in the interval of that part:
\* cursor is the cycle behind it in the whole code, local the cycles each part
\* has so far.
CutAt(ends, acc, c, first, part) ==
    LET end   == first + c.span
        begin == Begin(ends, part)
        wait  == Rebased(first, begin, acc.local[part])
        refused ==
            /\ c.op # "nop"
            /\ \/ c.op = "other"
               \/ Crosses(part, end)
               \/ first < begin + acc.local[part]
               \/ wait > MaxWait
    IN  IF ~acc.legal \/ refused THEN [acc EXCEPT !.legal = FALSE]
        ELSE IF c.op = "nop" THEN [acc EXCEPT !.cursor = end]
        ELSE [legal  |-> TRUE, cursor |-> end,
              local  |-> [acc.local EXCEPT ![part] = end - begin],
              parts  |-> [acc.parts EXCEPT ![part] = Append(@, WithWait(c, wait))]]

Cut(ends, acc, c) ==
    LET first == acc.cursor + c.wait
    IN  CutAt(ends, acc, c, first, PartOf(ends, first))

NothingCut(ends) ==
    [legal |-> TRUE, cursor |-> 0,
     local |-> [e \in ends |-> 0], parts |-> [e \in ends |-> <<>>]]

\* The parts of a queue behind each of its commands.
Cutting(code, ends) ==
    LET acc[k \in 0 .. Len(code)] ==
            IF k = 0 THEN NothingCut(ends) ELSE Cut(ends, acc[k - 1], code[k])
    IN  acc
Split(code, ends) == Cutting(code, ends)[Len(code)]

Splits(prog) == [q \in Selected(prog) |-> Split(prog.code[q], Ends(prog))]

\* plan_compute_imem_segments throws unless all this holds.
Planned(prog) ==
    /\ Drains(prog) # {}
    /\ \A q \in Selected(prog) :
          /\ Splits(prog)[q].legal
          /\ \A e \in Ends(prog) : ~Overflows(Splits(prog)[q].parts[e], q)

Segments(prog) ==
    [e \in Ends(prog) |->
        [code   |-> [q \in Selected(prog) |-> Splits(prog)[q].parts[e]],
         length |-> e - Begin(Ends(prog), e)]]

\* What the queues hold when a segment is loaded over it.
Loaded(part, code) == [q \in Queues |-> IF q \in DOMAIN part THEN part[q] ELSE code[q]]

-----------------------------------------------------------------------------
Init ==
    /\ program \in Programs
    /\ phase = "idle"
    /\ segments = <<>> /\ segment = 0 /\ boundary = 0
    /\ L = 0
    /\ installed = [q \in Queues |-> <<>>]
    /\ origin = [q \in Queues |-> 0]
    /\ tail = 0
    /\ issued = [q \in Queues |-> {}]

\* load_impl of a program that fits its i-MEM.
LoadWhole ==
    /\ phase = "idle"
    /\ Selected(program) = {}
    /\ phase' = "running"
    /\ installed' = program.code
    /\ UNCHANGED <<program, segments, segment, boundary, L, origin, tail, issued>>

\* load_impl of one that does not: the first segments and all other queues.
LoadSegmented ==
    /\ phase = "idle"
    /\ Selected(program) # {}
    /\ Supported(program) /\ Planned(program)
    /\ phase' = "running"
    /\ segments' = Segments(program)
    /\ segment' = PartOf(Ends(program), 0)
    /\ boundary' = segments'[segment'].length
    /\ installed' = Loaded(segments'[segment'].code, program.code)
    /\ UNCHANGED <<program, L, origin, tail, issued>>

(***************************************************************************)
(* reload_drained_compute_imem, at the beginning of a physical step.       *)
(***************************************************************************)
Reloads == (\E e \in DOMAIN segments : e > segment) /\ L = boundary

NextBoundary(length) == boundary + length

VxmIdle == tail = 0
Done(q) == \A k \in DOMAIN installed[q] : origin[q] + End(installed[q], k) <= L
QueuesDone == \A q \in Selected(program) : Done(q)

Reload ==
    IF Reloads
    THEN /\ VxmIdle /\ QueuesDone
         /\ segment' = PartOf(DOMAIN segments, segment)
         /\ boundary' = NextBoundary(segments[segment'].length)
         /\ installed' = Loaded(segments[segment'].code, installed)
         /\ origin' = [q \in Queues |-> IF q \in Selected(program) THEN L ELSE origin[q]]
    ELSE UNCHANGED <<segment, boundary, installed, origin>>

\* The tick of the chip: the queues with the code they hold by now.
Issue(q) == IssuingAt(installed'[q], L - origin'[q])
TailLess == IF tail = 0 THEN 0 ELSE tail - 1
Tails == {TailLess} \cup {c.tail : c \in UNION {Issue(q) : q \in VxmQueues}}

Dispatch ==
    /\ issued' = [q \in Queues |->
          issued[q] \cup {<<id, L>> : id \in StartingAt(installed'[q], L - origin'[q])}]
    /\ tail' \in Tails /\ \A t \in Tails : t <= tail'
    /\ L' = L + 1

\* A held cycle: the units run on, or stand as well.
Hold ==
    /\ tail' \in {tail, TailLess}
    /\ UNCHANGED <<issued, L>>

StepPhysical ==
    /\ phase = "running" /\ L <= program.maxCycle
    /\ Reload
    /\ Dispatch \/ Hold
    /\ UNCHANGED <<program, phase, segments>>

ReloadThrows ==
    /\ phase = "running" /\ L <= program.maxCycle
    /\ Reloads /\ ~(VxmIdle /\ QueuesDone)
    /\ phase' = "broken"
    /\ UNCHANGED <<program, segments, segment, boundary, L, installed, origin, tail, issued>>

Next == LoadWhole \/ LoadSegmented \/ StepPhysical \/ ReloadThrows

Spec == Init /\ [][Next]_vars

-----------------------------------------------------------------------------
\* The compiler's promise for a drain: what is issued before it has run out
\* by then, in the queues that are not cut as a whole, and in those that are
\* for all packets that do not cross the drain: these the planner refuses.
Drained(prog) ==
    \A q \in VxmQueues, d \in Drains(prog) :
        \A k \in PacketsOf(prog.code[q]) :
            /\ First(prog.code[q], k) < d
            /\ End(prog.code[q], k) <= d \/ q \notin Selected(prog)
            => End(prog.code[q], k) + prog.code[q][k].tail <= d

(***************************************************************************)
(* A program that was accepted comes through all its reloads: the planner  *)
(* leaves no packet unfinished at a boundary and the runtime meets each    *)
(* boundary exactly, so that the exceptions of reload_drained_compute_imem *)
(* are only met if the compiler declared a drain too early for the VXM.    *)
(***************************************************************************)
ReloadsSucceed == phase = "broken" => ~Drained(program)

(***************************************************************************)
(* Segments do not show: with holds and reloads, each queue issues exactly *)
(* the packets of its whole code, each in the logical cycle that code has  *)
(* for it.                                                                 *)
(***************************************************************************)
Whole == INSTANCE WholeProgram
ImplementsWhole == Whole!Spec
=============================================================================
