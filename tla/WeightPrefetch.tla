---------------------------- MODULE WeightPrefetch ----------------------------
(***************************************************************************)
(* The plan of the weight-page transports of one program                   *)
(* (weight_prefetch_plan.cpp).                                             *)
(*                                                                         *)
(* The compiler hands over the uses of weight pages: a page, the cycle its *)
(* first consumer is ready and the cycle its last consumer releases it.    *)
(* Planning merges the uses of a page whose residencies overlap into one   *)
(* transport, groups transports that can stand in a bank together, and     *)
(* then decides for each transport whether it is loaded before execution,  *)
(* when it may be launched, when the MEM queues may be armed for it, and   *)
(* which West streams carry it.  A packer that knows the exact bytes has   *)
(* the timing computed again on the plans it got.                          *)
(*                                                                         *)
(* Every iteration of a loop of the code is one step.  Sums of 64-bit      *)
(* cycles are taken to fit.                                                *)
(***************************************************************************)
EXTENDS Integers, Sequences, FiniteSets

CONSTANTS
    Pages,         \* pages, numbered in the order (binding_index, page_index)
    Banks,         \* SRAM banks, numbered
    Spots,         \* rows of the slices of a bank, in the units pages overlap
    StreamCount,   \* hardware.streams_per_direction
    Lanes,         \* hardware.c2c_streams_per_direction
    LaneBytes,     \* hardware.c2c_bytes_per_stream_per_cycle
    Guard,         \* columns and tile rows a vector has to pass
    Horizon,       \* bound on the cycles of a program
    PackedBytes,   \* the exact sizes a packer may find
    Programs       \* the programs to plan

ASSUME NumbersAssumption ==
    /\ Pages \subseteq Nat /\ Banks \subseteq Nat
    /\ StreamCount \in Nat /\ Guard \in Nat /\ Horizon \in Nat
    /\ Lanes \in 1 .. StreamCount
    /\ LaneBytes \in Nat \ {0}
    /\ PackedBytes \subseteq Nat

Cycles == 0 .. Horizon
StreamIds == 0 .. (StreamCount - 1)

(***************************************************************************)
(* A program: the uses; where a page lives and how large it is on its      *)
(* larger side; the last cycles of the constants written into a row before *)
(* execution; the ends of the native domains of the MEM queues of a bank   *)
(* that also hold scratch; the exclusive ingress windows that the compiler *)
(* reserved; the last compiled use of every West stream, if it is known;   *)
(* and the paging protocol.                                                *)
(***************************************************************************)
Uses == [page : Pages, ready : Cycles, release : Cycles, runtime : BOOLEAN]

ProgramType ==
    [uses      : Seq(Uses),
     bank      : [Pages -> Banks],
     spots     : [Pages -> SUBSET Spots],
     bytes     : [Pages -> Nat],
     constants : [Banks \X Spots -> SUBSET Cycles],
     scratch   : [Banks -> SUBSET Cycles],
     window    : UNION {[W -> Cycles \X Cycles] : W \in SUBSET Pages},
     streams   : [StreamIds -> Cycles] \cup [{} -> Cycles],
     common    : BOOLEAN,
     overlap   : BOOLEAN]

ASSUME ProgramsAssumption == Programs \subseteq ProgramType

\* What the compiler and the loader see to.
ASSUME UsesAssumption ==
    \A P \in Programs :
        /\ P.uses # << >>
        /\ \A u \in DOMAIN P.uses : P.uses[u].ready <= P.uses[u].release
        /\ P.overlap => P.common

VARIABLES
    prog,       \* the program
    stage,      \* how far planning has come
    todo,       \* uses that are not in a plan yet
    plans,      \* the transports
    timing,     \* what is decided for the first plans
    waiting,    \* plans that are in launchOrder
    cursor,     \* nextTransportCursor
    packed      \* the sizes are those of the packer

vars == <<prog, stage, todo, plans, timing, waiting, cursor, packed>>

-----------------------------------------------------------------------------
(***************************************************************************)
(* Helpers.                                                                *)
(***************************************************************************)
Least(S) == CHOOSE x \in S : \A y \in S : x <= y
Greatest(S) == CHOOSE x \in S : \A y \in S : x >= y
Larger(a, b) == IF a >= b THEN a ELSE b
Smaller(a, b) == IF a <= b THEN a ELSE b

Indices == 1 .. Len(plans)

RegionsOf(p) == {prog.bank[p]} \X prog.spots[p]
Regions(i) == RegionsOf(plans[i].page)
Overlap(i, j) == Regions(i) \cap Regions(j) # {}

BankOf(i) == prog.bank[plans[i].page]

\* Cycles that n lanes need for a page, and the way through the tiles.
Duration(bytes, n) ==
    (bytes + n * LaneBytes - 1) \div (n * LaneBytes) + Guard + n

-----------------------------------------------------------------------------
(***************************************************************************)
(* plan_weight_prefetches: uses into plans.                                *)
(***************************************************************************)
Unassigned == -1

\* The order in which the uses are taken; a tie is between equal uses.
UseBefore(u, v) ==
    LET a == prog.uses[u]
        b == prog.uses[v]
    IN  a.ready < b.ready \/ (a.ready = b.ready /\ a.page < b.page)

NextUse(u) == u \in todo /\ \A v \in todo : ~UseBefore(v, u)

JoinsStrictly(u, i) ==
    /\ plans[i].page = prog.uses[u].page
    /\ prog.uses[u].ready < plans[i].release
    /\ plans[i].ready < prog.uses[u].release

\* The use falls into the time for which a plan already keeps its page.
Joins(u, i) ==
    /\ plans[i].page = prog.uses[u].page
    /\ prog.uses[u].ready <= plans[i].release
    /\ plans[i].ready <= prog.uses[u].release

Taken(u) ==
    /\ todo' = todo \ {u}
    /\ stage' = IF todo' = {} THEN "assign" ELSE "merge"
    /\ UNCHANGED <<prog, timing, waiting, cursor, packed>>

StartPlan(u) ==
    /\ stage = "merge" /\ NextUse(u)
    /\ \A i \in Indices : ~Joins(u, i)
    /\ plans' = Append(plans,
           [page      |-> prog.uses[u].page,
            uses      |-> {u},
            ready     |-> prog.uses[u].ready,
            release   |-> prog.uses[u].release,
            runtime   |-> prog.uses[u].runtime,
            bytes     |-> prog.bytes[prog.uses[u].page],
            residency |-> Unassigned])
    /\ Taken(u)

JoinedToEnd(plan, u) ==
    [plan EXCEPT !.release = prog.uses[u].release,
                 !.runtime = @ \/ prog.uses[u].runtime,
                 !.uses    = @ \cup {u},
                 !.bytes   = @ + prog.bytes[prog.uses[u].page]]

\* The bytes are added although the page is transported once.
Joined(plan, u) ==
    [plan EXCEPT !.ready   = Smaller(@, prog.uses[u].ready),
                 !.release = Larger(@, prog.uses[u].release),
                 !.runtime = @ \/ prog.uses[u].runtime,
                 !.uses    = @ \cup {u},
                 !.bytes   = @ + prog.bytes[prog.uses[u].page]]

JoinPlan(u, i) ==
    /\ stage = "merge" /\ NextUse(u)
    /\ Joins(u, i) /\ \A k \in Indices : Joins(u, k) => i <= k
    /\ plans' = [plans EXCEPT ![i] = Joined(@, u)]
    /\ Taken(u)

(***************************************************************************)
(* assign_disjoint_residency_pages: the first residency page of the bank   *)
(* with room for the plan, or a new one behind the last.  The pages of a   *)
(* bank are made in the order of their numbers.  The code breaks ties by   *)
(* the index of the page in its binding, the model in any way.             *)
(***************************************************************************)
Open == {i \in Indices : plans[i].residency = Unassigned}

AssignBefore(i, j) ==
    \/ plans[i].ready < plans[j].ready
    \/ plans[i].ready = plans[j].ready /\ BankOf(i) < BankOf(j)

Residents(bank, r) == {j \in Indices : BankOf(j) = bank /\ plans[j].residency = r}

HasRoomSameRows(i, r) ==
    \A j \in Residents(BankOf(i), r) : Regions(i) # Regions(j)

HasRoom(i, r) == \A j \in Residents(BankOf(i), r) : ~Overlap(i, j)

AssignResidency(i) ==
    /\ stage = "assign"
    /\ i \in Open /\ \A j \in Open : ~AssignBefore(j, i)
    /\ plans' = [plans EXCEPT ![i].residency =
           Least({r \in 0 .. Len(plans) : HasRoom(i, r)})]
    /\ stage' = IF Open = {i} THEN "order" ELSE "assign"
    /\ UNCHANGED <<prog, todo, timing, waiting, cursor, packed>>

-----------------------------------------------------------------------------
(***************************************************************************)
(* schedule_weight_prefetches.                                             *)
(***************************************************************************)
\* The stable sort by ready_cycle.
LaterFirst(i, j) ==
    \/ plans[i].ready < plans[j].ready
    \/ plans[i].ready = plans[j].ready /\ i > j

StablyBefore(i, j) ==
    \/ plans[i].ready < plans[j].ready
    \/ plans[i].ready = plans[j].ready /\ i < j

SortedIndices ==
    {place \in [Indices -> Indices] :
        \A i, j \in Indices : i < j => StablyBefore(place[i], place[j])}

Arrange ==
    /\ stage = "order"
    /\ \E place \in SortedIndices : plans' = [i \in Indices |-> plans[place[i]]]
    /\ timing' = << >>
    /\ cursor' = 0
    /\ stage' = "reuse"
    /\ UNCHANGED <<prog, todo, waiting, packed>>

Reusers(i) == {j \in 1 .. (i - 1) : Overlap(i, j)}

\* Constants in the rows are gone when the page is needed at the latest.
ConstantEnds(i) ==
    {Smaller(e, plans[i].ready) : e \in UNION {prog.constants[c] : c \in Regions(i)}}

ScratchEnds(i) == {e \in prog.scratch[BankOf(i)] : e < plans[i].ready}

PreloadPrefix == \A j \in DOMAIN timing : timing[j].pre

CanPreload(i) ==
    /\ ~plans[i].runtime
    /\ ConstantEnds(i) = {}
    /\ Reusers(i) = {}
    /\ PreloadPrefix

ReusableAfterPrevious(i) ==
    Greatest({0} \cup ConstantEnds(i)
                 \cup {plans[j].release : j \in Reusers(i) \cap {i - 1}}
                 \cup (IF CanPreload(i) THEN {} ELSE ScratchEnds(i)))

\* The first cycle at which the rows may be written.
Reusable(i) ==
    Greatest({0} \cup ConstantEnds(i)
                 \cup {plans[j].release : j \in Reusers(i)}
                 \cup (IF CanPreload(i) THEN {} ELSE ScratchEnds(i)))

DecideReuse(i) ==
    /\ stage = "reuse"
    /\ i = Len(timing) + 1
    /\ timing' = Append(timing,
           [pre      |-> CanPreload(i),
            reusable |-> Reusable(i),
            start    |-> 0,
            end      |-> IF CanPreload(i) THEN Duration(plans[i].bytes, Lanes) ELSE 0,
            arm      |-> 0,
            streams  |-> {}])
    /\ waiting' = {j \in Indices : i = Len(plans) /\ ~timing'[j].pre}
    /\ stage' = IF i < Len(plans) THEN "reuse"
                ELSE IF waiting' = {} THEN "done" ELSE "launch"
    /\ UNCHANGED <<prog, todo, plans, cursor, packed>>

-----------------------------------------------------------------------------
(***************************************************************************)
(* The launches, in the order of the plans.  With the common barriers the  *)
(* transports do not consume logical cycles, and the cursor stays at 0.    *)
(***************************************************************************)
NextLaunch(i) == stage = "launch" /\ waiting # {} /\ i = Least(waiting)

HasWindow(i) == plans[i].page \in DOMAIN prog.window
Windowed(i) == HasWindow(i) /\ ~prog.overlap
WindowBegin(i) == prog.window[plans[i].page][1]
WindowEnd(i) == prog.window[plans[i].page][2]

\* ingressEnd: a window that ends behind the consumer is cut off there.
IngressEnd(i) == Smaller(WindowEnd(i), plans[i].ready)

\* The second half of the code's test, ingressEnd > ready_cycle, is never true.
WindowValid(i) == Windowed(i) => WindowBegin(i) < IngressEnd(i)

InWindow(i, cycle) == IF Windowed(i) THEN Larger(cycle, WindowBegin(i)) ELSE cycle

EarliestInWindow(i) ==
    IF Windowed(i) THEN InWindow(i, timing[i].reusable)
    ELSE Larger(timing[i].reusable, cursor)

Earliest(i) == InWindow(i, Larger(timing[i].reusable, cursor))

ArmInOrder(i) == InWindow(i, Larger(timing[i].reusable, cursor))

\* A page whose launch is behind its consumer anyway is armed as soon as its
\* rows are free: it must stand in the MEM queue in front of that consumer.
ArmCycle(i) ==
    InWindow(i, IF cursor > plans[i].ready
                THEN timing[i].reusable
                ELSE Larger(timing[i].reusable, cursor))

ChoosesStreams(i) == DOMAIN prog.streams # {} /\ ~HasWindow(i) /\ ~prog.overlap

Scheduled(i, start, streams) ==
    LET end == start + Duration(plans[i].bytes, Cardinality(streams))
    IN  /\ timing' = [timing EXCEPT ![i] =
               [@ EXCEPT !.start = start, !.end = end,
                         !.arm = ArmCycle(i), !.streams = streams]]
        /\ cursor' = IF prog.common THEN cursor ELSE end
        /\ waiting' = waiting \ {i}
        /\ stage' = IF waiting' = {} THEN "done" ELSE "launch"
        /\ UNCHANGED <<prog, todo, plans, packed>>

\* The last streams, which no ordinary instruction is to use.
ReservedStreams == (StreamCount - Lanes) .. (StreamCount - 1)

LaunchReserved(i) ==
    /\ NextLaunch(i) /\ WindowValid(i) /\ ~ChoosesStreams(i)
    /\ Scheduled(i, Earliest(i), ReservedStreams)

\* The highest streams whose last compiled use is over.
IdleAt(cycle) == {s \in StreamIds : prog.streams[s] <= cycle}
LanesAt(cycle) ==
    {s \in IdleAt(cycle) : Cardinality({t \in IdleAt(cycle) : t > s}) < Lanes}

CandidatesNow(i) == {c \in {Earliest(i)} : IdleAt(c) # {}}

Candidates(i) ==
    {c \in {Earliest(i)} \cup {prog.streams[s] : s \in StreamIds} :
        c >= Earliest(i) /\ IdleAt(c) # {}}

CandidateEnd(i, c) == c + Duration(plans[i].bytes, Cardinality(LanesAt(c)))

\* The earliest end wins, then the earliest start.
Preferred(i, c) ==
    \A d \in Candidates(i) :
        \/ CandidateEnd(i, c) < CandidateEnd(i, d)
        \/ CandidateEnd(i, c) = CandidateEnd(i, d) /\ c <= d

LaunchOnIdle(i) ==
    /\ NextLaunch(i) /\ ChoosesStreams(i)
    /\ \E c \in Candidates(i) : Preferred(i, c) /\ Scheduled(i, c, LanesAt(c))

\* "invalid compiler C2C ingress window", and "no ordinary West stream can
\* carry a C2C weight page".
Rejected(i) ==
    \/ ~WindowValid(i)
    \/ ChoosesStreams(i) /\ Candidates(i) = {}

Reject(i) ==
    /\ NextLaunch(i) /\ Rejected(i)
    /\ stage' = "rejected"
    /\ UNCHANGED <<prog, todo, plans, timing, waiting, cursor, packed>>

\* build_executable_weight_pages and emit_compiled_mem_write_sync put in the
\* exact bytes and have the timing computed again.
Repack ==
    /\ stage = "done" /\ ~packed
    /\ \E bytes \in [Indices -> PackedBytes] :
           plans' = [i \in Indices |-> [plans[i] EXCEPT !.bytes = bytes[i]]]
    /\ packed' = TRUE
    /\ stage' = "order"
    /\ UNCHANGED <<prog, todo, timing, waiting, cursor>>

-----------------------------------------------------------------------------
Init ==
    /\ prog \in Programs
    /\ stage = "merge"
    /\ todo = DOMAIN prog.uses
    /\ plans = << >>
    /\ timing = << >>
    /\ waiting = {}
    /\ cursor = 0
    /\ packed = FALSE

Next ==
    \/ \E u \in todo : StartPlan(u) \/ \E i \in Indices : JoinPlan(u, i)
    \/ \E i \in Indices :
           \/ AssignResidency(i) \/ DecideReuse(i)
           \/ LaunchReserved(i) \/ LaunchOnIdle(i) \/ Reject(i)
    \/ Arrange
    \/ Repack

Spec == Init /\ [][Next]_vars

-----------------------------------------------------------------------------
(***************************************************************************)
(* Properties.                                                             *)
(***************************************************************************)
Stages == {"merge", "assign", "order", "reuse", "launch", "done", "rejected"}

PlanType ==
    [page : Pages, uses : SUBSET DOMAIN prog.uses, ready : Cycles, release : Cycles,
     runtime : BOOLEAN, bytes : Nat, residency : Nat \cup {Unassigned}]

TimingType ==
    [pre : BOOLEAN, reusable : Cycles, start : Nat, end : Nat, arm : Nat,
     streams : SUBSET StreamIds]

TypeOK ==
    /\ prog \in ProgramType
    /\ stage \in Stages
    /\ todo \subseteq DOMAIN prog.uses
    /\ plans \in Seq(PlanType)
    /\ timing \in Seq(TimingType)
    /\ Len(timing) <= Len(plans)
    /\ waiting \subseteq Indices
    /\ cursor \in Nat
    /\ packed \in BOOLEAN

\* The plans whose launch is decided.
Launched ==
    {i \in DOMAIN timing : stage # "reuse" /\ i \notin waiting /\ ~timing[i].pre}

\* Every use that was taken is in exactly one plan, which carries its page and
\* keeps it from the first consumer of the use to the last.
UsesCovered ==
    \A u \in DOMAIN prog.uses \ todo :
        \E i \in Indices :
            /\ \A j \in Indices : u \in plans[j].uses <=> j = i
            /\ plans[i].page = prog.uses[u].page
            /\ plans[i].ready <= prog.uses[u].ready
            /\ prog.uses[u].release <= plans[i].release
            /\ prog.uses[u].runtime => plans[i].runtime

\* A page is not transported again while a plan still keeps it: of two plans
\* of one page the first has released it before the second needs it.
WindowsApart ==
    \A i, j \in Indices :
        i < j /\ plans[i].page = plans[j].page => plans[i].release < plans[j].ready

\* The parts of one residency page stand in the bank together, so that one
\* hardware page may hold them (residency_page_index).
ResidencyDisjoint ==
    \A i, j \in Indices :
        /\ i # j /\ BankOf(i) = BankOf(j)
        /\ plans[i].residency = plans[j].residency
        /\ plans[i].residency # Unassigned
        => ~Overlap(i, j)

\* A page that takes rows of an earlier page is not loaded before execution,
\* and is neither launched nor armed before the earlier page is released.
\* It is what the runtime checks of the launch cycles of a linked program
\* ("common page load precedes physical SRAM reuse").
ReuseSafe ==
    \A j \in DOMAIN timing : \A i \in Reusers(j) :
        /\ ~timing[j].pre
        /\ j \in Launched =>
               plans[i].release <= timing[j].start /\ plans[i].release <= timing[j].arm

\* Without the common barriers a hemisphere has one transport at a time, in
\* the order of the plans: the sort by start_cycle that the compiler and the
\* session put the launches into gives the same order.
OneTransport ==
    \A i, j \in Launched :
        ~prog.common /\ i < j => timing[i].end <= timing[j].start

\* MEM is armed for a page by the time of its launch, and in front of its
\* first consumer, if only its rows can be free by then; a MEM queue armed
\* behind the consumer would stop the consumer for good.
ArmedInTime ==
    \A j \in Launched :
        /\ timing[j].arm <= timing[j].start
        /\ (\A i \in Reusers(j) : plans[i].release <= plans[j].ready)
               => timing[j].arm <= plans[j].ready

\* A page travels on at least one and at most Lanes streams, no sooner than
\* their last ordinary use when that is known; the error "no ordinary West
\* stream can carry a C2C weight page" is never met, and a program is rejected
\* only for a window in which nothing is left before the consumer.
StreamsFound ==
    /\ \A j \in Launched :
           /\ Cardinality(timing[j].streams) \in 1 .. Lanes
           /\ ChoosesStreams(j) =>
                  \A s \in timing[j].streams : prog.streams[s] <= timing[j].start
    /\ stage = "rejected" => ~WindowValid(Least(waiting))

\* Computing the timing again keeps the order of the plans: the callers pair
\* the plans with what they packed by position.
PlansKeepOrder == [][stage = "order" /\ stage' = "reuse" => plans' = plans]_vars

-----------------------------------------------------------------------------
(***************************************************************************)
(* The inductive invariant.                                                *)
(***************************************************************************)
\* Timing is decided for all plans before the first launch, and the plans
\* that wait for theirs are not loaded before execution.
StagesInOrder ==
    /\ stage \in {"merge", "assign"} => timing = << >>
    /\ stage \in {"launch", "done", "rejected"} => Len(timing) = Len(plans)
    /\ stage \notin {"launch", "rejected"} => waiting = {}
    /\ stage # "merge" => todo = {}
    /\ \A j \in waiting : j \in DOMAIN timing /\ ~timing[j].pre

\* Plans are made in the order of their first consumers.
PlansSorted ==
    /\ \A i, j \in Indices : i < j => plans[i].ready <= plans[j].ready
    /\ \A i \in Indices : \A u \in todo : plans[i].ready <= prog.uses[u].ready

UsesTaken == \A i \in Indices : plans[i].uses \cap todo = {}

\* There are never more residency pages than plans that are in one.
ResidencyCounted ==
    /\ stage = "merge" => Open = Indices
    /\ \A i \in Indices \ Open :
           plans[i].residency < Cardinality(Indices \ Open)

\* reusableCycles is behind every earlier use of the rows, and behind the
\* consumer only if such a use is.
ReusableKnown ==
    \A j \in DOMAIN timing :
        /\ \A i \in Reusers(j) :
               ~timing[j].pre /\ plans[i].release <= timing[j].reusable
        /\ (\A i \in Reusers(j) : plans[i].release <= plans[j].ready)
               => timing[j].reusable <= plans[j].ready

LaunchesInOrder ==
    \A j \in Launched :
        /\ timing[j].reusable <= timing[j].arm
        /\ timing[j].reusable <= timing[j].start
        /\ ~prog.common => timing[j].end <= cursor
        /\ \A i \in waiting : j < i

IInv ==
    /\ TypeOK
    /\ StagesInOrder
    /\ PlansSorted
    /\ UsesTaken
    /\ UsesCovered
    /\ WindowsApart
    /\ ResidencyCounted
    /\ ResidencyDisjoint
    /\ ReusableKnown
    /\ LaunchesInOrder
    /\ OneTransport
    /\ ArmedInTime
    /\ StreamsFound

=============================================================================
