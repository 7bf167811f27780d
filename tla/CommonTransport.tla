-------------------------- MODULE CommonTransport --------------------------
(***************************************************************************)
(* Weight paging under the common barrier protocol of CModelRuntime        *)
(* (src/runtime/src/runtime/cmodel_runtime.cpp).                           *)
(*                                                                         *)
(* A loaded program runs on two clocks.  The physical clock advances on    *)
(* every step_physical; the logical clock L (executed_cycles_) only on a   *)
(* step whose compute dispatch was enabled.  While L runs, the runtime     *)
(* launches page transports (DDR -> DMA -> RX -> MEM bank -> SRAM) one     *)
(* after another in an order fixed when the program is loaded, and tells   *)
(* the ICU about a page only when every vector of it is in SRAM and the    *)
(* transport path has drained.  The ICU holds L at the stop cycle of a     *)
(* barrier until all pages of that barrier are complete.                   *)
(*                                                                         *)
(* The chip (ICU, C2C/DMA, MEM, program loader) is not in this repository; *)
(* it is modelled from the way cmodel_runtime.cpp drives it and from       *)
(* src/docs/common_barrier_validation.zh-CN.md.                            *)
(***************************************************************************)
EXTENDS Integers, Sequences, FiniteSets

CONSTANTS
    PageIds,        \* launch event ids of the page transports
    Sides,          \* hemispheres
    Banks,          \* physical MEM queues, one per (hemisphere, slice, bank)
    SideOf,         \* the hemisphere of a MEM queue
    Rows,           \* visible SRAM rows of one bank are 0..Rows-1
    Programs,       \* the linked programs a host may load
    MaxGeneration   \* bound on the number of loads

Kinds == {"dma", "rx"}
Channels == Sides \X Kinds

(***************************************************************************)
(* A linked program.  Each page has its launch cycle E, the stop cycle C   *)
(* of its barrier, the cycles [ready, release) in which computation reads  *)
(* it, and per bank the first row and the number of vectors it writes.     *)
(* control gives the WaitEvent order of the DMA and RX queues, mem the     *)
(* packet order of the MEM transport queues.                               *)
(***************************************************************************)
ProgramType ==
    [pages     : SUBSET PageIds,
     launch    : [PageIds -> Nat],
     stop      : [PageIds -> Nat],
     ready     : [PageIds -> Nat],
     release   : [PageIds -> Nat],
     base      : [PageIds -> [Banks -> Nat]],
     count     : [PageIds -> [Banks -> Nat]],
     control   : [Channels -> Seq(PageIds)],
     mem       : [Banks -> Seq(PageIds)],
     max_cycle : Nat]

ASSUME PageIdsAssumption == PageIds \subseteq Nat /\ IsFiniteSet(PageIds)
ASSUME SidesAssumption == SideOf \in [Banks -> Sides]
ASSUME BoundsAssumption == Rows \in Nat /\ MaxGeneration \in Nat
ASSUME ProgramsAssumption == Programs \subseteq ProgramType
\* The compiler gives every page at least one cycle of use: the release of an
\* interval is the exclusive end of its last consumer (ScheduleToCommand.cpp).
ASSUME WindowsAssumption ==
    \A prog \in Programs : \A p \in prog.pages : prog.ready[p] < prog.release[p]

-----------------------------------------------------------------------------
(***************************************************************************)
(* Load-time validation: validate_binary_barriers and                      *)
(* configure_common_transport.                                             *)
(***************************************************************************)
Uses(prog, p, side) == \E b \in Banks : SideOf[b] = side /\ prog.count[p][b] > 0

Overlap(prog, p, q) ==
    \E b \in Banks : \E i \in 0 .. prog.count[p][b] - 1 :
        \E j \in 0 .. prog.count[q][b] - 1 :
            prog.base[p][b] + i = prog.base[q][b] + j

\* Order of the prefetch plans: ready cycle, then identity.
PlannedBefore(prog, p, q) ==
    \/ prog.ready[p] < prog.ready[q]
    \/ prog.ready[p] = prog.ready[q] /\ p < q

BarriersValid(prog) ==
    \A p \in prog.pages :
        /\ prog.launch[p] <= prog.stop[p]
        /\ prog.stop[p] <= prog.ready[p]
        /\ prog.ready[p] <= prog.release[p]
        /\ prog.stop[p] <= prog.max_cycle

\* Mutant: reuse is allowed as soon as the old page is ready.
ReuseFromReady(prog) ==
    \A p, q \in prog.pages :
        PlannedBefore(prog, p, q) /\ Overlap(prog, p, q)
            => prog.ready[p] <= prog.launch[q]

StorageReuseSafe(prog) ==
    \A p, q \in prog.pages :
        PlannedBefore(prog, p, q) /\ Overlap(prog, p, q)
            => prog.release[p] <= prog.launch[q]

\* Every row a page writes is visible SRAM, and it writes at least one.
SegmentsInRange(prog) ==
    \A p \in prog.pages :
        /\ \E b \in Banks : prog.count[p][b] > 0
        /\ \A b \in Banks : prog.base[p][b] + prog.count[p][b] <= Rows

\* No launch WAIT is orphaned or repeated, and no page misses its DMA/RX WAIT.
ControlLinked(prog) ==
    \A c \in Channels :
        LET s == prog.control[c] IN
        /\ \A i \in DOMAIN s : s[i] \in prog.pages
        /\ \A i, j \in DOMAIN s : s[i] = s[j] => i = j
        /\ \A p \in prog.pages :
               Uses(prog, p, c[1]) => \E i \in DOMAIN s : s[i] = p

\* Each MEM packet belongs to a segment of a page, and each segment has one.
PacketsLinked(prog) ==
    \A b \in Banks :
        LET s == prog.mem[b] IN
        /\ \A i \in DOMAIN s : s[i] \in prog.pages /\ prog.count[s[i]][b] > 0
        /\ \A i, j \in DOMAIN s : s[i] = s[j] => i = j
        /\ \A p \in prog.pages :
               prog.count[p][b] > 0 => \E i \in DOMAIN s : s[i] = p

Valid(prog) ==
    /\ BarriersValid(prog)
    /\ StorageReuseSafe(prog)
    /\ SegmentsInRange(prog)
    /\ ControlLinked(prog)
    /\ PacketsLinked(prog)

(***************************************************************************)
(* The order of common_transports_.  A queue that serves page p right      *)
(* before page q makes p a predecessor of q.                               *)
(***************************************************************************)
Adjacent(s, p, q) == \E i \in 1 .. Len(s) - 1 : s[i] = p /\ s[i + 1] = q

\* Mutant: MEM bank ownership is left out of the dependency graph.
ControlPredecessor(prog, p, q) ==
    p # q /\ \E c \in Channels : Adjacent(prog.control[c], p, q)

Predecessor(prog, p, q) ==
    /\ p # q
    /\ \/ \E c \in Channels : Adjacent(prog.control[c], p, q)
       \/ \E b \in Banks : Adjacent(prog.mem[b], p, q)

\* The sort key std::tie(stop_cycle, launch_event).
KeyBefore(prog, p, q) ==
    \/ prog.stop[p] < prog.stop[q]
    \/ prog.stop[p] = prog.stop[q] /\ p < q

(***************************************************************************)
(* rank[p] is the position of p in `ordered' when the sorting loop ends    *)
(* normally: each page comes after its predecessors, it has the least key  *)
(* of the pages that were ready when it was picked, and stop cycles never  *)
(* decrease along the order.  The loop throws exactly when no such rank    *)
(* exists.                                                                 *)
(***************************************************************************)
PickedBefore(prog, rank, p) == {q \in prog.pages : rank[q] < rank[p]}

ReadyAfter(prog, done, q) ==
    /\ q \notin done
    /\ \A r \in prog.pages : Predecessor(prog, r, q) => r \in done

\* Mutant: the check that stop cycles never decrease is missing.
IsTopologicalOrder(prog, rank) ==
    /\ \A p, q \in prog.pages : rank[p] = rank[q] => p = q
    /\ \A p \in prog.pages :
           LET done == PickedBefore(prog, rank, p) IN
           /\ ReadyAfter(prog, done, p)
           /\ \A q \in prog.pages \ {p} :
                  ReadyAfter(prog, done, q) => KeyBefore(prog, p, q)

IsTransportOrder(prog, rank) ==
    /\ \A p, q \in prog.pages : rank[p] = rank[q] => p = q
    /\ \A p \in prog.pages :
           LET done == PickedBefore(prog, rank, p) IN
           /\ ReadyAfter(prog, done, p)
           /\ \A q \in prog.pages \ {p} :
                  ReadyAfter(prog, done, q) => KeyBefore(prog, p, q)
    /\ \A p, q \in prog.pages : rank[p] < rank[q] => prog.stop[p] <= prog.stop[q]

Ranks(prog) == [prog.pages -> 1 .. Cardinality(prog.pages)]

-----------------------------------------------------------------------------
VARIABLES
    loaded,       \* task_loaded_
    program,      \* the program of the current task
    order,        \* common_transports_: the rank of each page
    generation,   \* execution_generation_
    L,            \* executed_cycles_
    launched,     \* CommonTransportPage::launched
    committed,    \* CommonTransportPage::committed
    completions,  \* completions latched by the ICU: <<generation, page>>
    vectors,      \* vectors of each page in each bank already in SRAM
    sram,         \* which <<generation, page>> wrote each row last
    transient,    \* transport data still on its way through the chip
    timed,        \* timed_program_load_
    inputs,       \* inputs_ready()
    dependency,   \* program_start_dependency_checker_()
    images,       \* program_loader().all_images_committed()
    started       \* program_loader().started()

pageVars == <<launched, committed, completions, vectors, sram, transient>>
startVars == <<timed, inputs, dependency, images, started>>
vars == <<loaded, program, order, generation, L, pageVars, startVars>>

None == <<0, 0>>
Contents == (0 .. MaxGeneration) \X (PageIds \cup {0})

\* The program before any load: no pages, nothing to run.
EmptyProgram ==
    [pages     |-> {},
     launch    |-> [p \in PageIds |-> 0],
     stop      |-> [p \in PageIds |-> 0],
     ready     |-> [p \in PageIds |-> 0],
     release   |-> [p \in PageIds |-> 0],
     base      |-> [p \in PageIds |-> [b \in Banks |-> 0]],
     count     |-> [p \in PageIds |-> [b \in Banks |-> 0]],
     control   |-> [c \in Channels |-> << >>],
     mem       |-> [b \in Banks |-> << >>],
     max_cycle |-> 0]

Init ==
    /\ loaded = FALSE
    /\ program = EmptyProgram
    /\ order = << >>
    /\ generation = 0
    /\ L = 0
    /\ launched = {}
    /\ committed = {}
    /\ completions = {}
    /\ vectors = [p \in PageIds |-> [b \in Banks |-> 0]]
    /\ sram = [b \in Banks |-> [r \in 0 .. Rows - 1 |-> None]]
    /\ transient = FALSE
    /\ timed = FALSE
    /\ inputs = FALSE
    /\ dependency = FALSE
    /\ images = FALSE
    /\ started = FALSE

-----------------------------------------------------------------------------
\* Every cycle 0..max_cycle has been dispatched and no transport is left.
Finished ==
    /\ L > program.max_cycle
    /\ committed = program.pages
    /\ ~transient

CanLoad == ~loaded \/ Finished

(***************************************************************************)
(* load_impl: validation and the transport order come first and leave the  *)
(* running task alone when they throw; then a new generation starts with   *)
(* fresh tables.  SRAM keeps its content.                                  *)
(***************************************************************************)
Load(prog, isTimed) ==
    /\ CanLoad
    /\ generation < MaxGeneration
    /\ Valid(prog)
    /\ \E rank \in Ranks(prog) :
           /\ IsTransportOrder(prog, rank)
           /\ order' = rank
    /\ program' = prog
    /\ loaded' = TRUE
    /\ generation' = generation + 1
    /\ L' = 0
    /\ launched' = {}
    /\ committed' = {}
    /\ vectors' = [p \in PageIds |-> [b \in Banks |-> 0]]
    /\ transient' = FALSE
    /\ timed' = isTimed
    /\ inputs' = FALSE
    /\ dependency' = FALSE
    /\ images' = ~isTimed
    /\ started' = ~isTimed
    /\ UNCHANGED <<completions, sram>>

\* upload_input by the host, until inputs_ready() holds.
UploadInputs ==
    /\ loaded /\ timed /\ ~inputs
    /\ inputs' = TRUE
    /\ UNCHANGED <<loaded, program, order, generation, L, pageVars,
                   timed, dependency, images, started>>

\* The host's start dependency (its weight pages) becomes true.
StartDependencyMet ==
    /\ loaded /\ timed /\ ~dependency
    /\ dependency' = TRUE
    /\ UNCHANGED <<loaded, program, order, generation, L, pageVars,
                   timed, inputs, images, started>>

-----------------------------------------------------------------------------
(***************************************************************************)
(* advance_common_transport as a function of what it reads: the logical    *)
(* cycle, the flags of the pages, the vectors in SRAM and whether the      *)
(* transport path is drained.  The loop passes over pages that are         *)
(* committed or can be committed now; at the first other page it stops,    *)
(* launching that page if its launch cycle has come.                       *)
(***************************************************************************)
AllVectors(p, vec) == \A b \in Banks : vec[p][b] = program.count[p][b]

\* Mutant: the drain of the transport path is not awaited.
PassesUndrained(p, la, co, vec, drained) ==
    \/ p \in co
    \/ p \in la /\ AllVectors(p, vec)

\* Mutant: one complete bank is taken for the whole page.
PassesAnyBank(p, la, co, vec, drained) ==
    \/ p \in co
    \/ /\ p \in la
       /\ \E b \in Banks : vec[p][b] = program.count[p][b] /\ vec[p][b] > 0
       /\ drained

Passes(p, la, co, vec, drained) ==
    \/ p \in co
    \/ p \in la /\ AllVectors(p, vec) /\ drained

PassedUpTo(p, la, co, vec, drained) ==
    \A q \in program.pages :
        order[q] <= order[p] => Passes(q, la, co, vec, drained)

PassedBefore(p, la, co, vec, drained) ==
    \A q \in program.pages :
        order[q] < order[p] => Passes(q, la, co, vec, drained)

Commits(la, co, vec, drained) ==
    {p \in program.pages : PassedUpTo(p, la, co, vec, drained)}

\* Mutant: a page is launched as soon as its predecessor is committed.
LaunchesEarly(l, la, co, vec, drained) ==
    {p \in program.pages :
        p \notin la \cup co /\ PassedBefore(p, la, co, vec, drained)}

\* Mutant: a page is launched only at its launch cycle exactly.
LaunchesOnTime(l, la, co, vec, drained) ==
    {p \in program.pages :
        /\ p \notin la \cup co
        /\ PassedBefore(p, la, co, vec, drained)
        /\ program.launch[p] = l}

Launches(l, la, co, vec, drained) ==
    {p \in program.pages :
        /\ p \notin la \cup co
        /\ PassedBefore(p, la, co, vec, drained)
        /\ program.launch[p] <= l}

\* A timed program moves no page before all its images are in i-MEM.
AdvanceLaunched(l, la, co, vec, drained, im) ==
    IF im THEN la \cup Launches(l, la, co, vec, drained) ELSE la

AdvanceCommitted(la, co, vec, drained, im) ==
    IF im THEN co \cup Commits(la, co, vec, drained) ELSE co

-----------------------------------------------------------------------------
(***************************************************************************)
(* The physical transport.  A DMA or RX queue works its launch domains in  *)
(* order and blocks at the WAIT of a page that has not been notified on    *)
(* its side; a MEM queue works its packets in order.                       *)
(***************************************************************************)
Ahead(s, p) == {s[i] : i \in {i \in DOMAIN s : \E j \in DOMAIN s : i < j /\ s[j] = p}}

DoneOnSide(q, side, la, vec) ==
    /\ q \in la
    /\ Uses(program, q, side)
    /\ \A b \in Banks : SideOf[b] = side => vec[q][b] = program.count[q][b]

CanArrive(p, b, la, vec) ==
    /\ p \in la
    /\ vec[p][b] < program.count[p][b]
    /\ \A k \in Kinds :
           \A q \in Ahead(program.control[<<SideOf[b], k>>], p) :
               DoneOnSide(q, SideOf[b], la, vec)
    /\ \A q \in Ahead(program.mem[b], p) : vec[q][b] = program.count[q][b]

Arrivals(la, vec) ==
    {pb \in program.pages \X Banks : CanArrive(pb[1], pb[2], la, vec)}

\* The SRAM write of one vector per arriving <<page, bank>>.
VectorsAfter(arrived) ==
    [p \in PageIds |-> [b \in Banks |->
        vectors[p][b] + IF <<p, b>> \in arrived THEN 1 ELSE 0]]

Writes(p, b, r) == r = program.base[p][b] + vectors[p][b]

SramAfter(arrived) ==
    [b \in Banks |-> [r \in 0 .. Rows - 1 |->
        IF \E p \in program.pages : <<p, b>> \in arrived /\ Writes(p, b, r)
        THEN <<generation,
               CHOOSE p \in program.pages : <<p, b>> \in arrived /\ Writes(p, b, r)>>
        ELSE sram[b][r]]]

\* The ICU dispatches at L only if every page of a barrier at L is complete.
BarrierOpen(done) ==
    \A p \in program.pages : program.stop[p] = L => <<generation, p>> \in done

\* Mutant: a timed program starts before its cycle-zero pages.
NoInitialPages(co) == co \subseteq program.pages

InitialPagesReady(co) ==
    \A p \in program.pages : program.stop[p] = 0 => p \in co

\* Mutant: a completion is not tagged with its generation.
CompletionsUntagged(co) == (0 .. MaxGeneration) \X co

Completions(co) == {generation} \X co

LaunchedBeforeTick ==
    AdvanceLaunched(L, launched, committed, vectors, ~transient, images)

PossibleArrivals == Arrivals(LaunchedBeforeTick, vectors)

(***************************************************************************)
(* step_physical: advance the transports, open or close program issue, let *)
(* the chip work for one physical cycle (arrivals, draining and the        *)
(* program loader are its nondeterministic part), advance the transports   *)
(* again, and count a logical cycle if dispatch was enabled.               *)
(***************************************************************************)
Tick(arrived, drains, loads) ==
    LET la1 == LaunchedBeforeTick
        co1 == AdvanceCommitted(launched, committed, vectors, ~transient, images)
        inputReady == ~timed \/ inputs
        dependenciesReady ==
            ~timed \/ (inputReady /\ (started \/ (InitialPagesReady(co1) /\ dependency)))
        starts == started \/ (dependenciesReady /\ images)
        enabled == dependenciesReady /\ starts
                   /\ BarrierOpen(completions \cup Completions(co1))
    IN
    /\ loaded
    /\ L <= program.max_cycle
    /\ vectors' = VectorsAfter(arrived)
    /\ sram' = SramAfter(arrived)
    /\ transient' = (arrived # {} \/ (transient /\ ~drains))
    /\ images' = (images \/ loads)
    /\ started' = starts
    /\ launched' = AdvanceLaunched(L, la1, co1, vectors', ~transient', images')
    /\ committed' = AdvanceCommitted(la1, co1, vectors', ~transient', images')
    /\ completions' = completions \cup Completions(committed')
    /\ L' = IF enabled THEN L + 1 ELSE L
    /\ UNCHANGED <<loaded, program, order, generation, timed, inputs, dependency>>

StepPhysical ==
    \E arrived \in SUBSET PossibleArrivals :
        \E drains, loads \in BOOLEAN : Tick(arrived, drains, loads)

Next ==
    \/ \E prog \in Programs, isTimed \in BOOLEAN : Load(prog, isTimed)
    \/ UploadInputs
    \/ StartDependencyMet
    \/ StepPhysical

Spec == Init /\ [][Next]_vars

(***************************************************************************)
(* Fairness.  run_cycles calls step_physical until its logical budget is   *)
(* used; the DDR and C2C path delivers every vector it can deliver, drains *)
(* and loads the program images in finite time; the host uploads the       *)
(* inputs of a timed task and its start dependency comes true.             *)
(***************************************************************************)
DeliverTo(b) ==
    \E arrived \in SUBSET PossibleArrivals :
        /\ \E p \in program.pages : <<p, b>> \in arrived
        /\ \E drains, loads \in BOOLEAN : Tick(arrived, drains, loads)

Drain == transient /\ \E loads \in BOOLEAN : Tick({}, TRUE, loads)

ImagesCommit ==
    /\ ~images
    /\ \E arrived \in SUBSET PossibleArrivals, drains \in BOOLEAN :
           Tick(arrived, drains, TRUE)

Fairness ==
    /\ WF_vars(StepPhysical)
    /\ \A b \in Banks : WF_vars(DeliverTo(b))
    /\ WF_vars(Drain)
    /\ WF_vars(ImagesCommit)
    /\ WF_vars(UploadInputs)
    /\ WF_vars(StartDependencyMet)

FairSpec == Spec /\ Fairness

-----------------------------------------------------------------------------
(* Properties.                                                             *)

TypeOK ==
    /\ loaded \in BOOLEAN
    /\ program \in ProgramType
    /\ order \in [program.pages -> Nat]
    /\ generation \in 0 .. MaxGeneration
    /\ L \in Nat
    /\ launched \subseteq program.pages
    /\ committed \subseteq program.pages
    /\ completions \subseteq (0 .. MaxGeneration) \X PageIds
    /\ vectors \in [PageIds -> [Banks -> Nat]]
    /\ sram \in [Banks -> [0 .. Rows - 1 -> Contents]]
    /\ transient \in BOOLEAN
    /\ timed \in BOOLEAN
    /\ inputs \in BOOLEAN
    /\ dependency \in BOOLEAN
    /\ images \in BOOLEAN
    /\ started \in BOOLEAN

InFlight == launched \ committed

(***************************************************************************)
(* Computation never gets past a stop cycle before all pages of that       *)
(* barrier have all their vectors in SRAM, in this generation: neither an  *)
(* old completion nor a partial page releases the hold.                    *)
(***************************************************************************)
BarrierHolds ==
    \A p \in program.pages :
        program.stop[p] < L => /\ p \in committed
                               /\ AllVectors(p, vectors)
                               /\ <<generation, p>> \in completions

(***************************************************************************)
(* The lease of the overlap protocol: a page's transport occupies its MEM  *)
(* port and stream registers only while L is in [E, C], including the      *)
(* transport tail, and one page at a time.                                 *)
(***************************************************************************)
LeaseRespected ==
    /\ \A p \in InFlight : program.launch[p] <= L /\ L <= program.stop[p]
    /\ \A p, q \in InFlight : p = q
    /\ transient => InFlight # {}

(***************************************************************************)
(* No transport waits for a packet that cannot come: whatever a launched   *)
(* page still misses, its packets are at the head of their DMA, RX and MEM *)
(* queues.  ("An opposite MEM/RX ordering would otherwise deadlock in      *)
(* HOLD", configure_common_transport.)                                     *)
(***************************************************************************)
LaunchedCanArrive ==
    \A p \in InFlight, b \in Banks :
        vectors[p][b] < program.count[p][b] => CanArrive(p, b, launched, vectors)

\* Every launch WAIT of a DMA or RX queue belongs to a page with a segment on
\* that hemisphere.  configure_common_transport checks only the converse.
NoEmptyWait(prog) ==
    \A c \in Channels : \A i \in DOMAIN prog.control[c] :
        Uses(prog, prog.control[c][i], c[1])

(***************************************************************************)
(* No hold waits for a future frozen cycle: when L stands at the stop      *)
(* cycle of a page that is not committed, the page that is next in         *)
(* transport order may already be launched.                                *)
(***************************************************************************)
NoFrozenDependency ==
    \A p \in program.pages \ committed :
        program.stop[p] = L =>
            \A q \in program.pages \ committed :
                (\A r \in program.pages \ committed : order[q] <= order[r])
                    => program.launch[q] <= L

Holds(p) ==
    \A b \in Banks : \A i \in 0 .. program.count[p][b] - 1 :
        sram[b][program.base[p][b] + i] = <<generation, p>>

Live(p) == program.ready[p] <= L /\ L < program.release[p]

Dispatch == L' = L + 1

(***************************************************************************)
(* End to end: on every cycle that dispatches, each page that computation  *)
(* may read at that cycle is in SRAM complete and untouched, and the       *)
(* physical cycle does not overwrite a row of it.                          *)
(***************************************************************************)
ReadsSeeTheirPage ==
    [][Dispatch => \A p \in program.pages :
                       Live(p) => Holds(p) /\ Holds(p)']_vars

(***************************************************************************)
(* A timed program dispatches nothing before its images are in i-MEM, its  *)
(* inputs uploaded, its start dependency met and its cycle-zero pages      *)
(* committed.                                                              *)
(***************************************************************************)
StartsWithDependencies ==
    timed /\ (started \/ L > 0) =>
        /\ images
        /\ inputs
        /\ dependency
        /\ \A p \in program.pages : program.stop[p] = 0 => p \in committed

(***************************************************************************)
(* Every loaded task finishes: no barrier is held forever.                 *)
(***************************************************************************)
TaskFinishes == loaded ~> Finished

(***************************************************************************)
(* The inductive invariant.  FlagsOK says what every call of               *)
(* advance_common_transport relies on and preserves: pages are launched    *)
(* and committed in transport order, none before its launch cycle, and     *)
(* only complete pages are committed.                                      *)
(***************************************************************************)
FlagsOK(l, la, co, vec) ==
    /\ co \subseteq la
    /\ \A p \in la, q \in program.pages : order[q] < order[p] => q \in co
    /\ \A p \in la : program.launch[p] <= l
    /\ \A p \in co : AllVectors(p, vec)

ArrivalsCounted ==
    \A p \in program.pages, b \in Banks :
        /\ vectors[p][b] <= program.count[p][b]
        /\ vectors[p][b] > 0 => p \in launched

CompletionsExact ==
    /\ \A c \in completions : c[1] <= generation
    /\ \A p \in program.pages : <<generation, p>> \in completions <=> p \in committed

\* A written row keeps its vector until a page that may reuse it is launched.
RowsKept ==
    \A p \in program.pages, b \in Banks :
        \A i \in 0 .. vectors[p][b] - 1 :
            \/ sram[b][program.base[p][b] + i] = <<generation, p>>
            \/ \E q \in launched : program.release[p] <= program.launch[q]

IInv ==
    /\ TypeOK
    /\ Valid(program)
    /\ \A p \in program.pages : program.ready[p] < program.release[p]
    /\ IsTransportOrder(program, order)
    /\ FlagsOK(L, launched, committed, vectors)
    /\ \A p \in program.pages : program.stop[p] < L => p \in committed
    /\ transient => InFlight # {}
    /\ ArrivalsCounted
    /\ CompletionsExact
    /\ RowsKept
    /\ StartsWithDependencies

(***************************************************************************)
(* The paging runtime implements PagedExecution: a page is resident from   *)
(* its commit until a later page that shares rows with it is launched.     *)
(***************************************************************************)
Resident ==
    {p \in committed :
        \A q \in launched : Overlap(program, p, q) => order[q] <= order[p]}

Schedule == [ready |-> program.ready, release |-> program.release]

Pager == INSTANCE PagedExecution WITH
    task      <- generation,
    schedule  <- Schedule,
    pages     <- program.pages,
    resident  <- Resident,
    Schedules <- [ready : [PageIds -> Nat], release : [PageIds -> Nat]]

ImplementsPagedExecution == Pager!Spec
=============================================================================
