# Formal model of the FTLPU runtime

FTLPU-SOFTWARE is the compiler and the runtime of an LPU accelerator. The
compiler turns a tensor graph into per-queue instruction programs with a
fixed cycle for every instruction. The runtime (`src/runtime`) loads these
programs into a cycle-accurate chip model (the CModel, an external
dependency) and *pages* weights into SRAM while the program computes. This
directory holds TLA+ models of the runtime's own logic, TLC runs over small
instances, and TLAPS proofs for all instances.

Everything in the compiled program assumes exact timing; paging is what
makes timing uncertain. The core of the runtime is therefore the machinery
that lets computation with exact distances in cycles live with transports of
unknown latency: what the linker plans, what the loader accepts, how the
runtime executes it, and what a session of several invocations makes of it.

## 1. The system

| component | state | operations | interacts with |
|---|---|---|---|
| `CModelRuntime`, common barriers | pages with `launched`/`committed`, logical and physical cycle, execution generation, start conditions | `load_impl`, `upload_input`, `step_physical`, `advance_common_transport`, `run_logical_cycles` | chip (tick, tagged notifications, MEM commit counters), host |
| load-time validation | none | `validate_binary_barriers`, `validate_common_transport_packet_links`, `configure_common_transport`, `build_common_page_load_ranges` | decides what the machine above may be given |
| queue control (QCTL) | one release epoch per page event: completion, origin, next phase | `configure_queue_transport`, `advance_queue_releases`, `release_queue_phase` | ICU queues, commits of pages |
| transport order of queues | none | `validate_queue_transport_order` | called at load time |
| `ModelSession` | host values and overrides, values on the device, prefetched inputs, ready and in-flight page, packed and lookahead transfers, state backings | `load`, `set_input`, `set_state`, `reset_states`, `run`, `run_invocation` | runtime, pager, memory planner, chip |
| `C2cWeightPager` | the transfer in flight; while linking: page ranges, barriers, events | `enqueue`, `ready`, `schedule_common`, `coalesce_page_ready_events`, `finalize_schedule` | chip queues, session, calendar |
| weight prefetch plan | none; while planning: plans, `reusableCycles`, `nextTransportCursor`, `launchOrder` | `plan_weight_prefetches`, `assign_disjoint_residency_pages`, `schedule_weight_prefetches` | session, linker, load-time check |
| common overlap calendar | issues and spans per MEM queue and stream | `select`, `validate` | linker, load-time check |
| session memory planner | free SRAM intervals, placed tensors | `SessionMemoryPlanner::plan` | session |
| binary container, ICU images, model package, weight page builder | none (formats) | readers, writers, packers | all |
| compute i-MEM segments, i-MEM capacity | segments, current segment and boundary | `plan_compute_imem_segments`, `load_impl`, `reload_drained_compute_imem` | runtime |
| macro bitstream, FU-3D lowering | none | encode, decode, fold | loader |
| MoE router | none | top-k routing | host |
| traces, performance | logs | sampling | reports only |
| compiler dialects, schedule, command, target | an MLIR module | lowering passes | offline |

**What is hard.** Two clocks run at once: the physical one always, the
logical one only when dispatch is enabled. Transports complete in an order
and at times nobody planned. Host, program loader, DMA, RX and MEM queues,
ICU queues and the runtime interleave. Queues block at the head, so an
unlucky order of two queues blocks everything behind it. Completions are
latched by tag, so one that belongs to an older task, or a token given too
early, silently satisfies the wrong wait. SRAM rows are reused by other
pages under nothing but a load-time check. `PROJECT.json` lists these hazards
at their lines.

**What makes it correct.**

- common barriers: no cycle is dispatched past a barrier whose pages are
  partial, overwritten or of an older task; transports stay in the lease the
  calendar reserved; nothing holds forever; a timed task starts only with
  everything in place;
- queue control: no WAIT passes before its pages are complete; no token
  outlives the wait it was given for; planned distances between phases
  survive; one page transport at a time; no deadlock;
- session: every program reads current data, a page named ready is the page in
  SRAM, no program runs on top of a transfer, results survive until they are
  delivered, and the caller sees only what the model defines;
- linker: a lease is free of the computation and not later than it must be;
  each stop waits for exactly the pages linked there;
- prefetch plan: every use is served by one transport; nothing is loaded,
  launched or armed over rows that are still needed; transports follow each
  other on idle streams; MEM is armed ahead of the consumer; plans keep their
  order when they are scheduled again;
- memory planner: resident tensors share no row with one another or with a
  reserved one, and are refused only when nothing fits;
- i-MEM segments: a program cut into segments issues every packet when the
  whole program would, and no reload of an accepted program throws;
- codecs: decoding an encoded program gives the program (not modelled).

## 2. Modules

| module | what it is |
|---|---|
| `PagedExecution` | abstract specification: what paging promises to a computation |
| `CommonTransport` | the common-barrier protocol of `CModelRuntime`, its load-time checks and the chip as the runtime sees it; implements `PagedExecution` |
| `CommonTransportPrograms`, `MCCommonTransport`, `MCEmptyWait` | programs for TLC |
| `CommonTransportProofs` | proofs about `CommonTransport` |
| `QueueControl` | queue control: session launches, commits, phase releases, queues |
| `MCQueueControl`, `MCTransportOrder` | linked queue programs for TLC |
| `QueueControlProofs` | proofs about `QueueControl` |
| `WeightPrefetch` | the weight-page plan: merging of uses, residency pages, launch and arm cycles, streams |
| `MCWeightPrefetch` | programs for TLC |
| `WeightPrefetchProofs` | proofs about `WeightPrefetch` |
| `ModelData` | contents of tensors, values and states, told apart by how they came about |
| `ModelSemantics` | abstract specification: what a session promises its caller, without a device |
| `ModelSession` | the session, its pager as far as it uses it, and SRAM; implements `ModelSemantics` |
| `ModelSessionPlacement` | the placements under which a session is correct, as named assumptions |
| `MCModelSession`, `MCLookahead` | packages for TLC |
| `ModelSessionProofs` | proofs about control, pager, pages and data of `ModelSession`, and the refinement |
| `MemoryPlan` | placement of resident tensors |
| `MCMemoryPlan` | packages for TLC |
| `MemoryPlanProofs` | proofs about `MemoryPlan` |
| `CommonLinker` | overlap calendar, common stops and leases, joining of page events |
| `MCCommonLinker` | images and pages for TLC |
| `CommonLinkerProofs` | proofs about `CommonLinker` |
| `ComputeCode` | i-MEM programs as the segment planner reads them |
| `WholeProgram` | abstract specification: a program with i-MEM of any size |
| `ComputeSegments` | cutting a program at its drains and reloading it; implements `WholeProgram` |
| `MCComputeSegments` | programs for TLC |
| `ComputeSegmentsProofs` | proofs about `ComputeSegments`, and the refinement |
| `BoundedNumbers` | the least-number principle and its consequences, for the proof modules |

How they fit together, in the order a package goes through them:

- `MemoryPlan` places the residents of a package; `ModelSession` starts from
  such a placement. `ResidentsApart` in `ModelSessionPlacement` is what the
  planner shows of residents and named bindings, plus what it does not look
  at (see Findings, `plan_over_pages`).
- `WeightPrefetch` makes the transports of an executable from its uses,
  `CommonLinker` gives each its stop and lease, `CommonTransport` runs the
  linked program. `ReuseSafe` of the first is what `configure_common_transport`
  checks again of a linked program (`StorageReuseSafe`); `LeaseIsFree` of the
  second is why a transport may move inside the window `[launch, stop]` to
  which `LeaseRespected` of the third confines it.
- `CommonTransport` and `QueueControl` are alternatives for a loaded program
  (`validate_queue_sync_plan` rejects a binary with both), so they are not
  composed with each other. `ModelSession` takes from either that the pages
  inside an executable are in SRAM when the program reads them
  (`PagedExecution`), and models everything around the executable.
- `ComputeSegments` runs beside `CommonTransport`: a reload happens at the
  beginning of the same physical step, and the only thing it needs of the
  barriers is that they may hold the logical clock at any time.

They are not composed into one state machine: the interfaces are the conditions
named above, each shown by one module and assumed or re-checked by the next,
and the product of the machines would have no step that couples more than
these conditions.

### CommonTransport and the code

`load_impl` is `Load`: its guard is `can_load_program` (`CanLoad`) and the
validations (`Valid`, `IsTransportOrder`), its effect the reset of every
page flag and counter under a new generation. The sorting loop of
`configure_common_transport` is stated by its result: `IsTransportOrder`
holds of exactly the order the loop produces, and of none when it throws.
One call of `advance_common_transport` is a function of the flags
(`Launches`, `Commits`): the loop runs over committed pages, commits launched
pages that are complete and drained, launches at most one and stops.
`Tick` is `step_physical` as a whole: the call before the tick, the start
gate of a timed program, the chip's cycle, the call after the tick, and the
logical cycle if dispatch was enabled. `UploadInputs` and
`StartDependencyMet` are the host.

The chip is external. `Arrivals` says what may reach SRAM in one cycle: one
vector per page and bank, if its DMA and RX queues have come to its launch
domain on that hemisphere and its MEM queue to its packet. `transient` is the
tail in the pipe, `completions` are the latches of the ICU, tagged with the
generation.

Abstractions, all of them in the direction of more behaviours: `Overlap`
compares the rows written, where the code compares envelopes of rows per
region, so the model accepts more programs; the overlap calendar and the page
contents are not modelled, so every window `[E, C]` is a candidate; pages
have no pre-execution copy. `Load` is atomic: an exception between
`configure_hardware` and the end of `load_impl` is not modelled.

`WindowsAssumption` (a page is read for at least one cycle) comes from the
compiler, which gives an interval the exclusive end of its last consumer.

### QueueControl and the code

`Step` is one physical cycle in the order of the code: the chip
(`moves`, `lands`), the session's `release_due_executable_weight_pages`
(`Launches`), which hangs on the chip's tick and reads the logical cycle
before it is counted, `advance_common_transport` (`Commits`) and
`advance_queue_releases` (`EventsToRelease`, `WithPhase`, `AgeAfter`).
`Releasable` is `release_queue_phase` condition by condition: the startup
rendezvous while there is no origin, the clock once there is one, and in both
cases every queue of the phase at its WAIT. Several events may release one
phase each in one cycle.

`released[e]` stands for the releases before `next_release`, `age[e]` for
`now - release_origin_cycle`. Differences of cycles are all the code reads,
so `age` saturates at `MaxOffset + 1`, beyond every offset, and the logical
cycle at `Horizon`, beyond every start.

A queue is a sequence of controls. At most one control is passed per cycle;
`issue` stands for instructions between controls, which take any number of
cycles. The order of the WAITs of the DMA and RX queues is the launch order,
because the pager appends them so; they are therefore not queues of their
own. `OncePerQueue` (one WAIT per event and queue) is what the linker's
release plan, one release per queue location, presupposes.

### WeightPrefetch and the code

Planning is sequential; each iteration of a loop is a step, so that the
invariants speak of every prefix of the plans. `StartPlan` and `JoinPlan` are
the loop of `plan_weight_prefetches`, `AssignResidency` that of
`assign_disjoint_residency_pages`, `Arrange` the sort and the reset with which
`schedule_weight_prefetches` begins, `DecideReuse` its first loop,
`LaunchReserved`, `LaunchOnIdle` and `Reject` its second. `Repack` is the
caller that puts in the exact sizes of what it packed and schedules again
(`emit_compiled_mem_write_sync`, `build_executable_weight_pages`).

A plan keeps the fields of `WeightPrefetchPlan`; its regions follow from its
page. `timing` holds what the second half decides: `pre`, `reusable`
(`reusableCycles`), `start`, `end`, `arm` (`earliest_mem_cycle`) and
`streams`. `fabric_streams` is a set, since only the membership of a stream
is a matter of the plan.

A compiler window is cut off at the consumer (`IngressEnd`): one that ends
behind it is accepted and launched, and `WindowValid` refuses a window only
when nothing is left of it. The other half of the code's test,
`ingressEnd > plan.ready_cycle`, is never true, since `ingressEnd` starts at
the ready cycle and only gets smaller.

Abstractions: rows are members of a small set instead of intervals per slice
and hemisphere; the sizes of both sides are represented by the larger, the
only one that is read; the ends of native queue domains are given per bank
and their decoding is left out; a constant without a timeline ends at
`Horizon`, where the code takes the greatest integer, and both are clamped to
the consumer. Two plans with equal cycle and bank get their residency pages
in any order, where the code goes by the page index within the binding. Sums
of cycles are taken to fit 64 bits. Zero bandwidth, which the code rejects,
is excluded by `NumbersAssumption`. A plan without uses, with which the
session schedules the pages of a whole resident model, is not modelled.

### ModelSession and the code

`run_invocation` is cut where another party acts or an exception may leave it.
`phase` says how far it has come: `page` and `arriving` are
`ensure_weight_page` and `start_weight_page`; `states` and `inputs` the
uploads, one action per input; `linking` is
`prepare_executable_weight_pages` followed by
`prepare_executable_weight_lookahead` and the load of the program; `running`
and `computed` the program with the transports that land beside it and
`settle_executable_weight_lookahead`; `stateout` and `outputs` the way back.
The members keep their names (`values`, `overrides`, `device`, `prefetched`,
`prefetchedFor`, `ready`, `inflight`, `images`, `ahead`, `backing`). `busy` is
the pager: it has a transfer that has not arrived, and `enqueue` refuses
another.

Every transfer may throw (`...Throws`, `...TimesOut`): the call ends, the
members keep what they had at that line, and the rows of the transfer hold
`Junk`. That is the fault model of the session, and the caller goes on after
it. A transfer that is under way is taken to spoil its rows at once and never
to arrive later; the runtime clears completed programs before the next one.

A slot stands for the rows of a placement and is read or written whole. What
it holds is a content of `ModelData`, which names the invocation and all it
read, so equal contents mean equal bytes.

What the model takes from the caller and the package, and why:

- `Usable`: after a `load` that threw, the caller loads again. `loaded_` stays
  true from the load before, with a package that is half replaced.
- `MayInvoke`: the caller goes through the invocations in order, repeats one,
  starts over, or jumps to one whose inputs it has set or that are refused.
- `BindingsApart`, `ResidentsApart`, `PagesApart`, `ValuesApart`: rows of
  different purposes are different while both are alive. The compiler and the
  planner see to it; no line of the runtime compares the rows of different
  executables.
- `LookaheadApart`: transfers of the next invocation stay off results that
  are still to be delivered. Without it see Findings, `lookahead_overwrites`.
- `WaitingApart`: what came ahead, or was prefetched, waits in rows that no
  program in between writes, also when the invocation is repeated.
- `PackedBytesStay`: bytes are packed into page images when the invocation, or
  the one before it, is prepared; a value that the caller sets afterwards
  would travel with its old bytes. Tensors do not change, and an input that
  is prefetched is a value without a producer in the package.
- `PagerIsUsed`: every invocation moves a state or an input of its own. If
  none does, the session reaches the program without asking the pager, which
  may be under a transfer that timed out.
- `ProducersAssumption`: a value has one output and it is before its
  consumers. An input that is bound twice for a value released by the first
  is refused by the code, and by the model (`RefuseInput`).

Statistics, traces, the linking of the queue protocol and the layout of
bindings are left out.

### MemoryPlan and the code

`Reserve` is one turn of the scan over the sorted reservations of a slice, one
slice after the other; `CloseSlices` the rows behind the last; `CheckStates`
the comparison of state windows with the bindings of their executable;
`Place` and `Refuse` one turn of the loop over the resident requests in their
order (`Rank`). Bindings with the same list of slices have one `group`, and
`width` is the length of the list, so that the order of the code, by the size
of the lists and the rows of a group, can be stated. A binding without rows,
which `binding_row_range` refuses first, is excluded by
`PackagesAssumption`. Element types and the layout inside a row are left out;
the error of `intervals_for` for a slice out of the target is not modelled.

### CommonLinker and the code

`Link` is one turn of the loop of `schedule_executable_weight_pages` over the
transports in launch order (transports with equal cycles in any order):
`schedule_common` with the choice of the windows (`Window`, `Stop`), the drain
window, the lease from `CommonOverlapCalendar::select` (`Launch`,
`LeaseStreams`), its own `validate` (`LeaseValid`), the barrier and the
event. `Refuse` is any of its exceptions, `Finalize` the joining of events
with `validate_binary_barriers`. The calendar is a function of the image: its
sorted vectors and binary searches are stated by what they find (`Release`,
`CrossingRelease`), and the streams of a VXM, MXM, SXM or MEM issue are given.
The event tag is represented by the ready cycle, by which tags are numbered.

`EpochsAssumption` (transports of one ready cycle have one stop) is the
compiler's naming of windows. With two stops for a tag
`coalesce_page_ready_events`, which follows the first alias of the tag, would
split its pages or move all of them to the earlier stop.
`validate_binary_barriers` refuses some of these programs (two barriers for an
event, a barrier without one, a launch behind its barrier) and accepts others,
so that nothing is said here about a tag with two stops. `LeaseIsFree` is
about leases; in the serial fallback the transport starts at the stop, where
`validate_common_drain_window` looks at starts of issues and not at the ends
of their trains.

Left out: the packing of vectors into DMA, RX and MEM programs, the capacity
of the MEM control RAM and the limit of 65535 segments,
`validate_common_page_storage` (bank by bank, in `CommonTransport` as
`SegmentsInRange`). The check of the launch order against the loader's is in
`CommonTransport`.

### ComputeSegments and the code

`Cut` is one turn of the loop of `split_resident_program_at_drains` over the
commands of a queue (`CutAt` when the interval of the command is known), and
`Cutting` the results of the loop after each of its turns; `Planned` collects
its exceptions. Intervals and segments are named by the cycle at which they
end instead of by their index, and run in the order of these ends: `segment`
is the end of the one that `compute_imem_segment_` indexes. `LoadWhole` and
`LoadSegmented` are `load_impl` (an unsupported or unplanned program is
refused, and nothing changes). `Reload` is `reload_drained_compute_imem`,
called at the beginning of `step_physical` and therefore once per physical
cycle: after it has moved the boundary, held cycles at the same logical cycle
do not reload again. `Hold` and `Dispatch` are the tick, held or not; a held
cycle may let the VXM run on or not. One load is enough, since `load_impl`
sets segments, segment and boundary anew. In `ReloadThrows` the queues that
were reset before the exception are not followed further: the state is
`broken`, and the next load starts from nothing.

The chip is external: a queue issues the packets it holds, from the cycle at
which they were loaded, and the VXM is busy for the tail of what it got.
`Drained` is the compiler's promise, that a declared drain is one. Contexts of
macros never overflow in the model; loops of a packet are its span, and the
bits of its header a field with the bound `MaxWait`.

## 3. Runs

| run | question | bounds |
|---|---|---|
| `two_pages` | Is every program of two pages that `load_impl` accepts safe, does it implement `PagedExecution`, and does it end (under fairness)? | one hemisphere, two banks of two rows; five windows, three placements (both banks, one bank with two vectors, reuse of the same rows) and every order of the DMA, RX and MEM queues independently |
| `reload` | Does a page, a completion or a row of a first task leak into the reads of a second? | two generations, one or two pages on the same rows |
| `empty_wait` | see Findings | three pages on two hemispheres, WAITs on both |
| `queue_control` | Are waits, tokens, launches and phases right, and does every program end? | two pages, two MEM, one MXM and one VXM queue; four timelines, two roles, three assignments of offsets on both sides of the startup window, early and late starts, with and without an activation producer, an event of one or of two pages; besides, two MEM queues alone with two pages and all orders of two or three controls each |
| `transport_order` | Do transports never block each other in what `validate_queue_transport_order` accepts? | three pages of one hemisphere, two MEM queues, all orders of three or four controls each |
| `prefetch_plan` | Is every plan safe, ordered and found? | three uses out of twelve (three pages, four intervals that meet, nest and are apart), so all chains of three; rows shared in a chain, and two banks; eight settings: none, constants and scratch, both protocols, staggered and late streams, windows that end before, at and behind their consumer, or lie behind it as a whole and are refused; two lanes of three streams, two exact sizes |
| `session` | Is every read current, does every result survive, and does the caller see the model and nothing else? | three invocations with two alternating pages, a copied, an aliased and a prefetched value, a resident, a state, constants, workspace, two inputs that come ahead and one loaded inside a program; six calls, each transfer may throw |
| `lookahead_overwrites` | see Findings | two invocations, the page of the second on the output of the first |
| `memory_plan` | Are placements disjoint, and refusals justified? | two slices of six rows; floors and named bindings that nest, touch or leave holes, states that may collide, up to three residents |
| `plan_over_pages` | see Findings | one binding that arrives through a page, two residents |
| `common_linker` | Are leases free and as early as can be, and events complete? | all subsets of six issues, five sets of up to three transports with one or two uses, three streams, two lanes |
| `compute_segments` | Does a program in segments issue what the whole program would? | a VXM queue of three packets with NOPs, three SXM codes, a MEM queue; every subset of the drains 2, 3, 6, 8; depths of 5, 3 and 4 words with packets of 2; waits up to 3; holds anywhere |

Two pages are enough for every pairwise hazard: overlap of rows, opposite
orders of two queues, equal and different stop cycles, a lease that starts at,
before or after another's end. One more bank or row adds interleavings of
arrivals that differ in nothing a property sees; cyclic waits of three queues
or more and pages on one of two hemispheres are covered by the proofs
(`NoFrozenDependencies`, `LaunchedPagesArrive`), which hold for any number.
`reload` needs exactly two generations, since completions are compared by
equality of generation.
Three uses let a page reuse the rows of one that is not its neighbour, with
releases that do not grow, and let a transport be late for two reasons at
once; a fourth adds a step of the same kind, and the proofs cover it.
Three invocations give a value an invocation between producer and consumer,
a page that comes back, and a lookahead on both sides; six calls allow a run,
an exception, a repetition and a change of inputs in between. The proofs
cover any package that is placed as assumed. In `compute_segments` a packet
may end at, a cycle before and a cycle behind a drain, a segment may be empty,
overflow, or need a wait that is too long, and the VXM may work on behind a
drain; four segments are met in one program.

Each property has a mutant in its module (a plausible bug in the mapped
code, commented `Mutant`), with which TLC finds it violated: an undrained
commit, a partial page, a launch before its lease, launch orders without MEM
or RX queues, completions without the tag of their load, reuse of rows
from the ready cycle, phases released by the clock alone or without
rendezvous, WAITs left out of the queue graph, reuse decided by the
neighbouring plan, windows that ignore the running transport, an unstable
sort, a page that stays named ready, a pager that takes two transfers, rows
carved one short, a drain that looks at first issues only, a wait that counts
from the wrong beginning, and others.

Deadlock is not checked where the system really stops: after the last cycle
of the last task, when every queue has ended, when a plan, a placement or a
link is complete or refused, or when the caller makes no further call.

### Fairness

`CommonTransport`: `run_logical_cycles` calls `step_physical` in a loop
(WF of `StepPhysical`); DDR and C2C deliver what they can deliver, drain and
load images in finite time (WF of `DeliverTo`, `Drain`, `ImagesCommit`); the
host uploads the inputs and meets the start dependency of a task it loaded.

`QueueControl`: the clock runs; a queue that can pass its control does so
eventually; issued data lands. For a packet this is only assumed when all
banks of its page stand ready for it (`SureToMove`): the RX FIFOs are finite,
so data for one bank can be stuck behind data for another whose queue does
not come. This weaker fairness is what makes the order of MEM queues matter.

The others have no fairness: `WeightPrefetch`, `MemoryPlan` and `CommonLinker`
are function calls whose steps make progress by their guards; `ModelSession`
depends on its caller, and every wait inside it ends in a timeout;
`ComputeSegments` may be held for ever as far as it knows, and that holds end
is `TaskFinishes` of `CommonTransport`.

The watchdogs (10,000,000 held cycles in `run_logical_cycles`, the completion
watchdog of the session) turn a violated liveness property into an exception;
they are not part of the models.

## 4. Findings

`empty_wait`: `configure_common_transport` checks that each page has a launch
WAIT on every hemisphere where it has a segment, and not the converse. A DMA
or RX queue that also waits for a page without a segment on its hemisphere is
accepted, is never notified (`advance_common_transport` notifies the sides in
`hemisphere_mask`) and blocks everything behind it. The container documents
say that orphan associations are rejected. The linker here does not emit such
a WAIT, and under `NoEmptyWait` the property is proved.

Events that are shared by several queues are not in the graph of
`validate_queue_transport_order`, nor are edges between hemispheres: a program
whose queues take two events in opposite orders loads and blocks. This is not
listed as a finding, because `docs/queue_control_v39.zh-CN.md` claims only the
rejection of waits for future MEM packets and of cycles in the transport
order. The runs use programs that follow one nominal timeline, as the linker
produces them, or of pages that share a hemisphere. Pages that do not are
launched in one order all the same (`launchOrder`), and a queue of one
hemisphere that waits for a page of the other, launched later, would stop
both; the planner keeps whole transports apart (`OneTransport`), so that no
such WAIT stands ahead of a packet in a linked program.

`lookahead_overwrites`: transfers of the next invocation that overlap an
ordinary binding of the running program are held back to its last cycle and
not to the delivery of its results. `settle_executable_weight_lookahead` lets
them land before states and outputs are downloaded, so an output that shares
rows with the next invocation's page is overwritten. The comment there says
that the overlapping range stays live through the executable and that this is
conservative. Under `LookaheadApart` the results are proved to stay.

`plan_over_pages`: the planner reserves the rows of named bindings, but skips
tensor inputs, also those that are not resident because they arrive through
a page. A resident tensor of another executable may then be placed on the rows
of such a page. The comment and `docs/model_package.md` say that every named
non-resident binding is reserved. A memory floor above the pages hides it.

## 5. Proofs

The proofs hold for every set of programs, pages, banks, sides, queues,
events, streams, packages and sizes; the assumptions are the named `ASSUME`s of the modules
(page ids are a finite set of numbers, programs have their type and windows,
bounds are numbers, controls occur once per queue).

**CommonTransport.** `BarrierHolds` is not inductive: it needs to know what
the call of `advance_common_transport` relies on. `FlagsOK` states it for the
flags of any moment: committed pages are launched, whatever precedes a
launched page in transport order is committed, no page is launched before its
launch cycle, committed pages are complete. It is preserved by each of the
two calls and by arrivals in between, which only belong to the one page in
flight (`ArrivalsInFlight`). `IInv` adds that completions of the current
generation are exactly the committed pages, that the logical cycle is within
the stop cycle of every page not committed, that a transient tail belongs to
a page in flight, and that the rows a page has written are still its own as
long as no page that may reuse them has been launched. From `IInv` follow
`BarriersHold`, `LeasesRespected`, `NoFrozenDependencies` (through the
monotone stop cycles of the transport order), `StartsInOrder`,
`LaunchedPagesArrive` (under `NoEmptyWait`; every page ahead of a launched one
in any queue precedes it in transport order, by induction over the queue, and
is therefore complete), `ReadsAreSafe` (a page that is live has not been
overwritten, because overlapping pages are separated by
`StorageReuseSafe` and the lease) and `PagingImplemented`, the refinement of
`PagedExecution` in which a page is resident once it is committed and until a
later page, in transport order, that shares rows with it is launched.

**QueueControl.** `IInv` relates every stage to the one before it: launched
pages stand behind complete pages, committed pages are complete, released
events are committed, passed WAITs are released, and tokens are a part of the
released. `NoLatchedToken` is inductive together with the rule that a matched
token is consumed in the next cycle: no token survives a step
(`TokensConsumed`), so each new one was given to a queue seen at its WAIT. For
`PhasesKept` the invariant `StartupStands` says that after the origin every
startup queue not yet released stands at its WAIT, and that the punctual ones
still have their phase ahead; `PunctualReleased` shows that when the clock
reaches the phase of such a queue nothing can refuse its release.
`TransportsAreSingle`, `WaitsAreSafe`, `TokensAreMet` and `PhasesAreKept`
follow. `TransportsKeepMoving` is the safety half of progress. The rank in
`TransportOrdered` has a least value among the missing pages
(`FirstOfPages`, by the least-number lemma of `BoundedNumbers`). A queue that
stands ahead of its packet of that page stands at no packet of another page:
that page would be before it in the graph, so it is in, so its packet here was
issued (`LandedIssued`), and a second one there is not (`PacketOnce`). It
stands at no WAIT for a missing page either (`WaitEdge`). The launch order is
in the graph for pages that share a hemisphere, which is the hypothesis of
the theorem. What remains for liveness, and for TLC, is that a queue that is
clear moves and that releases come (`RunCompletes`).

**WeightPrefetch.** The inductive `IInv` adds to the properties what each
stage knows of the one before. `PlansSorted`: a use is taken only when no
other is ready before it, so each new plan is last, and a use that joins a
plan never moves its ready cycle. Hence two plans of one page are apart
(`WindowsAreApart`), and the stable sort is the identity: an increasing map
of `1 .. n` to itself, `IncreasingIsIdentity` in `BoundedNumbers`
(`OrderIsKept`). `ResidencyCounted`: the residency pages in use are fewer
than the plans that are in one, so the first with room exists and is no
further than the next unused number (`ResidenciesAreDisjoint`).
`ReusableKnown`: the cycle decided for a plan is behind all releases in its
rows, and ahead of its consumer if they are. `LaunchesInOrder`: a launch is
behind that cycle and, without common barriers, behind the cursor, which is
behind every transport so far (`ReuseIsSafe`, `TransportsFollow`,
`ArmingIsInTime`). `StreamsAreFound` shows that the last release of a stream
is always a candidate, and that the preferred candidate exists by the
least-number principle. That `plans` get their uses and nothing else is
`UsesAreCovered`.

**ModelSession.** The data needs everything about the control, which is
therefore first. `ControlInv` (cursor and index inside the
package, prefetched inputs with a consumer, a page in flight only while the
pager is busy) gives `TypeCorrect`. `BusyInv` says that whoever is past its
first own transfer has found the pager idle, so, with `PagerIsUsed`,
`ProgramsRunAlone`. `PagesInv` keeps the ready page, and the page that came
ahead, intact through every action that writes SRAM: each writes rows of the
invocation under way, which `PagesApart` keeps off a page that stays
(`ReadyPageStays`). `DataInv` says,
phase by phase, where the current bytes are: values on the device hold what
their producer made while a consumer is to come, prefetched inputs and inputs
that came ahead are in their rows, packed images are what their values are
now, states paged in are their backings, results stand until delivered.
`ReadsCurrent` and `ResultsStayPut` follow. `SessionImplementsSemantics` is the
refinement of `ModelSemantics` with `host <- values`, `state <- backing` and
the history variables `value` and `result`: every action maps to one of the
abstract actions or a stutter, and what a program writes is what the abstract
invocation computes because what it read is (`SameData`).

**MemoryPlan.** `IInv` says for each slice that free intervals contain exactly
the rows below the cursor that are neither reserved nor placed. Placing keeps
it by `Carved`; so residents are apart and off the reserved rows
(`ResidentsStayApart`, `ResidentsStayOffReserved`). For
`RefusalsAreJustified`, if rows were unused in all slices of a tensor, one
free interval of each slice would hold them all (free intervals do not touch);
the least row at which the tensor fits begins one of these intervals, or it
would fit one row lower, and so it is a candidate.

**CommonLinker.** `IInv`: every linked transport passed the calendar's
validation at its stop, and barriers and events are those of the linked
transports, before and after the joining. `LeasesAreFree` follows from the
definition of the releases, where crossing trains and the points of others are
two cases; `LeasesAreEarliest` from the launch being the least over the
streams; `JoinsAreComplete` from the aliases, which are the least tag of a
stop, under `EpochsAssumption`.

**ComputeSegments.** Two inductions over the commands of a queue come first,
one for the cursor (`BehindSteps`) and one for the cutting (`SplitRight`). They
are over the set of the positions up to which the fact holds (`UpTo`), since
induction theorems of the library take an operator, and they also show that
the recursive functions exist (`BehindEquation`, `CuttingEquation`). `CutInv`
says of every prefix that the clock of each part is the sum of its commands
and stays inside its interval, that each packet of a part is a copy of a
packet whose first issue lies in that interval, at the same distance from its
begin, and that each packet so far has its copy and does not end behind its
interval. So a segment issues in a cycle what the whole code issues there
(`SegmentIssues`), has issued everything at its end (`SegmentDone`), and no
packet of a cut queue crosses a drain (`NothingCrosses`). The state invariant
`IInv` says that the i-MEM holds the segment of the logical clock, rebased to
its begin (`Holds`), that `compute_imem_boundary_`, a running sum of lengths, is
the end of that segment, and that the VXM is busy only for a packet of the
whole code whose tail reaches that far (`TailInv`). At a boundary the queues
are therefore done, and the VXM is idle if the drain was declared rightly
(`BoundaryIsMet`); this gives `NoReloadThrows`. `SegmentsImplementWhole` maps
every dispatched cycle, with the reload before it, to a cycle of
`WholeProgram`, and everything else to a stutter.

**Only model-checked.** Liveness (`TaskFinishes`, `RunCompletes`) is outside
the prover, and `ENABLED` with it. Every invariant, action property and
refinement of a run that passes is also a theorem.

## 6. What is done and what is left

Modelled, checked and proved: both paging protocols, the plan of the
transports, the linker with its calendar, the memory planner, the session
with its abstract specification, and the segments of compute i-MEM. What would
come next:

1. The lookahead pages of the next invocation inside `QueueControl`, which
   now are part of `ModelSession` only.
2. The serial fallback of the linker against vector trains that end behind a
   stop (listed among the hazards, without a property).
3. Exceptions in the middle of `load_impl`, with the state of the external
   loader that they leave.

## 7. Not modelled

Most of the source lines of the repository are in the compiler: passes that
rewrite an MLIR module one after another, and emitters that produce
instruction tables. They run sequentially, keep nothing between passes, and
are correct when tensors come out right, which is arithmetic over large data
and beyond a model checker. The map therefore covers a small share of all
lines; it covers the runtime's control.

- Binary container, ICU images, loader format, model package and weight page
  builder: byte formats. Their validators are modelled with the component
  that relies on them.
- Macro bitstream, FU-3D lowering, schedule compression: codecs and rewriting
  of command lists; each is a function without state that its tests run
  forward and back.
- MoE router: a numeric selection over one vector.
- The shared refill pool of queue control: hardware; the code has one
  inequality over its constants.
- Capacity of macro contexts and the codec sizes in the i-MEM report.
- Traces, counters, inspectors, command-line tools and importers: they change
  no state of the program.

The chip is modelled only as far as the runtime observes it.
