----------------------------- MODULE QueueControl -----------------------------
(***************************************************************************)
(* Weight paging with queue control (QCTL): no common clock stops here.    *)
(* Every ICU queue works through its own controls; a queue that needs a    *)
(* page stands at a WAIT until it gets a token for the event of that page. *)
(*                                                                         *)
(* ModelSession starts the page transports one at a time                   *)
(* (release_due_executable_weight_pages), CModelRuntime marks a page       *)
(* committed when all its vectors are in SRAM (advance_common_transport),  *)
(* and once all pages of an event are committed hands out the tokens       *)
(* phase by phase (release_queue_phase).  The phases reproduce, at the     *)
(* time the pages really arrive, the distances in cycles that the compiler *)
(* planned between producers and consumers.                                *)
(*                                                                         *)
(* The queues themselves (ICU, MEM, RX) are not in this repository; they   *)
(* are modelled from the way the runtime uses them and from                *)
(* src/docs/queue_control_v39.zh-CN.md.                                    *)
(***************************************************************************)
EXTENDS Integers, Sequences, FiniteSets

CONSTANTS
    PageIds,          \* page transports, numbered in the order of ready_cycle
    PageEvents,       \* events of source PageCommit
    Signals,          \* External events: one queue notifies, others wait
    Queues,           \* ICU queues with controls
    MemQueues,        \* those that own a MEM bank
    MxmQueues,        \* those of kind MxmCompute
    Sides,            \* hemispheres, each with one DMA and one RX queue
    StartupWindow,    \* kMxmBoundaryStreamRegisterColumn + 1
    MaxOffset,        \* bound on the phase offsets
    Horizon,          \* bound on the start cycles
    Programs          \* the linked programs that may be loaded

ASSUME QueuesAssumption == MemQueues \subseteq Queues /\ MxmQueues \subseteq Queues
ASSUME NumbersAssumption ==
    /\ PageIds \subseteq Nat /\ IsFiniteSet(PageIds)
    /\ StartupWindow \in Nat /\ MaxOffset \in Nat /\ Horizon \in Nat

(***************************************************************************)
(* Controls of a queue, in order.  "issue" stands for the instructions     *)
(* between two controls: a queue may spend any number of cycles there.     *)
(***************************************************************************)
Controls ==
    [op : {"wait"},   id : PageEvents] \cup
    [op : {"packet"}, id : PageIds] \cup
    [op : {"notify", "signal"}, id : Signals] \cup
    [op : {"issue"},  id : {0}]

(***************************************************************************)
(* A linked program: the planned start, the hemispheres and the banks of   *)
(* each page, the pages an event stands for, the controls of each queue,   *)
(* and the releases of each page event: the queues that wait for it with   *)
(* their phase offsets, and those that produce activations for the MXM.    *)
(***************************************************************************)
ProgramType ==
    [start    : [PageIds -> 0 .. Horizon],
     sides    : [PageIds -> SUBSET Sides],
     targets  : [PageIds -> SUBSET MemQueues],
     members  : [PageEvents -> SUBSET PageIds],
     code     : [Queues -> Seq(Controls)],
     offset   : [PageEvents -> UNION {[S -> 0 .. MaxOffset] : S \in SUBSET Queues}],
     producer : [PageEvents -> SUBSET Queues]]

ASSUME ProgramsAssumption == Programs \subseteq ProgramType

IsWait(control, e) == control.op = "wait" /\ control.id = e
IsPacket(control, p) == control.op = "packet" /\ control.id = p

Participants(prog, e) == DOMAIN prog.offset[e]

\* The pager inserts one WAIT per queue and event, and one packet is modelled
\* per page and bank.
OncePerQueue(prog) ==
    \A q \in Queues : \A i, j \in DOMAIN prog.code[q] :
        prog.code[q][i].op \in {"wait", "packet"} /\ prog.code[q][i] = prog.code[q][j]
            => i = j

ASSUME OncePerQueueAssumption == \A prog \in Programs : OncePerQueue(prog)

-----------------------------------------------------------------------------
(***************************************************************************)
(* What loading checks: validate_queue_sync_plan and                       *)
(* validate_queue_transport_order.                                         *)
(***************************************************************************)
SyncPlanValid(prog) ==
    /\ \A p \in PageIds : \E e \in PageEvents : p \in prog.members[e]
    /\ \A e \in PageEvents : prog.members[e] # {} /\ Participants(prog, e) # {}
    /\ \A p \in PageIds : prog.targets[p] # {}

\* configure_queue_transport: the releases of an event are the WAITs for it,
\* and the banks of a page are those with a packet of it.
QueuesLinked(prog) ==
    \A q \in Queues :
        /\ \A e \in PageEvents : q \in Participants(prog, e) <=>
               \E i \in DOMAIN prog.code[q] : IsWait(prog.code[q][i], e)
        /\ \A p \in PageIds : q \in prog.targets[p] <=>
               \E i \in DOMAIN prog.code[q] : IsPacket(prog.code[q][i], p)

\* The order of the session's launches, and of the WAITs that the pager
\* appends to the DMA and RX queues: start cycle, then ready cycle.
LaunchBefore(prog, p, q) ==
    \/ prog.start[p] < prog.start[q]
    \/ prog.start[p] = prog.start[q] /\ p < q

\* Page p has to be in SRAM before page q can: the edges of the graph.
ControlEdge(prog, p, q) ==
    /\ prog.sides[p] \cap prog.sides[q] # {}
    /\ LaunchBefore(prog, p, q)

PacketEdge(prog, p, q) ==
    \E m \in MemQueues : \E j \in DOMAIN prog.code[m] : \E i \in 1 .. j - 1 :
        IsPacket(prog.code[m][i], p) /\ IsPacket(prog.code[m][j], q)

WaitEdge(prog, p, q) ==
    \E m \in MemQueues : \E j \in DOMAIN prog.code[m] : \E i \in 1 .. j - 1 :
        /\ \E e \in PageEvents : IsWait(prog.code[m][i], e) /\ p \in prog.members[e]
        /\ IsPacket(prog.code[m][j], q)

\* Mutant: the WAITs ahead of a packet are left out of the graph.
OrderWithoutWaits(prog) ==
    \E rank \in [PageIds -> 1 .. Cardinality(PageIds)] :
        \A p, q \in PageIds :
            ControlEdge(prog, p, q) \/ PacketEdge(prog, p, q) => rank[p] < rank[q]

TransportOrdered(prog) ==
    \E rank \in [PageIds -> 1 .. Cardinality(PageIds)] :
        \A p, q \in PageIds :
            ControlEdge(prog, p, q) \/ PacketEdge(prog, p, q) \/ WaitEdge(prog, p, q)
                => rank[p] < rank[q]

Valid(prog) == SyncPlanValid(prog) /\ QueuesLinked(prog) /\ TransportOrdered(prog)

-----------------------------------------------------------------------------
VARIABLES
    program,      \* the linked program
    L,            \* logical_cycles(), up to Horizon
    pc,           \* the control each queue has come to
    tokens,       \* per event, the queues with a token not yet consumed
    signals,      \* signals that have been notified
    launched,     \* launch_released
    landed,       \* per page, the banks that have all their vectors of it
    committed,    \* CommonTransportPage::committed
    released,     \* per event, the queues before next_release
    age           \* cycles since release_origin_cycle, up to MaxOffset + 1

vars == <<program, L, pc, tokens, signals, launched, landed, committed, released, age>>

NoOrigin == -1
MaxAge == MaxOffset + 1

Init ==
    /\ program \in Programs
    /\ Valid(program)
    /\ L = 0
    /\ pc = [q \in Queues |-> 1]
    /\ tokens = [e \in PageEvents |-> {}]
    /\ signals = {}
    /\ launched = {}
    /\ landed = [p \in PageIds |-> {}]
    /\ committed = {}
    /\ released = [e \in PageEvents |-> {}]
    /\ age = [e \in PageEvents |-> NoOrigin]

-----------------------------------------------------------------------------
(***************************************************************************)
(* The queues in one physical cycle.                                       *)
(***************************************************************************)
Done(q) == pc[q] > Len(program.code[q])

Current(q) == program.code[q][pc[q]]

AtWait(q, e) == ~Done(q) /\ IsWait(Current(q), e)

HasToken(q) == \E e \in PageEvents : AtWait(q, e) /\ q \in tokens[e]

\* A MEM packet needs its transport started; what it waits for then is data.
CanMove(q) ==
    /\ ~Done(q)
    /\ CASE Current(q).op = "wait"   -> HasToken(q)
         [] Current(q).op = "packet" -> Current(q).id \in launched
         [] Current(q).op = "signal" -> Current(q).id \in signals
         [] OTHER                    -> TRUE

Movers == {q \in Queues : CanMove(q)}

\* A token is consumed in the cycle after it was given; anything else may
\* take its time.
MustMove == {q \in Queues : HasToken(q)}

PcAfter(moves) == [q \in Queues |-> IF q \in moves THEN pc[q] + 1 ELSE pc[q]]

TokensAfter(moves) ==
    [e \in PageEvents |-> {q \in Queues : q \in tokens[e] /\ ~(q \in moves /\ AtWait(q, e))}]

SignalsAfter(moves) ==
    {x \in Signals : x \in signals \/
        \E q \in moves : Current(q).op = "notify" /\ Current(q).id = x}

\* Packets that have been issued completely but whose last tile is still on
\* its way to SRAM.
Issued(p, q) ==
    \E i \in DOMAIN program.code[q] : i < pc[q] /\ IsPacket(program.code[q][i], p)

Landing ==
    {pm \in PageIds \X MemQueues : Issued(pm[1], pm[2]) /\ pm[2] \notin landed[pm[1]]}

LandedAfter(lands) ==
    [p \in PageIds |-> {m \in MemQueues : m \in landed[p] \/ <<p, m>> \in lands}]

-----------------------------------------------------------------------------
(***************************************************************************)
(* release_due_executable_weight_pages, as a function of what is in SRAM:  *)
(* pages are started in launch order, none before its start cycle, and     *)
(* none before every earlier page is transport_ready.                      *)
(***************************************************************************)
\* Mutant: a page counts as complete when one of its banks is.
AnyBankIn(p, land) == program.targets[p] \cap land[p] # {}

AllVectorsIn(p, land) == program.targets[p] \subseteq land[p]

\* Mutant: the loop does not stop at a page that is still in transport.
LaunchesAllDue(land) == {p \in PageIds : p \in launched \/ program.start[p] <= L}

Launches(land) ==
    {p \in PageIds : \/ p \in launched
                     \/ /\ program.start[p] <= L
                        /\ \A q \in PageIds : LaunchBefore(program, q, p) =>
                               q \in launched /\ AllVectorsIn(q, land)}

\* Mutant: the first complete bank commits the page.
CommitsAnyBank(land) == {p \in PageIds : p \in committed \/ AnyBankIn(p, land)}

\* advance_common_transport: a page is committed when all its vectors are in.
Commits(land) == {p \in PageIds : p \in committed \/ AllVectorsIn(p, land)}

-----------------------------------------------------------------------------
(***************************************************************************)
(* release_queue_phase.  The queue positions and tokens it reads are those *)
(* after the cycle; a is the age of the event at this edge.                *)
(***************************************************************************)
Pending(e) == {q \in Queues : q \in Participants(program, e) /\ q \notin released[e]}

\* The releases from next_release on that have the same, least offset.
Phase(e) ==
    {q \in Pending(e) :
        \A r \in Pending(e) : program.offset[e][q] <= program.offset[e][r]}

InStartup(q, e) ==
    \/ program.offset[e][q] <= StartupWindow
    \/ q \in program.producer[e]
    \/ q \in MxmQueues

StartupQueues(e) == {q \in Participants(program, e) : InStartup(q, e)}

\* blocked_on_tagged_event at the end of the cycle.
BlockedAfter(q, e, pos, tok) ==
    /\ pos[q] <= Len(program.code[q])
    /\ IsWait(program.code[q][pos[q]], e)
    /\ q \notin tok[e]

\* Mutant: the phases start without the startup queues having met.
ReleasableUnmet(e, a, pos, tok) ==
    /\ Pending(e) # {}
    /\ a # NoOrigin => \A q \in Phase(e) : program.offset[e][q] <= a
    /\ \A q \in Phase(e) : BlockedAfter(q, e, pos, tok)

\* Mutant: every later phase is part of the startup rendezvous.
ReleasableAllMeet(e, a, pos, tok) ==
    /\ Pending(e) # {}
    /\ a = NoOrigin => \A q \in Participants(program, e) : BlockedAfter(q, e, pos, tok)
    /\ a # NoOrigin => \A q \in Phase(e) : program.offset[e][q] <= a
    /\ \A q \in Phase(e) : BlockedAfter(q, e, pos, tok)

\* Mutant: a phase is released by the clock alone.
ReleasableByClock(e, a, pos, tok) ==
    /\ Pending(e) # {}
    /\ a = NoOrigin => \A q \in StartupQueues(e) : BlockedAfter(q, e, pos, tok)
    /\ a # NoOrigin => \A q \in Phase(e) : program.offset[e][q] <= a

Releasable(e, a, pos, tok) ==
    /\ Pending(e) # {}
    /\ a = NoOrigin => \A q \in StartupQueues(e) : BlockedAfter(q, e, pos, tok)
    /\ a # NoOrigin => \A q \in Phase(e) : program.offset[e][q] <= a
    /\ \A q \in Phase(e) : BlockedAfter(q, e, pos, tok)

\* The age at the next edge; it is not needed beyond the largest offset.
Older(a) == IF a = NoOrigin \/ a = MaxAge THEN a ELSE a + 1

\* advance_queue_releases: every completed event may release one phase.
EventsToRelease(done, pos, tok) ==
    {e \in PageEvents :
        program.members[e] \subseteq done /\ Releasable(e, Older(age[e]), pos, tok)}

WithPhase(sets, events) ==
    [e \in PageEvents |->
        {q \in Queues : q \in sets[e] \/ (e \in events /\ q \in Phase(e))}]

AgeAfter(events) ==
    [e \in PageEvents |->
        IF e \in events /\ age[e] = NoOrigin
        THEN CHOOSE k \in 0 .. MaxOffset : \A q \in Phase(e) : program.offset[e][q] = k
        ELSE Older(age[e])]

-----------------------------------------------------------------------------
(***************************************************************************)
(* step_physical: one cycle of the chip (the queues in moves go on, the    *)
(* packets in lands reach SRAM), the session's launches, the commits, the  *)
(* releases, and the count of the logical cycle.                           *)
(***************************************************************************)
Step(moves, lands) ==
    LET land == LandedAfter(lands)
        pos  == PcAfter(moves)
        tok  == TokensAfter(moves)
        done == Commits(land)
        now  == EventsToRelease(done, pos, tok)
    IN
    /\ pc' = pos
    /\ signals' = SignalsAfter(moves)
    /\ landed' = land
    /\ launched' = Launches(land)
    /\ committed' = done
    /\ tokens' = WithPhase(tok, now)
    /\ released' = WithPhase(released, now)
    /\ age' = AgeAfter(now)
    /\ L' = IF L < Horizon THEN L + 1 ELSE L
    /\ UNCHANGED program

Moves == {moves \in SUBSET Movers : MustMove \subseteq moves}

Next == \E moves \in Moves, lands \in SUBSET Landing : Step(moves, lands)

Spec == Init /\ [][Next]_vars

(***************************************************************************)
(* Fairness: the clock runs, a queue that can go on does so in the end,    *)
(* and issued data lands.  Data for a packet is only certain to come when  *)
(* all banks of the page stand ready for it: the RX FIFOs are finite.      *)
(***************************************************************************)
Receiving(p, q) == Issued(p, q) \/ (~Done(q) /\ IsPacket(Current(q), p))

SureToMove(q) ==
    /\ CanMove(q)
    /\ Current(q).op = "packet" =>
           \A m \in program.targets[Current(q).id] : Receiving(Current(q).id, m)

MoveOf(q) ==
    /\ SureToMove(q)
    /\ \E moves \in Moves, lands \in SUBSET Landing : q \in moves /\ Step(moves, lands)

LandingOf(p, q) ==
    \E moves \in Moves, lands \in SUBSET Landing : <<p, q>> \in lands /\ Step(moves, lands)

Fairness ==
    /\ WF_vars(Next)
    /\ \A q \in Queues : WF_vars(MoveOf(q))
    /\ \A p \in PageIds, q \in MemQueues : WF_vars(LandingOf(p, q))

FairSpec == Spec /\ Fairness

-----------------------------------------------------------------------------
(* Properties.                                                             *)

TypeOK ==
    /\ program \in Programs
    /\ L \in 0 .. Horizon
    /\ pc \in [Queues -> Nat \ {0}]
    /\ tokens \in [PageEvents -> SUBSET Queues]
    /\ signals \subseteq Signals
    /\ launched \subseteq PageIds
    /\ landed \in [PageIds -> SUBSET MemQueues]
    /\ committed \subseteq PageIds
    /\ released \in [PageEvents -> SUBSET Queues]
    /\ age \in [PageEvents -> {NoOrigin} \cup 0 .. MaxAge]

Passed(q, e) ==
    \E i \in 1 .. pc[q] - 1 : i <= Len(program.code[q]) /\ IsWait(program.code[q][i], e)

(***************************************************************************)
(* No queue passes the WAIT for an event before every page of the event is *)
(* complete in every bank it belongs to, however the transports, releases  *)
(* and queues interleave.                                                  *)
(***************************************************************************)
WaitsSeeCommits ==
    \A q \in Queues, e \in PageEvents :
        Passed(q, e) => \A p \in program.members[e] : program.targets[p] \subseteq landed[p]

(***************************************************************************)
(* A token is only ever given to a queue that stands at the WAIT for it:   *)
(* a queue "can consume a latched token while its MEM producer is still in *)
(* the NOP" (observe_executable_weight_page_tick) if one is given earlier. *)
(***************************************************************************)
NoLatchedToken == \A e \in PageEvents : \A q \in tokens[e] : AtWait(q, e)

(***************************************************************************)
(* Page transports do not overlap: "Keep one page-level transport          *)
(* instruction in flight" (release_due_executable_weight_pages).           *)
(***************************************************************************)
OneInFlight ==
    \A p, q \in launched : ~AllVectorsIn(p, landed) /\ ~AllVectorsIn(q, landed) => p = q

(***************************************************************************)
(* Transports never stand in each other's way: as long as pages are        *)
(* missing, one of them is first in launch order, and no bank it has not   *)
(* reached stands at a packet of another page or at a WAIT for a missing   *)
(* page.  This is what validate_queue_transport_order is there for.        *)
(***************************************************************************)
Missing == {p \in PageIds : ~AllVectorsIn(p, landed)}

\* Queue m is done with the packet of page p, or before it, with nothing but
\* its own work, or a WAIT for pages that are in, where it stands.
Clear(p, m) ==
    \/ Issued(p, m)
    \/ /\ ~Done(m)
       /\ \A q \in PageIds : IsPacket(Current(m), q) => q = p
       /\ \A e \in PageEvents : AtWait(m, e) => program.members[e] \cap Missing = {}

TransportsMove ==
    Missing # {} =>
        \E p \in Missing :
            /\ \A q \in Missing : ~LaunchBefore(program, q, p)
            /\ \A m \in program.targets[p] : Clear(p, m)

\* A startup queue with only startup queues ahead of it in the plan.
Punctual(q, e) ==
    \A r \in Participants(program, e) :
        program.offset[e][r] <= program.offset[e][q] => InStartup(r, e)

(***************************************************************************)
(* The planned distances survive any transport delay: no queue is released *)
(* before its phase, and the queues of the startup rendezvous exactly at   *)
(* it, counted from the same origin.                                       *)
(***************************************************************************)
PhasesKept ==
    [][\A q \in Queues, e \in PageEvents :
           q \in released'[e] \ released[e] =>
               /\ program.offset[e][q] <= age'[e]
               /\ Punctual(q, e) => age'[e] = program.offset[e][q]]_vars

(***************************************************************************)
(* The inductive invariant.  A page is launched only after all earlier     *)
(* pages are in; what is in SRAM has been issued; committed pages are      *)
(* complete; queues are released only for complete events and pass a WAIT  *)
(* only when released; and from the origin of an event on, the startup     *)
(* queues not yet released stand at their WAIT, the punctual ones with     *)
(* their phase still ahead.                                                *)
(***************************************************************************)
LaunchedInOrder ==
    \A p \in launched : \A q \in PageIds :
        LaunchBefore(program, q, p) => q \in launched /\ AllVectorsIn(q, landed)

LandedIssued == \A p \in PageIds : \A m \in landed[p] : Issued(p, m)

CommittedComplete == \A p \in committed : AllVectorsIn(p, landed)

ReleasedCommitted ==
    \A e \in PageEvents :
        /\ tokens[e] \subseteq released[e]
        /\ released[e] \subseteq Participants(program, e)
        /\ released[e] # {} => program.members[e] \subseteq committed
        /\ released[e] # {} <=> age[e] # NoOrigin

PassedReleased == \A q \in Queues, e \in PageEvents : Passed(q, e) => q \in released[e]

StartupStands ==
    \A e \in PageEvents : age[e] # NoOrigin =>
        \A q \in Pending(e) :
            /\ InStartup(q, e) => AtWait(q, e)
            /\ Punctual(q, e) => age[e] < program.offset[e][q]

IInv ==
    /\ TypeOK
    /\ NoLatchedToken
    /\ LaunchedInOrder
    /\ LandedIssued
    /\ CommittedComplete
    /\ ReleasedCommitted
    /\ PassedReleased
    /\ StartupStands

Finished == \A q \in Queues : Done(q)

(***************************************************************************)
(* The linked program runs to its end: neither the transports nor the      *)
(* rendezvous block each other forever.                                    *)
(***************************************************************************)
RunCompletes == <>Finished
=============================================================================
