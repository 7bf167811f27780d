---------------------------- MODULE CommonLinker ----------------------------
(***************************************************************************)
(* Linking the weight pages of one executable under the common barrier     *)
(* protocol: ModelSession::schedule_executable_weight_pages puts the       *)
(* transports into launch order, C2cWeightPager::schedule_common finds for *)
(* each the common stop at which computation waits for it and, with the    *)
(* transport overlap protocol, a lease from CommonOverlapCalendar: the     *)
(* cycles before the stop in which the transport may already use the MEM   *)
(* ports and the ordinary West streams beside a running computation.       *)
(* finalize_schedule then joins the pages of a stop in one page event.     *)
(*                                                                         *)
(* The computation image is a set of issues.  An issue at cycle first      *)
(* keeps its streams until the last vector of its train, at cycle last     *)
(* (only VXM trains are longer than one cycle); a MEM issue occupies one   *)
(* MEM queue.  Cycles are cycles of the logical clock.                     *)
(***************************************************************************)
EXTENDS Integers, FiniteSets, Sequences

CONSTANTS
    Queues,     \* MEM queues of the chip
    NoQueue,    \* the queue of an issue that is not a MEM issue
    StreamCount,\* ordinary West streams
    Lanes,      \* c2c_streams_per_direction
    TileRows,   \* tile_rows
    Guard,      \* cycles from the last issue until the whole fabric is drained
    Horizon,    \* no issue and no window lies behind this cycle
    Images,     \* computation images the linker may be given
    PageSets    \* sets of transports it may be given

Cycles == 0 .. Horizon
Streams == 0 .. StreamCount - 1

IssueType ==
    [first   : Cycles,
     last    : Cycles,
     queue   : Queues \cup {NoQueue},
     streams : SUBSET Streams]

\* The ingress windows the compiler names for the page of one use.
UseType == [ready : Cycles, windows : SUBSET [start : Cycles, end : Cycles]]

\* A WeightPrefetchPlan with the MEM queues of its segments.
PageType ==
    [id       : Nat,
     start    : Cycles,
     earliest : Cycles,
     ready    : Cycles,
     uses     : SUBSET UseType,
     queues   : SUBSET Queues,
     streams  : SUBSET Streams]

ASSUME StreamsAssumption == StreamCount \in Nat /\ Lanes \in 1 .. StreamCount
ASSUME BoundsAssumption ==
    /\ Horizon \in Nat
    /\ TileRows \in Nat
    /\ Guard \in Nat \ {0}
    /\ TileRows <= Guard
    /\ NoQueue \notin Queues
ASSUME ImagesAssumption ==
    \A image \in Images :
        image \subseteq IssueType /\ \A i \in image : i.first <= i.last
ASSUME PagesAssumption ==
    \A set \in PageSets :
        /\ set \subseteq PageType
        /\ IsFiniteSet(set)
        /\ \A p, q \in set : p.id = q.id => p = q
        /\ \A p \in set : p.uses # {} /\ \E u \in p.uses : u.ready = p.ready
\* The windows of one name belong to successive visits of an operator, and
\* end where their operator starts.
ASSUME WindowsAssumption ==
    \A set \in PageSets : \A p \in set : \A u \in p.uses :
        \A v, w \in u.windows : v.end = w.end => v = w

-----------------------------------------------------------------------------
(***************************************************************************)
(* CommonOverlapCalendar over a finished image.                            *)
(***************************************************************************)
MaxOr0(S) == IF S = {} THEN 0 ELSE CHOOSE x \in S : \A y \in S : y <= x

\* The cycles the calendar keeps of a set of issues: where each starts and
\* where its train ends.
Points(issues) == {i.first : i \in issues} \cup {i.last : i \in issues}

OnQueue(image, q) == {i \in image : i.queue = q}
OnStream(image, s) == {i \in image : s \in i.streams}

\* release: where the last of the points before stop has drained.
Release(points, stop, guard) == MaxOr0({c + guard : c \in {d \in points : d < stop}})

\* crossing_release: where the trains that run across the stop have drained.
CrossingRelease(issues, stop) ==
    MaxOr0({i.last + Guard : i \in {j \in issues : j.first < stop /\ stop <= j.last
                                                     /\ j.first < j.last}})

Larger(a, b) == IF a < b THEN b ELSE a

\* The cycle schedule hands to schedule_common: neither before the launch hint
\* of the plan nor before the page's rows are free.
Earliest(page) == Larger(page.start, page.earliest)

QueueRelease(image, q, stop) == Release(Points(OnQueue(image, q)), stop, TileRows)

\* Mutant: only where an issue starts counts, not the train it sets off.
IssueStreamRelease(image, s, stop) ==
    Release({i.first : i \in OnStream(image, s)}, stop, Guard)

StreamRelease(image, s, stop) ==
    Larger(Release(Points(OnStream(image, s)), stop, Guard),
           CrossingRelease(OnStream(image, s), stop))

\* When the page's MEM ports are free of the computation before stop.
PortsFree(image, page, stop) ==
    Larger(Earliest(page), MaxOr0({QueueRelease(image, q, stop) : q \in page.queues}))

Available(image, page, s, stop) ==
    Larger(PortsFree(image, page, stop), StreamRelease(image, s, stop))

\* Mutant: the launch waits for the streams of every lane.
LaunchOnAll(image, page, stop) ==
    MaxOr0({Available(image, page, s, stop) : s \in Streams})

\* select: the earliest launch any one stream allows.
Launch(image, page, stop) ==
    CHOOSE e \in {Available(image, page, s, stop) : s \in Streams} :
        \A s \in Streams : e <= Available(image, page, s, stop)

FreeStreams(image, page, stop) ==
    {s \in Streams : Available(image, page, s, stop) <= Launch(image, page, stop)}

\* select: of those, the highest ones, as many as there are lanes.
LeaseStreams(image, page, stop) ==
    {s \in FreeStreams(image, page, stop) :
        Cardinality({r \in FreeStreams(image, page, stop) : r > s}) < Lanes}

\* validate: the whole computation before the stop has drained at the stop.
FullyDrained(image, stop) ==
    /\ Release(Points(image), stop, Guard) <= stop
    /\ CrossingRelease(image, stop) <= stop

LeaseValid(image, page, launch, stop, streams) ==
    /\ FullyDrained(image, stop)
    /\ launch <= stop
    /\ streams # {}
    /\ Cardinality(streams) <= Lanes
    /\ \A q \in page.queues : QueueRelease(image, q, stop) <= launch
    /\ \A s \in streams : StreamRelease(image, s, stop) <= launch

-----------------------------------------------------------------------------
(***************************************************************************)
(* schedule_common.                                                        *)
(***************************************************************************)
\* The latest window of the name that ends by the time of the use.
InTime(use) == {w \in use.windows : w.end <= use.ready}
Window(use) == CHOOSE w \in InTime(use) : \A v \in InTime(use) : v.end <= w.end

WindowsFound(page) ==
    \A u \in page.uses : InTime(u) # {} /\ Window(u).start < Window(u).end

IngressBegin(page) == MaxOr0({Window(u).start : u \in page.uses})

Ends(page) == {page.ready} \cup {Window(u).end : u \in page.uses}
Stop(page) == CHOOSE c \in Ends(page) : \A d \in Ends(page) : c <= d

\* Transports of one ready cycle belong to one operator, before which one
\* window of the compiler ends; so one event tag is not found at two stops.
ASSUME EpochsAssumption ==
    \A set \in PageSets : \A p, q \in set :
        p.ready = q.ready /\ WindowsFound(p) /\ WindowsFound(q) => Stop(p) = Stop(q)

\* validate_common_drain_window: the window is as long as the drain takes and
\* the computation issues nothing in the last Guard cycles before the stop.
DrainWindow(image, page) ==
    /\ Stop(page) - IngressBegin(page) >= Guard
    /\ \A i \in image : i.first < Stop(page) => i.first < Stop(page) - Guard

Stoppable(image, page) ==
    /\ WindowsFound(page)
    /\ Earliest(page) <= Stop(page)
    /\ DrainWindow(image, page)

\* What schedule_common records of a page: common_page_ranges_, the barrier
\* and the association of its uses.  Without a calendar the transport starts
\* at the stop, on the streams of its plan.
Linked(image, overlap, page) ==
    LET stop == Stop(page) IN
    [page    |-> page,
     stop    |-> stop,
     launch  |-> IF overlap THEN Launch(image, page, stop) ELSE stop,
     streams |-> IF overlap THEN LeaseStreams(image, page, stop) ELSE page.streams]

Linkable(image, overlap, page) ==
    /\ Stoppable(image, page)
    /\ overlap =>
           LeaseValid(image, page, Launch(image, page, Stop(page)), Stop(page),
                      LeaseStreams(image, page, Stop(page)))

-----------------------------------------------------------------------------
VARIABLES
    image,      \* the final computation image
    overlap,    \* overlap_calendar_ is there
    waiting,    \* transports not linked yet
    linked,     \* linked transports, in the order of the physical FIFOs
    barriers,   \* linked_page_barriers_: <<stop, event tag>>
    events,     \* common_events_: which pages an event tag stands for
    status      \* "open", "linked" or "refused"

vars == <<image, overlap, waiting, linked, barriers, events, status>>

Items(s) == {s[i] : i \in DOMAIN s}

Init ==
    /\ image \in Images
    /\ overlap \in BOOLEAN
    /\ waiting \in PageSets
    /\ linked = <<>>
    /\ barriers = {}
    /\ events = {}
    /\ status = "open"

\* The comparison of launchOrder: consumers in their order, then launches.
LaunchesBefore(p, q) ==
    \/ p.ready < q.ready
    \/ p.ready = q.ready /\ p.start < q.start

Foremost == {p \in waiting : \A q \in waiting : ~LaunchesBefore(q, p)}

\* Transports that are needed at the same cycle share an execution epoch and
\* its event tag.  Tags are handed out in the order of the epochs, so the
\* cycle stands for the tag.
Tag(page) == page.ready

Link ==
    /\ status = "open"
    /\ \E p \in Foremost :
           /\ Linkable(image, overlap, p)
           /\ linked' = Append(linked, Linked(image, overlap, p))
           /\ waiting' = waiting \ {p}
           /\ barriers' = barriers \cup {<<Stop(p), Tag(p)>>}
           /\ events' = events \cup {[tag |-> Tag(p), page |-> p.id]}
    /\ UNCHANGED <<image, overlap, status>>

Refuse ==
    /\ status = "open"
    /\ \E p \in Foremost : ~Linkable(image, overlap, p)
    /\ status' = "refused"
    /\ UNCHANGED <<image, overlap, waiting, linked, barriers, events>>

(***************************************************************************)
(* coalesce_page_ready_events: the tags at one stop become the least of    *)
(* them; an event follows the first stop its tag is found at.              *)
(***************************************************************************)
TagsAt(c) == {b[2] : b \in {d \in barriers : d[1] = c}}
Least(S) == CHOOSE x \in S : \A y \in S : x <= y
Stops == {b[1] : b \in barriers}
Alias(tag) == Least(TagsAt(Least({b[1] : b \in {d \in barriers : d[2] = tag}})))

\* Mutant: an event that is merged into another takes its pages with it.
SurvivingEvents == {e \in events : Alias(e.tag) = e.tag}

MergedBarriers == {<<c, Least(TagsAt(c))>> : c \in Stops}
MergedEvents == {[tag |-> Alias(e.tag), page |-> e.page] : e \in events}

Tags(set) == {e.tag : e \in set}

\* validate_binary_barriers: barriers and events are one to one, and a barrier
\* lies between the launches and the uses of its pages.
BarriersValid(bs, es) ==
    /\ Tags(es) = {b[2] : b \in bs}
    /\ \A b, d \in bs : b[1] = d[1] \/ b[2] = d[2] => b = d
    /\ \A b \in bs : \A e \in es : e.tag = b[2] =>
           \A l \in Items(linked) : l.page.id = e.page =>
               /\ \A u \in l.page.uses : b[1] <= u.ready
               /\ overlap => l.launch <= b[1]

Finalize ==
    /\ status = "open"
    /\ waiting = {}
    /\ barriers' = MergedBarriers
    /\ events' = MergedEvents
    /\ status' = IF BarriersValid(barriers', events') THEN "linked" ELSE "refused"
    /\ UNCHANGED <<image, overlap, waiting, linked>>

Next == Link \/ Refuse \/ Finalize

Spec == Init /\ [][Next]_vars

-----------------------------------------------------------------------------
LinkedType ==
    [page : PageType, stop : Nat, launch : Nat, streams : SUBSET Streams]

TypeOK ==
    /\ image \in Images
    /\ overlap \in BOOLEAN
    /\ waiting \subseteq PageType
    /\ linked \in Seq(LinkedType)
    /\ barriers \subseteq Nat \X Nat
    /\ events \subseteq [tag : Nat, page : Nat]
    /\ status \in {"open", "linked", "refused"}

Leased == {l \in Items(linked) : overlap}

(***************************************************************************)
(* From its launch to its stop a transport has its MEM ports and its       *)
(* streams to itself: what the computation issued on them before the stop, *)
(* whole vector trains included, has drained when the lease begins, and at *)
(* the stop the whole computation has.                                     *)
(***************************************************************************)
LeaseIsFree ==
    \A l \in Leased : \A i \in image : i.first < l.stop =>
        /\ i.queue \in l.page.queues => i.last + TileRows <= l.launch
        /\ i.streams \cap l.streams # {} => i.last + Guard <= l.launch
        /\ i.last + Guard <= l.stop

(***************************************************************************)
(* Overlap costs nothing it need not: no earlier launch would pass the     *)
(* calendar's own validation on any set of streams, and no stream it would *)
(* pass on is left out while a lane has none.                              *)
(***************************************************************************)
LaunchIsEarliest ==
    \A l \in Leased :
        /\ \A e \in Earliest(l.page) .. l.launch - 1 : \A s \in Streams :
               ~LeaseValid(image, l.page, e, l.stop, {s})
        /\ \A s \in Streams \ l.streams :
               LeaseValid(image, l.page, l.launch, l.stop, {s})
                   => Cardinality(l.streams) = Lanes

(***************************************************************************)
(* One page event stands at each stop and it is for exactly the pages that *)
(* were linked for that stop.                                              *)
(***************************************************************************)
CompleteJoin ==
    status = "linked" =>
        \A c \in {l.stop : l \in Items(linked)} :
            \E b \in barriers :
                /\ b[1] = c
                /\ \A d \in barriers : d[1] = c => d = b
                /\ {e.page : e \in {f \in events : f.tag = b[2]}}
                       = {l.page.id : l \in {m \in Items(linked) : m.stop = c}}
=============================================================================
