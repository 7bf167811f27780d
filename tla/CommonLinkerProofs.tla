------------------------- MODULE CommonLinkerProofs -------------------------
(***************************************************************************)
(* What CommonLinker promises, for every image, every set of pages and     *)
(* every geometry of the chip.  A lease is a function of the image and the *)
(* page, so the invariant says that the linked pages are pages of one set, *)
(* linkable, and recorded as schedule_common records them; the rest are    *)
(* facts about one lease, and the join of the pages of one stop.           *)
(***************************************************************************)
EXTENDS CommonLinker, BoundedNumbers, FiniteSetTheorems, TLAPS

-----------------------------------------------------------------------------
(***************************************************************************)
(* Extrema of sets of cycles.                                              *)
(***************************************************************************)
\* MaxOr0 is an upper bound of a bounded set, and one of its elements or 0.
LEMMA MaxOr0Bounds ==
  ASSUME NEW n \in Nat, NEW S \in SUBSET (0 .. n)
  PROVE  /\ MaxOr0(S) \in 0 .. n
         /\ \A y \in S : y <= MaxOr0(S)
         /\ MaxOr0(S) = 0 \/ MaxOr0(S) \in S
<1>1. CASE S = {}
  BY <1>1 DEF MaxOr0
<1>2. CASE S # {}
  <2>1. PICK x \in S : \A y \in S : x >= y
    BY <1>2, GreatestNatural
  <2>2. \A y \in S : y <= x
    BY <2>1
  <2>3. MaxOr0(S) \in S /\ \A y \in S : y <= MaxOr0(S)
    BY <1>2, <2>2 DEF MaxOr0
  <2> QED
    BY <2>3
<1> QED
  BY <1>1, <1>2

\* Least is the least element of a nonempty bounded set.
LEMMA LeastBounds ==
  ASSUME NEW n \in Nat, NEW S \in SUBSET (0 .. n), S # {}
  PROVE  Least(S) \in S /\ \A y \in S : Least(S) <= y
<1>1. PICK x \in S : \A y \in S : x <= y
  BY LeastNatural
<1> QED
  BY <1>1 DEF Least

\* Where the points before a stop have drained: behind each of them, and not
\* behind any cycle that is behind all of them.
LEMMA ReleaseBounds ==
  ASSUME NEW points \in SUBSET Cycles, NEW stop \in Nat, NEW guard \in Nat
  PROVE  /\ Release(points, stop, guard) \in 0 .. Horizon + guard
         /\ \A c \in points : c < stop => c + guard <= Release(points, stop, guard)
<1> DEFINE S == {c + guard : c \in {d \in points : d < stop}}
<1>1. Horizon + guard \in Nat
  BY BoundsAssumption
<1>2. S \in SUBSET (0 .. Horizon + guard)
  BY BoundsAssumption DEF Cycles
<1>3. MaxOr0(S) \in 0 .. Horizon + guard /\ \A y \in S : y <= MaxOr0(S)
  BY <1>1, <1>2, MaxOr0Bounds
<1>4. Release(points, stop, guard) = MaxOr0(S)
  BY DEF Release
<1>5. \A c \in points : c < stop => c + guard \in S
  OBVIOUS
<1> QED
  BY <1>1, <1>3, <1>4, <1>5

\* A train that runs across the stop has not drained at it.
LEMMA CrossingBounds ==
  ASSUME NEW issues \in SUBSET IssueType, NEW stop \in Nat
  PROVE  /\ CrossingRelease(issues, stop) \in 0 .. Horizon + Guard
         /\ \A i \in issues : i.first < stop /\ stop <= i.last /\ i.first < i.last
                => i.last + Guard <= CrossingRelease(issues, stop)
<1> DEFINE S == {i.last + Guard : i \in {j \in issues : j.first < stop /\ stop <= j.last
                                                     /\ j.first < j.last}}
<1>1. Horizon + Guard \in Nat
  BY BoundsAssumption
<1>2. S \in SUBSET (0 .. Horizon + Guard)
  BY BoundsAssumption DEF Cycles, IssueType
<1>3. MaxOr0(S) \in 0 .. Horizon + Guard /\ \A y \in S : y <= MaxOr0(S)
  BY <1>1, <1>2, MaxOr0Bounds
<1>4. CrossingRelease(issues, stop) = MaxOr0(S)
  BY DEF CrossingRelease
<1> QED
  BY <1>1, <1>3, <1>4

\* The calendar's two numbers cover whole trains: an issue before a stop has
\* drained by its release and its crossing release.
LEMMA TrainsCovered ==
  ASSUME NEW issues \in SUBSET IssueType, NEW stop \in Nat, NEW i \in issues,
         i.first < stop, i.first <= i.last, NEW bound \in Nat,
         Release(Points(issues), stop, Guard) <= bound,
         CrossingRelease(issues, stop) <= bound
  PROVE  i.last + Guard <= bound
<1>1. /\ i.first \in Nat
      /\ i.last \in Nat
      /\ Guard \in Nat
  BY BoundsAssumption DEF IssueType, Cycles
<1>2. Points(issues) \in SUBSET Cycles
  BY DEF Points, IssueType
<1>3. i.last \in Points(issues) /\ i.first \in Points(issues)
  BY DEF Points
<1>4. CASE i.last < stop
  BY <1>1, <1>2, <1>3, <1>4, ReleaseBounds
<1>5. CASE stop <= i.last
  BY <1>1, <1>5, CrossingBounds
<1> QED
  BY <1>1, <1>4, <1>5

\* The parts of an image are sets of issues, and their points are cycles.
LEMMA PartsTyped ==
  ASSUME NEW im \in Images, NEW q, NEW s
  PROVE  /\ im \in SUBSET IssueType
         /\ OnQueue(im, q) \in SUBSET IssueType
         /\ OnStream(im, s) \in SUBSET IssueType
         /\ \A issues \in SUBSET IssueType : Points(issues) \in SUBSET Cycles
         /\ \A i \in im : i.first \in Cycles /\ i.last \in Cycles /\ i.first <= i.last
<1>1. im \subseteq IssueType /\ \A i \in im : i.first <= i.last
  BY ImagesAssumption
<1>2. \A i \in IssueType : i.first \in Cycles /\ i.last \in Cycles
  BY DEF IssueType
<1> QED
  BY <1>1, <1>2 DEF OnQueue, OnStream, Points

\* The releases of the queues and the streams are cycles.
LEMMA ReleasesTyped ==
  ASSUME NEW im \in Images, NEW stop \in Nat, NEW q, NEW s
  PROVE  /\ QueueRelease(im, q, stop) \in 0 .. Horizon + Guard
         /\ StreamRelease(im, s, stop) \in 0 .. Horizon + Guard
<1>1. /\ Release(Points(OnQueue(im, q)), stop, TileRows) \in 0 .. Horizon + TileRows
      /\ Release(Points(OnStream(im, s)), stop, Guard) \in 0 .. Horizon + Guard
  BY PartsTyped, ReleaseBounds, BoundsAssumption
<1>2. CrossingRelease(OnStream(im, s), stop) \in 0 .. Horizon + Guard
  BY PartsTyped, CrossingBounds
<1> QED
  BY <1>1, <1>2, BoundsAssumption DEF QueueRelease, StreamRelease, Larger

\* The ports of a page are free no sooner than the page may start and than
\* each of them is; and at one of those cycles.
LEMMA PortsFreeBounds ==
  ASSUME NEW im \in Images, NEW p \in PageType, NEW stop \in Nat
  PROVE  /\ PortsFree(im, p, stop) \in 0 .. Horizon + Guard
         /\ Earliest(p) \in Cycles
         /\ Earliest(p) <= PortsFree(im, p, stop)
         /\ \A q \in p.queues : QueueRelease(im, q, stop) <= PortsFree(im, p, stop)
         /\ \A e \in Nat : Earliest(p) <= e
                            /\ (\A q \in p.queues : QueueRelease(im, q, stop) <= e)
                                => PortsFree(im, p, stop) <= e
<1> DEFINE S == {QueueRelease(im, q, stop) : q \in p.queues}
<1>1. Horizon + Guard \in Nat /\ Horizon \in Nat /\ Guard \in Nat
  BY BoundsAssumption
<1>2. S \in SUBSET (0 .. Horizon + Guard)
  BY ReleasesTyped
<1>3. /\ MaxOr0(S) \in 0 .. Horizon + Guard
      /\ \A y \in S : y <= MaxOr0(S)
      /\ MaxOr0(S) = 0 \/ MaxOr0(S) \in S
  BY <1>1, <1>2, MaxOr0Bounds
<1>4. Earliest(p) \in Cycles
  BY DEF PageType, Earliest, Larger
<1>5. PortsFree(im, p, stop) = Larger(Earliest(p), MaxOr0(S))
  BY DEF PortsFree
<1>6. \A q \in p.queues : QueueRelease(im, q, stop) \in S
  OBVIOUS
<1>7. \A e \in Nat : (\A q \in p.queues : QueueRelease(im, q, stop) <= e)
                          => MaxOr0(S) <= e
  BY <1>1, <1>3
<1> DEFINE m == MaxOr0(S)
           g == PortsFree(im, p, stop)
<1> HIDE DEF S
<1>8. /\ g \in 0 .. Horizon + Guard
      /\ Earliest(p) <= g
      /\ m <= g
      /\ g = m \/ g = Earliest(p)
  BY <1>1, <1>3, <1>4, <1>5 DEF Larger, Cycles
<1>9. \A q \in p.queues : QueueRelease(im, q, stop) <= g
  <2> TAKE q \in p.queues
  <2>1. QueueRelease(im, q, stop) \in Nat /\ QueueRelease(im, q, stop) <= m
    BY <1>3, <1>6, ReleasesTyped
  <2> QED
    BY <1>1, <1>3, <1>8, <2>1
<1> QED
  BY <1>4, <1>7, <1>8, <1>9

\* A stream is available when the ports are and the stream is.
LEMMA AvailableBounds ==
  ASSUME NEW im \in Images, NEW p \in PageType, NEW stop \in Nat, NEW s
  PROVE  /\ Available(im, p, s, stop) \in 0 .. Horizon + Guard
         /\ PortsFree(im, p, stop) <= Available(im, p, s, stop)
         /\ StreamRelease(im, s, stop) <= Available(im, p, s, stop)
         /\ \A e : PortsFree(im, p, stop) <= e /\ StreamRelease(im, s, stop) <= e
                     => Available(im, p, s, stop) <= e
  BY PortsFreeBounds, ReleasesTyped, BoundsAssumption DEF Available, Larger

\* select returns the least cycle at which some stream is available.
LEMMA LaunchBounds ==
  ASSUME NEW im \in Images, NEW p \in PageType, NEW stop \in Nat
  PROVE  /\ Launch(im, p, stop) \in 0 .. Horizon + Guard
         /\ PortsFree(im, p, stop) <= Launch(im, p, stop)
         /\ \A s \in Streams : Launch(im, p, stop) <= Available(im, p, s, stop)
<1> DEFINE S == {Available(im, p, s, stop) : s \in Streams}
<1>1. Horizon + Guard \in Nat
  BY BoundsAssumption
<1>2. S \in SUBSET (0 .. Horizon + Guard)
  BY AvailableBounds
<1>3. Available(im, p, 0, stop) \in S
  BY StreamsAssumption DEF Streams
<1>4. PICK e \in S : \A y \in S : e <= y
  BY <1>1, <1>2, <1>3, LeastNatural
<1>5. \A s \in Streams : e <= Available(im, p, s, stop)
  BY <1>4
<1>6. Launch(im, p, stop) \in S
      /\ \A s \in Streams : Launch(im, p, stop) <= Available(im, p, s, stop)
  BY <1>4, <1>5 DEF Launch
<1>7. PICK s \in Streams : Launch(im, p, stop) = Available(im, p, s, stop)
  BY <1>6
<1> QED
  BY <1>2, <1>6, <1>7, AvailableBounds

-----------------------------------------------------------------------------
(***************************************************************************)
(* One lease.                                                              *)
(***************************************************************************)
\* A lease that passes the calendar's validation is free of the computation.
LEMMA ValidLeaseIsFree ==
  ASSUME NEW im \in Images, NEW p \in PageType, NEW launch \in Nat, NEW stop \in Nat,
         NEW streams \in SUBSET Streams, LeaseValid(im, p, launch, stop, streams),
         NEW i \in im, i.first < stop
  PROVE  /\ i.queue \in p.queues => i.last + TileRows <= launch
         /\ i.streams \cap streams # {} => i.last + Guard <= launch
         /\ i.last + Guard <= stop
<1>1. i.first \in Nat /\ i.last \in Nat /\ i.first <= i.last /\ i \in IssueType
  BY PartsTyped, BoundsAssumption DEF Cycles
<1>2. i.last + Guard <= stop
  BY <1>1, PartsTyped, TrainsCovered DEF LeaseValid, FullyDrained
<1>3. ASSUME i.queue \in p.queues
      PROVE  i.last + TileRows <= launch
  <2>1. i.last < stop
    BY <1>1, <1>2, BoundsAssumption
  <2>2. i.last \in Points(OnQueue(im, i.queue))
    BY DEF Points, OnQueue
  <2>3. i.last + TileRows <= QueueRelease(im, i.queue, stop)
    BY <2>1, <2>2, PartsTyped, ReleaseBounds, BoundsAssumption DEF QueueRelease
  <2>4. QueueRelease(im, i.queue, stop) <= launch
    BY <1>3 DEF LeaseValid
  <2>5. QueueRelease(im, i.queue, stop) \in Nat
    BY ReleasesTyped, BoundsAssumption
  <2> QED
    BY <1>1, <2>3, <2>4, <2>5, BoundsAssumption
<1>4. ASSUME i.streams \cap streams # {}
      PROVE  i.last + Guard <= launch
  <2>1. PICK s \in streams : s \in i.streams
    BY <1>4
  <2>2. i \in OnStream(im, s)
    BY <2>1 DEF OnStream
  <2>3. StreamRelease(im, s, stop) <= launch
    BY <2>1 DEF LeaseValid
  <2>4. /\ OnStream(im, s) \in SUBSET IssueType
        /\ Points(OnStream(im, s)) \in SUBSET Cycles
    BY PartsTyped
  <2>5. /\ Release(Points(OnStream(im, s)), stop, Guard) \in Nat
        /\ CrossingRelease(OnStream(im, s), stop) \in Nat
    BY <2>4, ReleaseBounds, CrossingBounds, BoundsAssumption
  <2>6. /\ Release(Points(OnStream(im, s)), stop, Guard) <= launch
        /\ CrossingRelease(OnStream(im, s), stop) <= launch
    BY <2>3, <2>5 DEF StreamRelease, Larger
  <2> QED
    BY <1>1, <2>2, <2>4, <2>6, TrainsCovered
<1> QED
  BY <1>2, <1>3, <1>4

\* A cycle at which the calendar would validate a stream, and at which the
\* page may start, is one at which select finds the stream available.
LEMMA ValidIsAvailable ==
  ASSUME NEW im \in Images, NEW p \in PageType, NEW e \in Nat, NEW stop \in Nat,
         NEW s \in Streams, Earliest(p) <= e, LeaseValid(im, p, e, stop, {s})
  PROVE  Available(im, p, s, stop) <= e
<1>1. /\ \A q \in p.queues : QueueRelease(im, q, stop) <= e
      /\ StreamRelease(im, s, stop) <= e
  BY DEF LeaseValid
<1>2. PortsFree(im, p, stop) <= e
  BY <1>1, PortsFreeBounds
<1> QED
  BY <1>1, <1>2, AvailableBounds

\* select fills its lanes: a stream that is free and left out has at least as
\* many free streams above it as there are lanes.
LEMMA LanesFilled ==
  ASSUME NEW Free \in SUBSET Streams, NEW Chosen,
         Chosen = {s \in Free : Cardinality({r \in Free : r > s}) < Lanes},
         NEW t \in Free \ Chosen
  PROVE  Cardinality(Chosen) >= Lanes
<1> DEFINE Above(s) == {r \in Free : r > s}
           Out == {s \in Free : ~(Cardinality(Above(s)) < Lanes)}
<1>1. StreamCount - 1 \in Nat /\ Lanes \in Nat /\ Streams = 0 .. StreamCount - 1
  BY StreamsAssumption DEF Streams
<1>2. Out \in SUBSET (0 .. StreamCount - 1) /\ t \in Out
  BY <1>1
<1>3. PICK u \in Out : \A s \in Out : u >= s
  BY <1>1, <1>2, GreatestNatural
<1>4. IsFiniteSet(Streams)
  BY <1>1, FS_Interval
<1>5. IsFiniteSet(Free) /\ IsFiniteSet(Chosen) /\ IsFiniteSet(Above(u))
  BY <1>4, FS_Subset
<1>6. Above(u) \subseteq Chosen
  <2> SUFFICES ASSUME NEW r \in Free, r > u
               PROVE  r \in Chosen
    OBVIOUS
  <2>1. r \notin Out
    BY <1>1, <1>2, <1>3
  <2> QED
    BY <2>1
<1>7. Cardinality(Above(u)) \in Nat /\ Cardinality(Chosen) \in Nat
  BY <1>5, FS_CardinalityType
<1>8. Cardinality(Above(u)) <= Cardinality(Chosen)
  BY <1>5, <1>6, FS_Subset
<1>9. ~(Cardinality(Above(u)) < Lanes)
  OBVIOUS
<1> QED
  BY <1>1, <1>7, <1>8, <1>9

\* What select finds cannot be had earlier, nor on more streams.
LEMMA LeaseIsEarliest ==
  ASSUME NEW im \in Images, NEW p \in PageType, NEW stop \in Nat,
         NEW launch, launch = Launch(im, p, stop),
         NEW streams, streams = LeaseStreams(im, p, stop),
         LeaseValid(im, p, launch, stop, streams)
  PROVE  /\ \A e \in Earliest(p) .. launch - 1 : \A s \in Streams :
                ~LeaseValid(im, p, e, stop, {s})
         /\ \A s \in Streams \ streams :
                LeaseValid(im, p, launch, stop, {s}) => Cardinality(streams) = Lanes
<1>1. launch \in Nat /\ Earliest(p) \in Nat /\ Earliest(p) <= launch
  BY LaunchBounds, PortsFreeBounds, BoundsAssumption DEF Cycles
<1>2. ASSUME NEW e \in Earliest(p) .. launch - 1, NEW s \in Streams,
             LeaseValid(im, p, e, stop, {s})
      PROVE  FALSE
  <2>1. e \in Nat /\ Earliest(p) <= e /\ e < launch
    BY <1>1
  <2>2. Available(im, p, s, stop) <= e
    BY <1>2, <2>1, ValidIsAvailable
  <2>3. launch <= Available(im, p, s, stop) /\ Available(im, p, s, stop) \in Nat
    BY LaunchBounds, AvailableBounds, BoundsAssumption
  <2> QED
    BY <1>1, <2>1, <2>2, <2>3
<1>3. ASSUME NEW s \in Streams \ streams, LeaseValid(im, p, launch, stop, {s})
      PROVE  Cardinality(streams) = Lanes
  <2>1. s \in FreeStreams(im, p, stop)
    BY <1>1, <1>3, ValidIsAvailable DEF FreeStreams
  <2>2. FreeStreams(im, p, stop) \in SUBSET Streams
    BY DEF FreeStreams
  <2>3. Cardinality(streams) >= Lanes
    BY <1>3, <2>1, <2>2, LanesFilled DEF LeaseStreams
  <2>4. Cardinality(streams) <= Lanes
    BY DEF LeaseValid
  <2>5. IsFiniteSet(streams)
    <3>1. IsFiniteSet(0 .. StreamCount - 1)
      BY StreamsAssumption, FS_Interval
    <3>2. streams \subseteq 0 .. StreamCount - 1
      BY <2>2 DEF LeaseStreams, Streams
    <3> QED
      BY <3>1, <3>2, FS_Subset
  <2> QED
    BY <2>3, <2>4, <2>5, FS_CardinalityType, StreamsAssumption
<1> QED
  BY <1>2, <1>3

-----------------------------------------------------------------------------
(***************************************************************************)
(* The windows of a page and its stop.                                     *)
(***************************************************************************)
\* A use that has a window in time has a latest one.
LEMMA WindowBounds ==
  ASSUME NEW u \in UseType, InTime(u) # {}
  PROVE  Window(u) \in u.windows /\ Window(u).end \in Cycles
<1> DEFINE E == {w.end : w \in InTime(u)}
<1>1. u.windows \subseteq [start : Cycles, end : Cycles]
  BY DEF UseType
<1>2. E \in SUBSET (0 .. Horizon) /\ E # {} /\ Horizon \in Nat
  BY <1>1, BoundsAssumption DEF InTime, Cycles
<1>3. PICK x \in E : \A y \in E : x >= y
  BY <1>2, GreatestNatural
<1>4. PICK w \in InTime(u) : w.end = x
  BY <1>3
<1>5. \A v \in InTime(u) : v.end <= w.end
  BY <1>2, <1>3, <1>4
<1>6. Window(u) \in InTime(u)
  BY <1>4, <1>5 DEF Window
<1> QED
  BY <1>1, <1>6 DEF InTime

\* The stop of a page with windows is a cycle.
LEMMA StopTyped ==
  ASSUME NEW p \in PageType, WindowsFound(p)
  PROVE  Stop(p) \in Cycles
<1>1. \A u \in p.uses : u \in UseType /\ InTime(u) # {}
  BY DEF PageType, WindowsFound
<1>2. Ends(p) \in SUBSET (0 .. Horizon)
  BY <1>1, WindowBounds DEF Ends, Cycles, PageType
<1>3. Ends(p) # {} /\ Horizon \in Nat
  BY BoundsAssumption DEF Ends
<1>4. PICK x \in Ends(p) : \A y \in Ends(p) : x <= y
  BY <1>2, <1>3, LeastNatural
<1>5. Stop(p) \in Ends(p)
  BY <1>4 DEF Stop
<1> QED
  BY <1>2, <1>5 DEF Cycles

-----------------------------------------------------------------------------
(***************************************************************************)
(* The invariant.                                                          *)
(***************************************************************************)
\* A linked page is linkable, and is recorded as schedule_common records it.
LinkedFrom(set) ==
    \A l \in Items(linked) :
        /\ l.page \in set
        /\ Linkable(image, overlap, l.page)
        /\ l = Linked(image, overlap, l.page)

\* While the schedule is open, every linked page has its barrier and event.
Recorded ==
    status = "open" =>
        /\ barriers = {<<l.stop, Tag(l.page)>> : l \in Items(linked)}
        /\ events = {[tag |-> Tag(l.page), page |-> l.page.id] : l \in Items(linked)}

IInv ==
    /\ image \in Images
    /\ overlap \in BOOLEAN
    /\ status \in {"open", "linked", "refused"}
    /\ linked \in Seq(LinkedType)
    /\ barriers \subseteq Nat \X Nat
    /\ events \subseteq [tag : Nat, page : Nat]
    /\ \E set \in PageSets : waiting \subseteq set /\ LinkedFrom(set)
    /\ Recorded
    /\ CompleteJoin

\* What a page becomes when it is linked has the type of a linked page.
LEMMA LinkedTyped ==
  ASSUME NEW im \in Images, NEW ov \in BOOLEAN, NEW p \in PageType,
         Linkable(im, ov, p)
  PROVE  Linked(im, ov, p) \in LinkedType
<1>1. Stop(p) \in Nat
  BY StopTyped, BoundsAssumption DEF Linkable, Stoppable, Cycles
<1>2. Launch(im, p, Stop(p)) \in Nat
  BY <1>1, LaunchBounds, BoundsAssumption
<1>3. LeaseStreams(im, p, Stop(p)) \subseteq Streams /\ p.streams \subseteq Streams
  BY DEF LeaseStreams, FreeStreams, PageType
<1> QED
  BY <1>1, <1>2, <1>3 DEF Linked, LinkedType

\* Appending to a sequence adds one item.
LEMMA ItemsAppend ==
  ASSUME NEW S, NEW s \in Seq(S), NEW x \in S
  PROVE  Items(Append(s, x)) = Items(s) \cup {x}
<1>1. /\ DOMAIN Append(s, x) = 1 .. Len(s) + 1
      /\ \A i \in 1 .. Len(s) : Append(s, x)[i] = s[i]
      /\ Append(s, x)[Len(s) + 1] = x
      /\ DOMAIN s = 1 .. Len(s)
      /\ Len(s) \in Nat
  OBVIOUS
<1>2. Items(Append(s, x)) \subseteq Items(s) \cup {x}
  <2> SUFFICES ASSUME NEW i \in 1 .. Len(s) + 1
               PROVE  Append(s, x)[i] \in Items(s) \cup {x}
    BY <1>1 DEF Items
  <2>1. CASE i = Len(s) + 1
    BY <1>1, <2>1
  <2>2. CASE i # Len(s) + 1
    <3>1. i \in 1 .. Len(s)
      BY <1>1, <2>2
    <3> QED
      BY <1>1, <3>1 DEF Items
  <2> QED
    BY <2>1, <2>2
<1>3. Items(s) \cup {x} \subseteq Items(Append(s, x))
  <2>1. \A i \in 1 .. Len(s) : s[i] = Append(s, x)[i] /\ i \in 1 .. Len(s) + 1
    BY <1>1
  <2>2. Len(s) + 1 \in 1 .. Len(s) + 1
    BY <1>1
  <2> QED
    BY <1>1, <2>1, <2>2 DEF Items
<1> QED
  BY <1>2, <1>3

-----------------------------------------------------------------------------
(***************************************************************************)
(* coalesce_page_ready_events joins the pages of a stop, and its tags are   *)
(* those of linked pages.                                                  *)
(***************************************************************************)
LEMMA MergeJoins ==
  ASSUME IInv, status = "open"
  PROVE  /\ MergedBarriers \subseteq Nat \X Nat
         /\ MergedEvents \subseteq [tag : Nat, page : Nat]
         /\ \A c \in {l.stop : l \in Items(linked)} :
               \E b \in MergedBarriers :
                   /\ b[1] = c
                   /\ \A d \in MergedBarriers : d[1] = c => d = b
                   /\ {e.page : e \in {f \in MergedEvents : f.tag = b[2]}}
                          = {l.page.id : l \in {m \in Items(linked) : m.stop = c}}
<1>1. PICK set \in PageSets : LinkedFrom(set)
  BY DEF IInv
<1>2. /\ barriers = {<<l.stop, Tag(l.page)>> : l \in Items(linked)}
      /\ events = {[tag |-> Tag(l.page), page |-> l.page.id] : l \in Items(linked)}
  BY DEF IInv, Recorded
<1>3. \A l \in Items(linked) :
          /\ l.page \in set /\ l.page \in PageType
          /\ WindowsFound(l.page)
          /\ l.stop = Stop(l.page)
          /\ l.stop \in Cycles /\ Tag(l.page) \in Cycles
  <2> TAKE l \in Items(linked)
  <2>1. /\ l.page \in set /\ Linkable(image, overlap, l.page)
        /\ l = Linked(image, overlap, l.page)
    BY <1>1 DEF LinkedFrom
  <2>2. l.page \in PageType
    BY <2>1, PagesAssumption
  <2>3. WindowsFound(l.page)
    BY <2>1 DEF Linkable, Stoppable
  <2>4. l.stop = Stop(l.page)
    BY <2>1 DEF Linked
  <2> QED
    BY <2>1, <2>2, <2>3, <2>4, StopTyped DEF Tag, PageType
\* A tag is found at one stop only.
<1>4. \A l, m \in Items(linked) : Tag(l.page) = Tag(m.page) => l.stop = m.stop
  BY <1>3, EpochsAssumption DEF Tag
<1>5. \A c : TagsAt(c) = {Tag(l.page) : l \in {m \in Items(linked) : m.stop = c}}
  <2> TAKE c
  <2>1. ASSUME NEW l \in Items(linked), l.stop = c
        PROVE  Tag(l.page) \in TagsAt(c)
    <3> DEFINE d == <<l.stop, Tag(l.page)>>
    <3>1. d \in barriers /\ d[1] = c /\ d[2] = Tag(l.page)
      BY <1>2, <2>1
    <3> HIDE DEF d
    <3> QED
      BY <3>1 DEF TagsAt
  <2>2. \A t \in TagsAt(c) : \E l \in Items(linked) : l.stop = c /\ t = Tag(l.page)
    BY <1>2 DEF TagsAt
  <2> QED
    BY <2>1, <2>2
<1>6. \A l \in Items(linked) :
          /\ Least(TagsAt(l.stop)) \in TagsAt(l.stop)
          /\ \E m \in Items(linked) :
                 m.stop = l.stop /\ Tag(m.page) = Least(TagsAt(l.stop))
  <2> TAKE l \in Items(linked)
  <2>1. TagsAt(l.stop) \in SUBSET (0 .. Horizon) /\ TagsAt(l.stop) # {}
    BY <1>3, <1>5 DEF Cycles
  <2>2. Least(TagsAt(l.stop)) \in TagsAt(l.stop)
    BY <2>1, LeastBounds, BoundsAssumption
  <2> QED
    BY <1>5, <2>2
<1>7. \A l \in Items(linked) : Alias(Tag(l.page)) = Least(TagsAt(l.stop))
  <2> TAKE l \in Items(linked)
  <2> DEFINE At == {b[1] : b \in {d \in barriers : d[2] = Tag(l.page)}}
  <2>1. At = {l.stop}
    <3>1. \A c \in At : c = l.stop
      BY <1>2, <1>4
    <3>2. l.stop \in At
      <4>1. <<l.stop, Tag(l.page)>> \in barriers
        BY <1>2
      <4> QED
        BY <4>1
    <3> QED
      BY <3>1, <3>2
  <2>2. At \in SUBSET (0 .. Horizon) /\ At # {}
    BY <1>3, <2>1 DEF Cycles
  <2>3. Least(At) = l.stop
    BY <2>1, <2>2, LeastBounds, BoundsAssumption
  <2> QED
    BY <2>3 DEF Alias
\* Different stops have different least tags.
<1>8. \A l, m \in Items(linked) :
          Least(TagsAt(l.stop)) = Least(TagsAt(m.stop)) => l.stop = m.stop
  BY <1>4, <1>6
<1>9. MergedEvents = {[tag |-> Least(TagsAt(l.stop)), page |-> l.page.id] : l \in Items(linked)}
  <2>1. ASSUME NEW l \in Items(linked)
        PROVE  [tag |-> Alias(Tag(l.page)), page |-> l.page.id] \in MergedEvents
    <3> DEFINE e == [tag |-> Tag(l.page), page |-> l.page.id]
    <3>1. e \in events /\ e.tag = Tag(l.page) /\ e.page = l.page.id
      BY <1>2
    <3> HIDE DEF e
    <3> QED
      BY <3>1 DEF MergedEvents
  <2>2. \A e \in MergedEvents : \E l \in Items(linked) :
            e = [tag |-> Alias(Tag(l.page)), page |-> l.page.id]
    BY <1>2 DEF MergedEvents
  <2> QED
    BY <1>7, <2>1, <2>2
<1>10. MergedEvents \subseteq [tag : Nat, page : Nat]
  <2> SUFFICES ASSUME NEW l \in Items(linked)
               PROVE  [tag |-> Least(TagsAt(l.stop)), page |-> l.page.id]
                          \in [tag : Nat, page : Nat]
    BY <1>9
  <2>1. Least(TagsAt(l.stop)) \in Nat
    BY <1>3, <1>6, BoundsAssumption DEF Cycles
  <2>2. l.page.id \in Nat
    BY <1>3 DEF PageType
  <2> QED
    BY <2>1, <2>2
<1>11. MergedBarriers \subseteq Nat \X Nat
  <2> SUFFICES ASSUME NEW c \in Stops
               PROVE  c \in Nat /\ Least(TagsAt(c)) \in Nat
    BY DEF MergedBarriers
  <2>1. PICK l \in Items(linked) : c = l.stop
    BY <1>2 DEF Stops
  <2> QED
    BY <1>3, <1>6, <2>1, BoundsAssumption DEF Cycles
<1>12. SUFFICES ASSUME NEW k \in Items(linked)
               PROVE  \E b \in MergedBarriers :
                /\ b[1] = k.stop
                /\ \A d \in MergedBarriers : d[1] = k.stop => d = b
                /\ {e.page : e \in {f \in MergedEvents : f.tag = b[2]}}
                       = {l.page.id : l \in {m \in Items(linked) : m.stop = k.stop}}
  BY <1>10, <1>11
<1> DEFINE b == <<k.stop, Least(TagsAt(k.stop))>>
<1>13. b \in MergedBarriers
  <2>1. <<k.stop, Tag(k.page)>> \in barriers
    BY <1>2
  <2>2. k.stop \in Stops
    BY <2>1 DEF Stops
  <2> QED
    BY <2>2 DEF MergedBarriers
<1>14. \A d \in MergedBarriers : d[1] = k.stop => d = b
  BY DEF MergedBarriers
<1>15. {e.page : e \in {f \in MergedEvents : f.tag = b[2]}}
           = {l.page.id : l \in {m \in Items(linked) : m.stop = k.stop}}
  <2> DEFINE Found == {e.page : e \in {f \in MergedEvents : f.tag = b[2]}}
             Due == {l.page.id : l \in {m \in Items(linked) : m.stop = k.stop}}
  <2>1. \A x \in Due : x \in Found
    <3> SUFFICES ASSUME NEW l \in Items(linked), l.stop = k.stop
                 PROVE  l.page.id \in Found
      OBVIOUS
    <3> DEFINE e == [tag |-> Least(TagsAt(l.stop)), page |-> l.page.id]
    <3>1. e \in MergedEvents /\ e.tag = b[2] /\ e.page = l.page.id
      BY <1>9
    <3> QED
      BY <3>1
  <2>2. \A x \in Found : x \in Due
    <3> SUFFICES ASSUME NEW e \in MergedEvents, e.tag = b[2]
                 PROVE  e.page \in Due
      OBVIOUS
    <3>1. PICK l \in Items(linked) : e = [tag |-> Least(TagsAt(l.stop)), page |-> l.page.id]
      BY <1>9
    <3>2. l.stop = k.stop
      BY <1>8, <3>1
    <3> QED
      BY <3>1, <3>2
  <2> QED
    BY <2>1, <2>2
<1> QED
  BY <1>13, <1>14, <1>15

-----------------------------------------------------------------------------
\* The invariant holds of an open schedule with nothing linked.
LEMMA InitIInv == Init => IInv
<1> SUFFICES ASSUME Init
             PROVE  IInv
  OBVIOUS
<1>1. Items(linked) = {}
  BY DEF Init, Items
<1>2. \E set \in PageSets : waiting \subseteq set /\ LinkedFrom(set)
  BY <1>1 DEF Init, LinkedFrom
<1>3. Recorded /\ CompleteJoin
  BY <1>1 DEF Init, Recorded, CompleteJoin
<1> QED
  BY <1>2, <1>3 DEF Init, IInv

\* schedule_common keeps the invariant.
LEMMA LinkIInv ==
  ASSUME IInv, Link
  PROVE  IInv'
<1>1. PICK set \in PageSets : waiting \subseteq set /\ LinkedFrom(set)
  BY DEF IInv
<1>2. PICK p \in Foremost :
          /\ Linkable(image, overlap, p)
          /\ linked' = Append(linked, Linked(image, overlap, p))
          /\ waiting' = waiting \ {p}
          /\ barriers' = barriers \cup {<<Stop(p), Tag(p)>>}
          /\ events' = events \cup {[tag |-> Tag(p), page |-> p.id]}
  BY DEF Link
<1>3. status = "open" /\ UNCHANGED <<image, overlap, status>>
  BY DEF Link
<1>4. p \in set /\ p \in PageType
  BY <1>1, PagesAssumption DEF Foremost
<1> DEFINE x == Linked(image, overlap, p)
<1>5. x \in LinkedType /\ x.page = p /\ x.stop = Stop(p)
  BY <1>2, <1>4, LinkedTyped DEF Linked, IInv
<1>6. Items(linked') = Items(linked) \cup {x} /\ linked' \in Seq(LinkedType)
  BY <1>2, <1>5, ItemsAppend DEF IInv
<1>7. waiting' \subseteq set /\ LinkedFrom(set)'
  BY <1>1, <1>2, <1>3, <1>4, <1>5, <1>6 DEF LinkedFrom
<1>8. Recorded'
  <2>1. /\ barriers = {<<l.stop, Tag(l.page)>> : l \in Items(linked)}
        /\ events = {[tag |-> Tag(l.page), page |-> l.page.id] : l \in Items(linked)}
    BY <1>3 DEF IInv, Recorded
  <2>2. barriers' = {<<l.stop, Tag(l.page)>> : l \in Items(linked')}
    BY <1>2, <1>5, <1>6, <2>1
  <2>3. events' = {[tag |-> Tag(l.page), page |-> l.page.id] : l \in Items(linked')}
    BY <1>2, <1>5, <1>6, <2>1
  <2> QED
    BY <2>2, <2>3 DEF Recorded
<1>9. CompleteJoin'
  BY <1>3 DEF CompleteJoin
<1>10. barriers' \subseteq Nat \X Nat /\ events' \subseteq [tag : Nat, page : Nat]
  BY <1>2, <1>4, <1>5, BoundsAssumption DEF IInv, LinkedType, Tag, PageType, Cycles
<1> QED
  BY <1>3, <1>6, <1>7, <1>8, <1>9, <1>10 DEF IInv

\* finalize_schedule keeps the invariant.
LEMMA FinalizeIInv ==
  ASSUME IInv, Finalize
  PROVE  IInv'
<1>1. /\ status = "open"
      /\ barriers' = MergedBarriers
      /\ events' = MergedEvents
      /\ status' \in {"linked", "refused"}
      /\ UNCHANGED <<image, overlap, waiting, linked>>
  BY DEF Finalize
<1>2. /\ CompleteJoin'
      /\ barriers' \subseteq Nat \X Nat
      /\ events' \subseteq [tag : Nat, page : Nat]
  BY <1>1, MergeJoins DEF CompleteJoin
<1>3. Recorded'
  BY <1>1 DEF Recorded
<1>4. (\E set \in PageSets : waiting \subseteq set /\ LinkedFrom(set))'
  BY <1>1 DEF IInv, LinkedFrom
<1> QED
  BY <1>1, <1>2, <1>3, <1>4 DEF IInv

\* Every step keeps the invariant.
LEMMA StepIInv == IInv /\ [Next]_vars => IInv'
<1> SUFFICES ASSUME IInv, [Next]_vars
             PROVE  IInv'
  OBVIOUS
<1>1. CASE Link
  BY <1>1, LinkIInv
<1>2. CASE Refuse
  BY <1>2 DEF Refuse, IInv, LinkedFrom, Recorded, CompleteJoin
<1>3. CASE Finalize
  BY <1>3, FinalizeIInv
<1>4. CASE UNCHANGED vars
  BY <1>4 DEF vars, IInv, LinkedFrom, Recorded, CompleteJoin
<1> QED
  BY <1>1, <1>2, <1>3, <1>4 DEF Next

\* schedule_common and finalize_schedule keep the invariant.
THEOREM LinkerInvariant == Spec => []IInv
  BY InitIInv, StepIInv, PTL DEF Spec

\* The types of the linker's state.
THEOREM LinkerTypeOK == Spec => []TypeOK
<1>1. ASSUME IInv
      PROVE  TypeOK
  <2>1. waiting \subseteq PageType
    BY <1>1, PagesAssumption DEF IInv
  <2> QED
    BY <1>1, <2>1 DEF IInv, TypeOK
<1> QED
  BY <1>1, LinkerInvariant, PTL

-----------------------------------------------------------------------------
\* Every lease the linker handed out passed the calendar's validation.
LEMMA LeasesValid ==
  ASSUME IInv, NEW l \in Leased
  PROVE  /\ image \in Images
         /\ l.page \in PageType
         /\ l.stop \in Nat /\ l.launch \in Nat /\ l.streams \in SUBSET Streams
         /\ l.launch = Launch(image, l.page, l.stop)
         /\ l.streams = LeaseStreams(image, l.page, l.stop)
         /\ LeaseValid(image, l.page, l.launch, l.stop, l.streams)
<1>1. PICK set \in PageSets : LinkedFrom(set)
  BY DEF IInv
<1>2. l \in Items(linked) /\ overlap
  BY DEF Leased
<1>3. /\ l.page \in set
      /\ Linkable(image, TRUE, l.page)
      /\ l = Linked(image, TRUE, l.page)
  BY <1>1, <1>2 DEF LinkedFrom, IInv
<1>4. l.page \in PageType
  BY <1>3, PagesAssumption
<1>5. l \in LinkedType
  BY <1>3, <1>4, LinkedTyped DEF IInv
<1>6. /\ l.stop = Stop(l.page)
      /\ l.launch = Launch(image, l.page, Stop(l.page))
      /\ l.streams = LeaseStreams(image, l.page, Stop(l.page))
  BY <1>3 DEF Linked
<1> QED
  BY <1>3, <1>4, <1>5, <1>6 DEF Linkable, LinkedType, IInv

\* Every lease the linker hands out is free of the computation, vector trains
\* and drain included.
THEOREM LeasesAreFree == Spec => []LeaseIsFree
<1>1. ASSUME IInv
      PROVE  LeaseIsFree
  <2> SUFFICES ASSUME NEW l \in Leased, NEW i \in image, i.first < l.stop
               PROVE  /\ i.queue \in l.page.queues => i.last + TileRows <= l.launch
                      /\ i.streams \cap l.streams # {} => i.last + Guard <= l.launch
                      /\ i.last + Guard <= l.stop
    BY DEF LeaseIsFree
  <2> QED
    BY <1>1, LeasesValid, ValidLeaseIsFree
<1> QED
  BY <1>1, LinkerInvariant, PTL

\* No lease could have begun earlier, nor used a free stream it leaves out.
THEOREM LeasesAreEarliest == Spec => []LaunchIsEarliest
<1>1. ASSUME IInv
      PROVE  LaunchIsEarliest
  BY <1>1, LeasesValid, LeaseIsEarliest DEF LaunchIsEarliest
<1> QED
  BY <1>1, LinkerInvariant, PTL

\* A linked program has one page event at each stop, for exactly the pages of
\* that stop.
THEOREM JoinsAreComplete == Spec => []CompleteJoin
  BY LinkerInvariant, PTL DEF IInv
=============================================================================
