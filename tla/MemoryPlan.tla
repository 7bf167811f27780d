------------------------------ MODULE MemoryPlan ------------------------------
(***************************************************************************)
(* Where the resident tensors of a session go                              *)
(* (SessionMemoryPlanner::plan).  Rows that the executables have assigned  *)
(* are reserved slice by slice; a state window must be alone in its        *)
(* executable; every resident tensor then takes the same rows of all its   *)
(* slices, in free intervals that it splits.                               *)
(*                                                                         *)
(* A slice is a physical slice (target, hemisphere, slice, bank).  Two     *)
(* bindings with equal lists of slices have the same `group`, and groups   *)
(* are numbered in the order of those lists; `width` is their length.      *)
(***************************************************************************)
EXTENDS Integers, Sequences, FiniteSets, FiniteSetsExt

CONSTANTS
    Slices,         \* physical slices, numbered in their order
    Capacity,       \* sram_depth_rows
    WideBinding,    \* slices of a binding that is placed from below (16)
    Packages        \* the packages a session may be given, see PackageType

Kinds == {"named", "state", "resident", "paged"}

BindingType ==
    [exe : Nat, kind : Kinds, on : SUBSET Slices, first : Int, end : Int,
     group : Nat, width : Nat]
PackageType == [bindings : Seq(BindingType), floors : SUBSET [exe : Nat, slice : Slices, rows : Nat]]

ASSUME NumbersAssumption ==
    Slices \subseteq Nat /\ Capacity \in Nat \ {0} /\ WideBinding \in Nat

\* binding_row_range: a binding without rows is refused before all else.
ASSUME PackagesAssumption ==
    /\ Packages \subseteq PackageType
    /\ \A p \in Packages : \A i \in DOMAIN p.bindings : p.bindings[i].first < p.bindings[i].end

VARIABLES
    package,    \* the package that is planned
    phase,      \* "reserve", "states", "residents", "done" or "refused"
    waiting,    \* per slice, reservations that the scan has not reached
    cursor,     \* per slice, the end of what it has passed
    free,       \* free_intervals: per slice, <<first row, row after the last>>
    pending,    \* resident requests without rows
    placed,     \* resident request -> its first row
    stuck       \* the request that did not fit, 0 while there is none

vars == <<package, phase, waiting, cursor, free, pending, placed, stuck>>

Binding(i) == package.bindings[i]
OfKind(K) == {i \in DOMAIN package.bindings : package.bindings[i].kind \in K}
Requests == OfKind({"resident"})
Extent(i) == Binding(i).end - Binding(i).first

\* reserved_intervals: memory floors and bindings that are no tensor inputs.
NamedIntervals(p, s) ==
    {<<b.first, b.end>> :
        b \in {p.bindings[i] : i \in {i \in DOMAIN p.bindings :
                  p.bindings[i].kind \in {"named", "state"} /\ s \in p.bindings[i].on}}}
Reserved(p, s) ==
    {iv \in {<<0, f.rows>> : f \in {f \in p.floors : f.slice = s}} \cup NamedIntervals(p, s) :
        iv[1] # iv[2]}

Init ==
    /\ package \in Packages
    /\ phase = "reserve"
    /\ waiting = [s \in Slices |-> Reserved(package, s)]
    /\ cursor = [s \in Slices |-> 0]
    /\ free = [s \in Slices |-> {}]
    /\ pending = Requests /\ placed = <<>> /\ stuck = 0

-----------------------------------------------------------------------------
(***************************************************************************)
(* The scan of one slice.  Touching and overlapping reservations merge: a  *)
(* gap opens only before one that begins after the cursor.                 *)
(***************************************************************************)
Earlier(iv, jv) == iv[1] < jv[1] \/ (iv[1] = jv[1] /\ iv[2] <= jv[2])
Larger(a, b) == IF a < b THEN b ELSE a
Gap(from, to) == IF from < to THEN {<<from, to>>} ELSE {}

BeyondMemory(iv) == iv[1] < 0 \/ iv[2] > Capacity

ReserveOutside ==
    /\ phase = "reserve"
    /\ \E s \in Slices : \E iv \in waiting[s] : BeyondMemory(iv)
    /\ phase' = "refused"
    /\ UNCHANGED <<package, waiting, cursor, free, pending, placed, stuck>>

\* Mutant: a reservation inside another one takes the cursor back.
ReserveWithoutMerge(s) ==
    /\ phase = "reserve"
    /\ \A r \in Slices : \A iv \in waiting[r] : ~BeyondMemory(iv)
    /\ \A r \in Slices : r < s => waiting[r] = {}
    /\ \E iv \in waiting[s] :
          /\ \A jv \in waiting[s] : Earlier(iv, jv)
          /\ free' = [free EXCEPT ![s] = @ \cup Gap(cursor[s], iv[1])]
          /\ cursor' = [cursor EXCEPT ![s] = iv[2]]
          /\ waiting' = [waiting EXCEPT ![s] = @ \ {iv}]
    /\ UNCHANGED <<package, phase, pending, placed, stuck>>

Reserve(s) ==
    /\ phase = "reserve"
    /\ \A r \in Slices : \A iv \in waiting[r] : ~BeyondMemory(iv)
    /\ \A r \in Slices : r < s => waiting[r] = {}
    /\ \E iv \in waiting[s] :
          /\ \A jv \in waiting[s] : Earlier(iv, jv)
          /\ free' = [free EXCEPT ![s] = @ \cup Gap(cursor[s], iv[1])]
          /\ cursor' = [cursor EXCEPT ![s] = Larger(@, iv[2])]
          /\ waiting' = [waiting EXCEPT ![s] = @ \ {iv}]
    /\ UNCHANGED <<package, phase, pending, placed, stuck>>

\* The rows behind the last reservation.
CloseSlices ==
    /\ phase = "reserve" /\ \A s \in Slices : waiting[s] = {}
    /\ free' = [s \in Slices |-> free[s] \cup Gap(cursor[s], Capacity)]
    /\ cursor' = [s \in Slices |-> Capacity]
    /\ phase' = "states"
    /\ UNCHANGED <<package, waiting, pending, placed, stuck>>

-----------------------------------------------------------------------------
\* bindings_overlap, and the floors of the same executable.
Meet(a, b) == a.on \cap b.on # {} /\ a.first < b.end /\ b.first < a.end

StateCollides(i) ==
    \/ \E f \in package.floors :
          /\ f.exe = Binding(i).exe /\ f.slice \in Binding(i).on
          /\ Binding(i).first < f.rows /\ Binding(i).end > 0
    \/ \E k \in DOMAIN package.bindings :
          /\ k # i /\ Binding(k).exe = Binding(i).exe /\ Meet(Binding(i), Binding(k))

CheckStates ==
    /\ phase = "states"
    /\ phase' = IF \E i \in OfKind({"state"}) : StateCollides(i) THEN "refused" ELSE "residents"
    /\ UNCHANGED <<package, waiting, cursor, free, pending, placed, stuck>>

-----------------------------------------------------------------------------
(***************************************************************************)
(* Resident requests: lists of many slices first, then those of the most   *)
(* rows, then the longest; equal ones in the order of the package.         *)
(***************************************************************************)
GroupRows(i) ==
    MapThenSumSet(Extent, {k \in Requests : Binding(k).group = Binding(i).group})

Rank(i) == <<-Binding(i).width, -GroupRows(i), Binding(i).group, -Extent(i), i>>
Precedes(i, k) ==
    \E n \in 1 .. 5 : Rank(i)[n] < Rank(k)[n] /\ \A m \in 1 .. n - 1 : Rank(i)[m] = Rank(k)[m]
First(i) == i \in pending /\ \A k \in pending \ {i} : Precedes(i, k)

\* Mutant: an interval of just the right length is passed over.
RoomyCandidates(i) ==
    UNION {UNION {{iv[1], iv[2] - Extent(i)} :
                     iv \in {iv \in free[s] : iv[2] - iv[1] > Extent(i)}} : s \in Binding(i).on}

Candidates(i) ==
    UNION {UNION {{iv[1], iv[2] - Extent(i)} :
                     iv \in {iv \in free[s] : iv[2] - iv[1] >= Extent(i)}} : s \in Binding(i).on}

Holds(iv, row, extent) == iv[1] <= row /\ row + extent <= iv[2]
Fits(i, row) == \A s \in Binding(i).on : \E iv \in free[s] : Holds(iv, row, Extent(i))
RowsThatFit(i) == {row \in Candidates(i) : Fits(i, row)}

\* Mutant: the last row stays free.
CarvedShort(intervals, row, extent) ==
    UNION {IF Holds(iv, row, extent)
           THEN Gap(iv[1], row) \cup Gap(row + extent - 1, iv[2]) ELSE {iv} : iv \in intervals}

Carved(intervals, row, extent) ==
    UNION {IF Holds(iv, row, extent)
           THEN Gap(iv[1], row) \cup Gap(row + extent, iv[2]) ELSE {iv} : iv \in intervals}

\* Mutant: a tensor on several slices is taken out of the first one only.
PlaceOnFirstSlice(i) ==
    /\ phase = "residents" /\ First(i)
    /\ \E row \in RowsThatFit(i) :
          /\ \A other \in RowsThatFit(i) :
                IF Binding(i).width >= WideBinding THEN row <= other ELSE other <= row
          /\ placed' = [k \in DOMAIN placed \cup {i} |-> IF k = i THEN row ELSE placed[k]]
          /\ free' = [s \in Slices |->
                 IF s \in Binding(i).on /\ \A r \in Binding(i).on : s <= r
                 THEN Carved(free[s], row, Extent(i)) ELSE free[s]]
    /\ pending' = pending \ {i}
    /\ UNCHANGED <<package, phase, waiting, cursor, stuck>>

Place(i) ==
    /\ phase = "residents" /\ First(i)
    /\ \E row \in RowsThatFit(i) :
          /\ \A other \in RowsThatFit(i) :
                IF Binding(i).width >= WideBinding THEN row <= other ELSE other <= row
          /\ placed' = [k \in DOMAIN placed \cup {i} |-> IF k = i THEN row ELSE placed[k]]
          /\ free' = [s \in Slices |->
                 IF s \in Binding(i).on THEN Carved(free[s], row, Extent(i)) ELSE free[s]]
    /\ pending' = pending \ {i}
    /\ UNCHANGED <<package, phase, waiting, cursor, stuck>>

\* A tensor without slices, or without a common interval.
Refuse(i) ==
    /\ phase = "residents" /\ First(i)
    /\ Binding(i).on = {} \/ RowsThatFit(i) = {}
    /\ phase' = "refused" /\ stuck' = i
    /\ UNCHANGED <<package, waiting, cursor, free, pending, placed>>

Accept ==
    /\ phase = "residents" /\ pending = {}
    /\ phase' = "done"
    /\ UNCHANGED <<package, waiting, cursor, free, pending, placed, stuck>>

Next ==
    \/ ReserveOutside \/ CloseSlices \/ CheckStates \/ Accept
    \/ \E s \in Slices : Reserve(s)
    \/ \E i \in pending : Place(i) \/ Refuse(i)

Spec == Init /\ [][Next]_vars

-----------------------------------------------------------------------------
InRange(row, iv) == iv[1] <= row /\ row < iv[2]
RowsOf(i) == placed[i] .. placed[i] + Extent(i) - 1

(***************************************************************************)
(* Every resident request is pending or has rows, and free intervals are   *)
(* inside the memory and never touch one another.                          *)
(***************************************************************************)
TypeOK ==
    /\ package \in Packages
    /\ phase \in {"reserve", "states", "residents", "done", "refused"}
    /\ pending \subseteq Requests /\ DOMAIN placed = Requests \ pending
    /\ stuck \in {0} \cup pending
    /\ \A s \in Slices : cursor[s] \in 0 .. Capacity
    /\ \A s \in Slices : \A iv \in free[s] :
          /\ iv = <<iv[1], iv[2]>> /\ iv[1] \in 0 .. Capacity /\ iv[2] \in 0 .. Capacity
          /\ iv[1] < iv[2]
          /\ \A jv \in free[s] : iv = jv \/ iv[2] < jv[1] \/ jv[2] < iv[1]

(***************************************************************************)
(* Two resident tensors with a slice in common have different rows: the    *)
(* intervals of every slice are split, whatever order the requests take.   *)
(***************************************************************************)
ResidentsApart ==
    \A i, k \in DOMAIN placed :
        i # k /\ Binding(i).on \cap Binding(k).on # {} => RowsOf(i) \cap RowsOf(k) = {}

(***************************************************************************)
(* A resident tensor never takes a row below a memory floor or of a named  *)
(* non-resident binding, of any executable of the package.                 *)
(***************************************************************************)
ResidentsAvoidReserved ==
    \A i \in DOMAIN placed : \A s \in Binding(i).on : \A iv \in Reserved(package, s) :
        \A row \in RowsOf(i) : ~InRange(row, iv)

\* A row that nobody has reserved or taken.
Unused(s, row) ==
    /\ \A iv \in Reserved(package, s) : ~InRange(row, iv)
    /\ \A i \in DOMAIN placed : s \in Binding(i).on => row \notin RowsOf(i)

(***************************************************************************)
(* A tensor is refused only when no rows are unused in all its slices: to  *)
(* try the ends of the free intervals is enough, and no row is lost.       *)
(***************************************************************************)
RefusalIsJustified ==
    stuck # 0 /\ Binding(stuck).on # {} =>
        \A first \in 0 .. Capacity - Extent(stuck) :
            \E s \in Binding(stuck).on : \E row \in first .. first + Extent(stuck) - 1 :
                ~Unused(s, row)

(***************************************************************************)
(* What the planner's comment and the description of the package say: rows *)
(* of a named binding are never given to resident data.  Tensors that      *)
(* arrive through pages are named bindings too.                            *)
(***************************************************************************)
ResidentsAvoidPages ==
    \A i \in DOMAIN placed : \A k \in OfKind({"paged"}) : \A s \in Binding(i).on \cap Binding(k).on :
        \A row \in RowsOf(i) : ~InRange(row, <<Binding(k).first, Binding(k).end>>)
=============================================================================
