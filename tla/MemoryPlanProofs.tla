--------------------------- MODULE MemoryPlanProofs ---------------------------
(***************************************************************************)
(* What the session memory planner promises, for every package and every   *)
(* memory.  Free intervals never touch, and a row the scan has passed is   *)
(* in one of them exactly if nobody has reserved or taken it: the first    *)
(* half makes the intervals as long as they can be, so that a tensor that  *)
(* fits anywhere fits at the end of one; the second makes them honest.     *)
(***************************************************************************)
EXTENDS MemoryPlan, BoundedNumbers, TLAPS

Rows == 0 .. Capacity

\* Intervals that hold a row and never touch one another.
Separate(intervals) ==
    /\ intervals \subseteq Rows \X Rows
    /\ \A iv \in intervals : iv[1] < iv[2]
    /\ \A iv, jv \in intervals : iv = jv \/ iv[2] < jv[1] \/ jv[2] < iv[1]

Covers(intervals, row) == \E iv \in intervals : InRange(row, iv)

Empty == [i \in {} |-> 0]

ScanInv ==
    phase = "reserve" =>
        /\ pending = Requests
        /\ stuck = 0
        /\ \A s \in Slices : \A iv \in free[s] :
              /\ iv[2] < cursor[s]
              /\ \A w \in waiting[s] : iv[2] <= w[1]
        /\ \A s \in Slices : \A iv \in Reserved(package, s) \ waiting[s] :
              iv[2] <= cursor[s]

\* The scan has passed every row.
Scanned == \A s \in Slices : cursor[s] = Capacity

CoverInv ==
    \A s \in Slices : \A row \in Rows :
        row < cursor[s] => (Covers(free[s], row) <=> Unused(s, row))

PlanTypes ==
    /\ package \in Packages
    /\ phase \in {"reserve", "states", "residents", "done", "refused"}
    /\ waiting \in [Slices -> SUBSET (Int \X Int)]
    /\ \A s \in Slices : waiting[s] \subseteq Reserved(package, s)
    /\ cursor \in [Slices -> Rows]
    /\ free \in [Slices -> SUBSET (Rows \X Rows)]
    /\ pending \subseteq Requests
    /\ DOMAIN placed = Requests \ pending
    /\ \A i \in DOMAIN placed : placed[i] \in Rows
    /\ stuck \in {0} \cup pending

IInv ==
    /\ PlanTypes
    /\ \A s \in Slices : Separate(free[s])
    /\ ScanInv
    /\ phase \in {"states", "residents", "done"} \/ stuck # 0 => Scanned
    /\ phase = "states" => stuck = 0
    /\ stuck # 0 => phase = "refused" /\ RowsThatFit(stuck) = {}
    /\ CoverInv
    /\ ResidentsApart
    /\ ResidentsAvoidReserved

-----------------------------------------------------------------------------
(***************************************************************************)
(* Bindings, reservations and gaps.                                        *)
(***************************************************************************)
\* A request has rows, and takes slices of the memory.
LEMMA BindingsTyped ==
  ASSUME package \in Packages, NEW i \in Requests
  PROVE  /\ Extent(i) \in Nat \ {0}
         /\ Binding(i).on \subseteq Slices
         /\ i \in Nat \ {0}
<1>1. package \in PackageType
  BY PackagesAssumption
<1>2. i \in DOMAIN package.bindings /\ package.bindings \in Seq(BindingType)
  BY <1>1 DEF Requests, OfKind, PackageType
<1>3. Binding(i) \in BindingType /\ i \in Nat \ {0}
  BY <1>2 DEF Binding
<1>4. Binding(i).first < Binding(i).end
  BY <1>2, PackagesAssumption DEF Binding
<1> QED
  BY <1>3, <1>4 DEF Extent, BindingType

\* A reservation holds a row.
LEMMA ReservedTyped ==
  ASSUME NEW p \in Packages, NEW s \in Slices, NEW iv \in Reserved(p, s)
  PROVE  iv \in Int \X Int /\ iv[1] < iv[2]
<1>1. p \in PackageType
  BY PackagesAssumption
<1>2. CASE iv \in NamedIntervals(p, s)
  <2>1. PICK k \in DOMAIN p.bindings : iv = <<p.bindings[k].first, p.bindings[k].end>>
    BY <1>2 DEF NamedIntervals
  <2>2. p.bindings[k] \in BindingType
    BY <1>1, <2>1 DEF PackageType
  <2>3. p.bindings[k].first < p.bindings[k].end
    BY <2>1, PackagesAssumption
  <2> QED
    BY <2>1, <2>2, <2>3 DEF BindingType
<1>3. CASE iv \notin NamedIntervals(p, s)
  <2>1. PICK f \in p.floors : iv = <<0, f.rows>> /\ iv[1] # iv[2]
    BY <1>3 DEF Reserved
  <2>2. f.rows \in Nat
    BY <1>1, <2>1 DEF PackageType
  <2> QED
    BY <2>1, <2>2
<1> QED
  BY <1>2, <1>3

\* A gap holds the rows from its first to its last, if there are any.
LEMMA GapBounds ==
  ASSUME NEW from \in Int, NEW to \in Int
  PROVE  /\ \A iv \in Gap(from, to) : iv = <<from, to>> /\ from < to
         /\ \A row \in Int : Covers(Gap(from, to), row) <=> from <= row /\ row < to
<1>1. CASE from < to
  <2>1. Gap(from, to) = {<<from, to>>}
    BY <1>1 DEF Gap
  <2>2. \A row \in Int : Covers({<<from, to>>}, row) <=> from <= row /\ row < to
    BY DEF Covers, InRange
  <2> QED
    BY <1>1, <2>1, <2>2
<1>2. CASE ~(from < to)
  BY <1>2 DEF Gap, Covers, InRange
<1> QED
  BY <1>1, <1>2

\* Only one of separate intervals holds a row.
LEMMA OneCovers ==
  ASSUME NEW intervals, Separate(intervals), NEW row \in Int,
         NEW iv \in intervals, NEW jv \in intervals, InRange(row, iv), InRange(row, jv)
  PROVE  iv = jv
<1>1. /\ iv[1] \in Int /\ iv[2] \in Int /\ jv[1] \in Int /\ jv[2] \in Int
  BY NumbersAssumption DEF Separate, Rows
<1>2. iv = jv \/ iv[2] < jv[1] \/ jv[2] < iv[1]
  BY DEF Separate
<1> QED
  BY <1>1, <1>2 DEF InRange

\* Rows that are all held are held by one interval.
LEMMA BlockIsHeld ==
  ASSUME NEW intervals, Separate(intervals), NEW first \in Int, NEW extent \in Nat \ {0},
         \A row \in first .. first + extent - 1 : Covers(intervals, row)
  PROVE  \E iv \in intervals : Holds(iv, first, extent)
<1>1. first \in first .. first + extent - 1
  OBVIOUS
<1>2. PICK iv \in intervals : InRange(first, iv)
  BY <1>1 DEF Covers
<1>3. iv[1] \in Int /\ iv[2] \in Int /\ iv[1] < iv[2]
  BY NumbersAssumption DEF Separate, Rows
<1>4. ASSUME iv[2] < first + extent
      PROVE  FALSE
  <2>1. iv[2] \in first .. first + extent - 1
    BY <1>2, <1>3, <1>4 DEF InRange
  <2>2. PICK jv \in intervals : InRange(iv[2], jv)
    BY <2>1 DEF Covers
  <2>3. jv[1] \in Int /\ jv[2] \in Int
    BY NumbersAssumption DEF Separate, Rows
  <2>4. iv = jv \/ iv[2] < jv[1] \/ jv[2] < iv[1]
    BY DEF Separate
  <2> QED
    BY <1>3, <2>2, <2>3, <2>4 DEF InRange
<1> QED
  BY <1>2, <1>3, <1>4 DEF Holds, InRange

\* Splitting an interval takes exactly the rows of the tensor out of it.
LEMMA CarvedBounds ==
  ASSUME NEW intervals, Separate(intervals), NEW row \in Int, NEW extent \in Nat \ {0},
         NEW held \in intervals, Holds(held, row, extent)
  PROVE  /\ Separate(Carved(intervals, row, extent))
         /\ \A x \in Int : Covers(Carved(intervals, row, extent), x)
                              <=> Covers(intervals, x) /\ x \notin row .. row + extent - 1
<1> DEFINE C == Carved(intervals, row, extent)
           L == Gap(held[1], row)
           R == Gap(row + extent, held[2])
<1>1. \A iv \in intervals : iv[1] \in Int /\ iv[2] \in Int /\ iv[1] < iv[2]
                            /\ iv \in Rows \X Rows
  BY NumbersAssumption DEF Separate, Rows
<1>2. held[1] <= row /\ row + extent <= held[2]
  BY DEF Holds
<1>3. \A iv \in intervals : Holds(iv, row, extent) => iv = held
  <2> SUFFICES ASSUME NEW iv \in intervals, Holds(iv, row, extent)
               PROVE  iv = held
    OBVIOUS
  <2>1. InRange(row, iv) /\ InRange(row, held)
    BY <1>1, <1>2 DEF Holds, InRange
  <2> QED
    BY <2>1, OneCovers
<1>4. C = (intervals \ {held}) \cup L \cup R
  <2>1. \A iv \in intervals :
            (IF Holds(iv, row, extent)
             THEN Gap(iv[1], row) \cup Gap(row + extent, iv[2]) ELSE {iv})
              = IF iv = held THEN L \cup R ELSE {iv}
    BY <1>3
  <2>2. C = UNION {IF iv = held THEN L \cup R ELSE {iv} : iv \in intervals}
    BY <2>1 DEF Carved
  <2> HIDE DEF C, L, R
  <2> QED
    BY <2>2
<1>5. /\ \A iv \in L : iv = <<held[1], row>> /\ held[1] < row
      /\ \A iv \in R : iv = <<row + extent, held[2]>> /\ row + extent < held[2]
  BY <1>1, GapBounds
<1>6. Separate(C)
  <2>1. \A iv \in L \cup R : /\ iv \in Rows \X Rows /\ iv[1] < iv[2]
                             /\ held[1] <= iv[1] /\ iv[2] <= held[2]
    BY <1>1, <1>2, <1>5, NumbersAssumption DEF Rows
  <2>2. ASSUME NEW iv \in C, NEW jv \in C, iv # jv
        PROVE  iv[2] < jv[1] \/ jv[2] < iv[1]
    <3>1. CASE iv \in intervals \ {held} /\ jv \in intervals \ {held}
      BY <2>2, <3>1 DEF Separate
    <3>2. CASE iv \in intervals \ {held} /\ jv \in L \cup R
      <4>1. iv[2] < held[1] \/ held[2] < iv[1]
        BY <3>2 DEF Separate
      <4> HIDE DEF L, R, C
      <4> QED
        BY <1>1, <2>1, <3>2, <4>1, NumbersAssumption DEF Rows
    <3>3. CASE jv \in intervals \ {held} /\ iv \in L \cup R
      <4>1. jv[2] < held[1] \/ held[2] < jv[1]
        BY <3>3 DEF Separate
      <4> HIDE DEF L, R, C
      <4> QED
        BY <1>1, <2>1, <3>3, <4>1, NumbersAssumption DEF Rows
    <3>4. CASE iv \in L \cup R /\ jv \in L \cup R
      <4> HIDE DEF L, R, C
      <4>1. \/ iv \in L /\ jv \in R
            \/ iv \in R /\ jv \in L
        BY <1>5, <2>2, <3>4
      <4> QED
        BY <1>5, <4>1
    <3> HIDE DEF L, R, C
    <3> QED
      BY <1>4, <3>1, <3>2, <3>3, <3>4
  <2> HIDE DEF L, R, C
  <2>3. C \subseteq Rows \X Rows /\ \A iv \in C : iv[1] < iv[2]
    BY <1>1, <1>4, <2>1
  <2> QED
    BY <2>2, <2>3 DEF Separate
<1>7. ASSUME NEW x \in Int
      PROVE  Covers(C, x) <=> Covers(intervals, x) /\ x \notin row .. row + extent - 1
  <2>1. Covers(C, x) <=> \/ \E iv \in intervals \ {held} : InRange(x, iv)
                         \/ Covers(L, x)
                         \/ Covers(R, x)
    <3> HIDE DEF C, L, R
    <3> QED
      BY <1>4 DEF Covers
  <2>2. Covers(L, x) <=> held[1] <= x /\ x < row
    BY <1>1, GapBounds
  <2>3. Covers(R, x) <=> row + extent <= x /\ x < held[2]
    BY <1>1, GapBounds
  <2>4. InRange(x, held) => \A iv \in intervals \ {held} : ~InRange(x, iv)
    BY OneCovers
  <2>5. Covers(intervals, x) <=> \/ \E iv \in intervals \ {held} : InRange(x, iv)
                                 \/ InRange(x, held)
    BY DEF Covers
  <2>6. InRange(x, held) <=> held[1] <= x /\ x < held[2]
    BY DEF InRange
  <2>7. x \in row .. row + extent - 1 => InRange(x, held)
    BY <1>1, <1>2, <2>6
  <2> HIDE DEF C, L, R
  <2> QED
    BY <1>1, <1>2, <2>1, <2>2, <2>3, <2>4, <2>5, <2>6, <2>7
<1> QED
  BY <1>6, <1>7

-----------------------------------------------------------------------------
(***************************************************************************)
(* The scan.                                                               *)
(***************************************************************************)
\* Planning starts with no slice passed and nothing placed.
LEMMA InitIInv == Init => IInv
<1> SUFFICES ASSUME Init
             PROVE  IInv
  OBVIOUS
<1>1. waiting \in [Slices -> SUBSET (Int \X Int)]
  BY ReservedTyped DEF Init
<1>2. DOMAIN placed = {}
  BY DEF Init
<1>3. PlanTypes
  BY <1>1, <1>2, NumbersAssumption DEF Init, PlanTypes, Rows
<1>4. \A s \in Slices : Separate(free[s])
  BY DEF Init, Separate
<1>5. ScanInv
  BY DEF Init, ScanInv
<1>6. CoverInv
  BY NumbersAssumption DEF Init, CoverInv, Rows
<1>7. ResidentsApart /\ ResidentsAvoidReserved
  BY <1>2 DEF ResidentsApart, ResidentsAvoidReserved
<1> QED
  BY <1>3, <1>4, <1>5, <1>6, <1>7 DEF Init, IInv

\* Appending the gap before a reservation to the free intervals behind which
\* the cursor lies keeps them separate.
LEMMA GapSeparate ==
  ASSUME NEW intervals, Separate(intervals), NEW from \in Rows, NEW to \in Rows,
         \A iv \in intervals : iv[2] < from
  PROVE  Separate(intervals \cup Gap(from, to))
<1> DEFINE G == Gap(from, to)
<1>1. from \in Int /\ to \in Int
  BY NumbersAssumption DEF Rows
<1>2. \A iv \in G : iv = <<from, to>> /\ from < to
  BY <1>1, GapBounds
<1>3. \A iv \in intervals : iv[1] \in Int /\ iv[2] \in Int
  BY NumbersAssumption DEF Separate, Rows
<1> HIDE DEF G
<1>4. \A iv, jv \in intervals \cup G : iv = jv \/ iv[2] < jv[1] \/ jv[2] < iv[1]
  <2> SUFFICES ASSUME NEW iv \in intervals \cup G, NEW jv \in intervals \cup G
               PROVE  iv = jv \/ iv[2] < jv[1] \/ jv[2] < iv[1]
    OBVIOUS
  <2>1. CASE iv \in intervals /\ jv \in intervals
    BY <2>1 DEF Separate
  <2>2. CASE iv \in G /\ jv \in G
    BY <1>2, <2>2
  <2>3. CASE iv \in intervals /\ jv \in G
    BY <1>2, <2>3
  <2>4. CASE iv \in G /\ jv \in intervals
    BY <1>2, <2>4
  <2> QED
    BY <2>1, <2>2, <2>3, <2>4
<1>5. intervals \cup G \subseteq Rows \X Rows /\ \A iv \in intervals \cup G : iv[1] < iv[2]
  BY <1>2 DEF Separate
<1> QED
  BY <1>4, <1>5 DEF Separate, G

\* The least waiting reservation of a slice moves the cursor behind it and
\* frees the rows in front of it.
LEMMA ReserveIInv ==
  ASSUME IInv, NEW s \in Slices, Reserve(s)
  PROVE  IInv'
<1>1. PICK iv \in waiting[s] :
          /\ \A jv \in waiting[s] : Earlier(iv, jv)
          /\ free' = [free EXCEPT ![s] = @ \cup Gap(cursor[s], iv[1])]
          /\ cursor' = [cursor EXCEPT ![s] = Larger(@, iv[2])]
          /\ waiting' = [waiting EXCEPT ![s] = @ \ {iv}]
  BY DEF Reserve
<1>2. /\ phase = "reserve"
      /\ ~BeyondMemory(iv)
      /\ UNCHANGED <<package, phase, pending, placed, stuck>>
  BY DEF Reserve
<1>3. /\ package \in Packages
      /\ waiting \in [Slices -> SUBSET (Int \X Int)]
      /\ waiting[s] \subseteq Reserved(package, s)
      /\ cursor \in [Slices -> Rows]
      /\ free \in [Slices -> SUBSET (Rows \X Rows)]
      /\ stuck = 0
  BY <1>2 DEF IInv, PlanTypes, ScanInv
<1>4. iv \in Rows \X Rows /\ iv[1] < iv[2] /\ iv \in Reserved(package, s)
  BY <1>2, <1>3, ReservedTyped, NumbersAssumption DEF BeyondMemory, Rows
<1> DEFINE c == cursor[s]
           F == free[s]
           G == Gap(c, iv[1])
           d == Larger(c, iv[2])
<1>5. /\ Rows \subseteq Nat
      /\ c \in Rows /\ c \in Nat /\ iv[1] \in Nat /\ iv[2] \in Nat
  <2>1. c \in Rows /\ iv[1] \in Rows /\ iv[2] \in Rows
    BY <1>3, <1>4
  <2>2. Rows \subseteq Nat
    BY NumbersAssumption DEF Rows
  <2> QED
    BY <2>1, <2>2
<1>5a. d \in Rows /\ d \in Nat /\ c <= d /\ iv[2] <= d /\ (d = c \/ d = iv[2])
  <2> HIDE DEF c
  <2>1. iv[2] \in Rows
    BY <1>4
  <2> QED
    BY <1>5, <2>1 DEF Larger
<1>6. /\ free'[s] = F \cup G
      /\ cursor'[s] = d
      /\ waiting'[s] = waiting[s] \ {iv}
      /\ \A r \in Slices \ {s} : /\ free'[r] = free[r]
                                 /\ cursor'[r] = cursor[r]
                                 /\ waiting'[r] = waiting[r]
  BY <1>1, <1>3
<1>7. /\ \A fv \in F : fv[2] < c /\ \A w \in waiting[s] : fv[2] <= w[1]
      /\ \A jv \in Reserved(package, s) \ waiting[s] : jv[2] <= c
  BY <1>2 DEF IInv, ScanInv
<1>7a. \A row \in Rows : row < c => (Covers(F, row) <=> Unused(s, row))
  BY DEF IInv, CoverInv
<1>8. \A gv \in G : gv = <<c, iv[1]>> /\ c < iv[1]
  <2> HIDE DEF c
  <2> QED
    BY <1>5, GapBounds
<1>8a. \A row \in Int : Covers(G, row) <=> c <= row /\ row < iv[1]
  <2> HIDE DEF c
  <2> QED
    BY <1>5, GapBounds
<1>9. \A w \in waiting[s] : w[1] \in Int /\ w[2] \in Int /\ iv[1] <= w[1]
  <2> SUFFICES ASSUME NEW w \in waiting[s]
               PROVE  w[1] \in Int /\ w[2] \in Int /\ iv[1] <= w[1]
    OBVIOUS
  <2>1. w \in Int \X Int
    BY <1>3
  <2>2. Earlier(iv, w)
    BY <1>1
  <2>3. iv[1] <= w[1]
    BY <1>5, <2>1, <2>2 DEF Earlier
  <2> QED
    BY <2>1, <2>3
<1>9a. \A jv \in Reserved(package, s) : jv[1] \in Int /\ jv[2] \in Int
  BY <1>3, ReservedTyped
<1>10. Separate(F) /\ \A fv \in F : fv[1] \in Nat /\ fv[2] \in Nat
  BY <1>5 DEF IInv, Separate
<1>11. Separate(F \cup G)
  BY <1>4, <1>5, <1>7, <1>10, GapSeparate
<1> HIDE DEF c, d, F, G
<1>12. PlanTypes'
  <2>1. /\ waiting' \in [Slices -> SUBSET (Int \X Int)]
        /\ \A r \in Slices : waiting'[r] \subseteq Reserved(package, r)
    BY <1>1, <1>3, <1>6 DEF IInv, PlanTypes
  <2>2. cursor' \in [Slices -> Rows]
    BY <1>1, <1>3, <1>5a DEF c, d
  <2>3. free' \in [Slices -> SUBSET (Rows \X Rows)]
    <3>1. F \cup G \subseteq Rows \X Rows
      BY <1>11 DEF Separate
    <3> QED
      BY <1>1, <1>3, <3>1 DEF F, G, c
  <2> QED
    BY <1>2, <2>1, <2>2, <2>3 DEF IInv, PlanTypes, Requests, OfKind
<1>13. \A r \in Slices : Separate(free'[r])
  BY <1>6, <1>11 DEF IInv
<1>14. ScanInv'
  <2>1. \A fv \in free'[s] : /\ fv[2] < d
                             /\ \A w \in waiting'[s] : fv[2] <= w[1]
    <3> SUFFICES ASSUME NEW fv \in F \cup G
                 PROVE  /\ fv[2] < d
                        /\ \A w \in waiting[s] : fv[2] <= w[1]
      BY <1>6
    <3>1. CASE fv \in F
      BY <1>5, <1>5a, <1>7, <1>10, <3>1
    <3>2. CASE fv \in G
      <4>1. fv[2] = iv[1]
        BY <1>8, <3>2
      <4> QED
        BY <1>4, <1>5, <1>5a, <1>9, <4>1
    <3> QED
      BY <3>1, <3>2
  <2>2. \A jv \in Reserved(package, s) \ waiting'[s] : jv[2] <= d
    <3> SUFFICES ASSUME NEW jv \in Reserved(package, s) \ waiting'[s]
                 PROVE  jv[2] <= d
      OBVIOUS
    <3>1. jv[2] \in Int
      BY <1>9a
    <3>2. jv = iv \/ jv \in Reserved(package, s) \ waiting[s]
      BY <1>6
    <3> QED
      BY <1>5, <1>5a, <1>7, <3>1, <3>2
  <2>3. \A r \in Slices \ {s} :
            /\ \A fv \in free'[r] :
                  /\ fv[2] < cursor'[r]
                  /\ \A w \in waiting'[r] : fv[2] <= w[1]
            /\ \A jv \in Reserved(package, r) \ waiting'[r] : jv[2] <= cursor'[r]
    BY <1>2, <1>6 DEF IInv, ScanInv
  <2>4. (pending = Requests /\ stuck = 0)'
    BY <1>2 DEF IInv, ScanInv, Requests, OfKind
  <2> QED
    BY <1>2, <1>6, <2>1, <2>2, <2>3, <2>4 DEF ScanInv
<1>15. \A r \in Slices : \A row : Unused(r, row)' <=> Unused(r, row)
  BY <1>2 DEF Unused, RowsOf, Extent, Binding
<1>16. \A r \in Slices : \A row :
          Unused(r, row) <=> \A jv \in Reserved(package, r) : ~InRange(row, jv)
  <2>1. DOMAIN placed = {}
    BY <1>2 DEF IInv, PlanTypes, ScanInv
  <2> QED
    BY <2>1 DEF Unused
<1>17. CoverInv'
  <2> SUFFICES ASSUME NEW r \in Slices, NEW row \in Rows, row < cursor'[r]
               PROVE  Covers(free'[r], row) <=> Unused(r, row)
    BY <1>15 DEF CoverInv
  <2>1. CASE r # s
    BY <1>6, <2>1 DEF IInv, CoverInv
  <2>2. CASE r = s
    <3>1. Covers(F \cup G, row) <=> Covers(F, row) \/ Covers(G, row)
      BY DEF Covers
    <3>2. row \in Nat /\ row < d
      BY <1>5, <1>6, <2>2
    <3>3. Covers(G, row) <=> c <= row /\ row < iv[1]
      BY <1>8a, <3>2
    <3>4. CASE row < c
      <4>1. ~Covers(G, row)
        BY <1>5, <3>2, <3>3, <3>4
      <4> QED
        BY <1>6, <1>7a, <2>2, <3>1, <3>4, <4>1
    <3>5. CASE c <= row
      <4>1. ~Covers(F, row)
        <5> SUFFICES ASSUME NEW fv \in F, InRange(row, fv)
                     PROVE  FALSE
          BY DEF Covers
        <5> QED
          BY <1>5, <1>7, <1>10, <3>2, <3>5 DEF InRange
      <4>2. CASE row < iv[1]
        <5>1. \A jv \in Reserved(package, s) : ~InRange(row, jv)
          <6> SUFFICES ASSUME NEW jv \in Reserved(package, s), InRange(row, jv)
                       PROVE  FALSE
            OBVIOUS
          <6>1. jv[1] \in Int /\ jv[2] \in Int
            BY <1>9a
          <6>2. CASE jv \in waiting[s]
            BY <1>5, <1>9, <3>2, <4>2, <6>1, <6>2 DEF InRange
          <6>3. CASE jv \notin waiting[s]
            BY <1>5, <1>7, <3>2, <3>5, <6>1, <6>3 DEF InRange
          <6> QED
            BY <6>2, <6>3
        <5> QED
          BY <1>6, <1>16, <2>2, <3>1, <3>3, <3>5, <4>2, <5>1
      <4>3. CASE ~(row < iv[1])
        <5>1. row < iv[2]
          BY <1>5, <1>5a, <3>2, <3>5
        <5>2. InRange(row, iv)
          BY <1>5, <3>2, <4>3, <5>1 DEF InRange
        <5> QED
          BY <1>4, <1>6, <1>16, <2>2, <3>1, <3>3, <4>1, <4>3, <5>2
      <4> QED
        BY <4>2, <4>3
    <3> QED
      BY <1>5, <3>2, <3>4, <3>5
  <2> QED
    BY <2>1, <2>2
<1>18. ResidentsApart' /\ ResidentsAvoidReserved'
  BY <1>2 DEF IInv, ResidentsApart, ResidentsAvoidReserved, RowsOf, Extent, Binding
<1> QED
  BY <1>2, <1>3, <1>12, <1>13, <1>14, <1>17, <1>18 DEF IInv

\* Closing the slices frees the rows behind the last reservation.
LEMMA CloseIInv ==
  ASSUME IInv, CloseSlices
  PROVE  IInv'
<1>1. /\ phase = "reserve"
      /\ \A s \in Slices : waiting[s] = {}
      /\ free' = [s \in Slices |-> free[s] \cup Gap(cursor[s], Capacity)]
      /\ cursor' = [s \in Slices |-> Capacity]
      /\ phase' = "states"
      /\ UNCHANGED <<package, waiting, pending, placed, stuck>>
  BY DEF CloseSlices
<1>2. stuck = 0 /\ package \in Packages /\ DOMAIN placed = {}
  BY <1>1 DEF IInv, PlanTypes, ScanInv
<1>3. Rows \subseteq Nat /\ Capacity \in Rows
  BY NumbersAssumption DEF Rows
<1>4. ASSUME NEW s \in Slices
      PROVE  /\ Separate(free'[s])
             /\ \A row \in Rows : row < Capacity => (Covers(free'[s], row) <=> Unused(s, row))
  <2> DEFINE c == cursor[s]
             F == free[s]
             G == Gap(c, Capacity)
  <2>1. c \in Rows /\ c \in Nat
    BY <1>3 DEF IInv, PlanTypes
  <2>2. free'[s] = F \cup G
    BY <1>1
  <2>3. \A fv \in F : fv[2] < c
    BY <1>1 DEF IInv, ScanInv
  <2>4. \A jv \in Reserved(package, s) : jv[2] <= c /\ jv[2] \in Int
    BY <1>1, <1>2, ReservedTyped DEF IInv, ScanInv
  <2>5. \A row \in Rows : row < c => (Covers(F, row) <=> Unused(s, row))
    BY DEF IInv, CoverInv
  <2>6. Separate(F) /\ \A fv \in F : fv[2] \in Nat
    BY <1>3 DEF IInv, Separate
  <2> HIDE DEF c
  <2>7. \A row \in Int : Covers(G, row) <=> c <= row /\ row < Capacity
    BY <1>3, <2>1, GapBounds
  <2>8. Separate(F \cup G)
    BY <1>3, <2>1, <2>3, <2>6, GapSeparate
  <2> HIDE DEF F, G
  <2>9. ASSUME NEW row \in Rows, row < Capacity
        PROVE  Covers(F \cup G, row) <=> Unused(s, row)
    <3>1. row \in Nat
      BY <1>3
    <3>2. Covers(F \cup G, row) <=> Covers(F, row) \/ Covers(G, row)
      BY DEF Covers
    <3>3. CASE row < c
      BY <2>1, <2>5, <2>7, <3>1, <3>2, <3>3
    <3>4. CASE c <= row
      <4>1. Covers(G, row)
        BY <2>7, <2>9, <3>1, <3>4
      <4>2. \A jv \in Reserved(package, s) : ~InRange(row, jv)
        BY <2>1, <2>4, <3>1, <3>4 DEF InRange
      <4> QED
        BY <1>2, <3>2, <4>1, <4>2 DEF Unused
    <3> QED
      BY <2>1, <3>1, <3>3, <3>4
  <2> QED
    BY <2>2, <2>8, <2>9
<1>5. free' \in [Slices -> SUBSET (Rows \X Rows)]
  <2>1. \A s \in Slices : free'[s] \subseteq Rows \X Rows
    BY <1>4 DEF Separate
  <2> QED
    BY <1>1, <2>1
<1>6. PlanTypes'
  BY <1>1, <1>3, <1>5 DEF IInv, PlanTypes, Requests, OfKind
<1>7. ScanInv' /\ Scanned'
  BY <1>1 DEF ScanInv, Scanned
<1>8. \A s \in Slices : \A row : Unused(s, row)' <=> Unused(s, row)
  BY <1>1 DEF Unused, RowsOf, Extent, Binding
<1>9. CoverInv'
  BY <1>1, <1>4, <1>8 DEF CoverInv
<1>10. ResidentsApart' /\ ResidentsAvoidReserved'
  BY <1>1 DEF IInv, ResidentsApart, ResidentsAvoidReserved, RowsOf, Extent, Binding
<1> QED
  BY <1>1, <1>2, <1>4, <1>6, <1>7, <1>9, <1>10 DEF IInv

-----------------------------------------------------------------------------
(***************************************************************************)
(* Residents.                                                              *)
(***************************************************************************)
\* A step that only moves the phase on.
LEMMA PhaseIInv ==
  ASSUME IInv, stuck = 0,
         phase' \in {"states", "residents", "done"} => Scanned,
         phase' \in {"states", "residents", "done", "refused"},
         UNCHANGED <<package, waiting, cursor, free, pending, placed, stuck>>
  PROVE  IInv'
<1>1. PlanTypes'
  BY DEF IInv, PlanTypes, Requests, OfKind
<1>2. (\A s \in Slices : Separate(free[s]))'
  BY DEF IInv
<1>3. ScanInv'
  BY DEF ScanInv
<1>4. CoverInv'
  BY DEF IInv, CoverInv, Unused, RowsOf, Extent, Binding
<1>5. ResidentsApart' /\ ResidentsAvoidReserved'
  BY DEF IInv, ResidentsApart, ResidentsAvoidReserved, RowsOf, Extent, Binding
<1>6. Scanned' <=> Scanned
  BY DEF Scanned
<1> QED
  BY <1>1, <1>2, <1>3, <1>4, <1>5, <1>6 DEF IInv

\* A refused request has no rows that fit.
LEMMA RefuseIInv ==
  ASSUME IInv, NEW i \in pending, Refuse(i)
  PROVE  IInv'
<1>1. /\ phase = "residents"
      /\ Binding(i).on = {} \/ RowsThatFit(i) = {}
      /\ phase' = "refused" /\ stuck' = i
      /\ UNCHANGED <<package, waiting, cursor, free, pending, placed>>
  BY DEF Refuse
<1>2. Scanned
  BY <1>1 DEF IInv
<1>3. RowsThatFit(i) = {}
  <2>1. Binding(i).on = {} => Candidates(i) = {}
    BY DEF Candidates
  <2> QED
    BY <1>1, <2>1 DEF RowsThatFit
<1>4. (RowsThatFit(stuck) = {})'
  BY <1>1, <1>3 DEF RowsThatFit, Candidates, Fits, Extent, Binding
<1>5. PlanTypes'
  BY <1>1 DEF IInv, PlanTypes, Requests, OfKind
<1>6. (\A s \in Slices : Separate(free[s]))' /\ ScanInv' /\ Scanned'
  BY <1>1, <1>2 DEF IInv, ScanInv, Scanned
<1>7. CoverInv'
  BY <1>1 DEF IInv, CoverInv, Unused, RowsOf, Extent, Binding
<1>8. ResidentsApart' /\ ResidentsAvoidReserved'
  BY <1>1 DEF IInv, ResidentsApart, ResidentsAvoidReserved, RowsOf, Extent, Binding
<1> QED
  BY <1>1, <1>4, <1>5, <1>6, <1>7, <1>8 DEF IInv

\* A tensor takes rows that are unused in all its slices.
LEMMA PlaceIInv ==
  ASSUME IInv, NEW i \in pending, Place(i)
  PROVE  IInv'
<1>1. PICK row \in RowsThatFit(i) :
          /\ placed' = [k \in DOMAIN placed \cup {i} |-> IF k = i THEN row ELSE placed[k]]
          /\ free' = [s \in Slices |->
                 IF s \in Binding(i).on THEN Carved(free[s], row, Extent(i)) ELSE free[s]]
  BY DEF Place
<1>2. /\ phase = "residents"
      /\ pending' = pending \ {i}
      /\ UNCHANGED <<package, phase, waiting, cursor, stuck>>
  BY DEF Place
<1>3. /\ package \in Packages /\ i \in Requests /\ DOMAIN placed = Requests \ pending
      /\ stuck = 0 /\ Scanned
  BY <1>2 DEF IInv, PlanTypes
<1> DEFINE extent == Extent(i)
           on == Binding(i).on
           block == row .. row + extent - 1
<1>4. extent \in Nat \ {0} /\ on \subseteq Slices /\ i \notin DOMAIN placed
  BY <1>3, BindingsTyped
<1>5. Rows \subseteq Nat /\ \A x \in Rows : x <= Capacity
  BY NumbersAssumption DEF Rows
<1>6. \A s \in Slices : /\ Separate(free[s])
                        /\ \A iv \in free[s] : iv[1] \in Rows /\ iv[2] \in Rows
  BY DEF IInv, Separate
<1>7. \A s \in on : \E iv \in free[s] : Holds(iv, row, extent)
  BY DEF RowsThatFit, Fits
<1>8. row \in Int /\ on # {}
  <2>1. PICK s \in on : \E iv \in free[s] : row \in {iv[1], iv[2] - extent}
    BY DEF RowsThatFit, Candidates
  <2>2. PICK iv \in free[s] : row \in {iv[1], iv[2] - extent}
    BY <2>1
  <2>3. iv[1] \in Nat /\ iv[2] \in Nat
    BY <1>4, <1>5, <1>6
  <2>4. extent \in Nat
    BY <1>4
  <2>5. on # {}
    BY <2>1
  <2> HIDE DEF extent, on
  <2> QED
    BY <2>2, <2>3, <2>4, <2>5
<1>9. block \subseteq Rows /\ row \in block /\ \A x \in block : x < Capacity
  <2>1. PICK s \in on : \E iv \in free[s] : Holds(iv, row, extent)
    BY <1>7, <1>8
  <2>2. PICK iv \in free[s] : Holds(iv, row, extent)
    BY <2>1
  <2>3. iv[1] \in Nat /\ iv[2] \in Nat /\ iv[2] <= Capacity
    BY <1>4, <1>5, <1>6
  <2> HIDE DEF extent, on
  <2> QED
    BY <1>4, <1>8, <2>2, <2>3, NumbersAssumption DEF Holds, Rows
<1>10. \A s \in on : /\ free'[s] = Carved(free[s], row, extent)
                     /\ Separate(free'[s])
                     /\ \A x \in Int : Covers(free'[s], x) <=> Covers(free[s], x) /\ x \notin block
  <2> SUFFICES ASSUME NEW s \in on
               PROVE  /\ free'[s] = Carved(free[s], row, extent)
                      /\ Separate(free'[s])
                      /\ \A x \in Int : Covers(free'[s], x)
                                           <=> Covers(free[s], x) /\ x \notin block
    OBVIOUS
  <2>1. free'[s] = Carved(free[s], row, extent)
    BY <1>1, <1>4
  <2>2. PICK iv \in free[s] : Holds(iv, row, extent)
    BY <1>7
  <2>3. Separate(free[s])
    BY <1>4, <1>6
  <2> HIDE DEF extent, on
  <2> QED
    BY <1>4, <1>8, <2>1, <2>2, <2>3, CarvedBounds
<1>11. \A s \in Slices \ on : free'[s] = free[s]
  BY <1>1
<1>12. \A s \in Slices, x \in Rows : x < Capacity => (Covers(free[s], x) <=> Unused(s, x))
  BY <1>3 DEF IInv, CoverInv, Scanned
\* What the slices of the tensor hold of others is not in its rows.
<1>13. \A s \in on, x \in block : Unused(s, x)
  <2> SUFFICES ASSUME NEW s \in on, NEW x \in block
               PROVE  Unused(s, x)
    OBVIOUS
  <2>1. PICK iv \in free[s] : Holds(iv, row, extent)
    BY <1>7
  <2>2. iv[1] \in Nat /\ iv[2] \in Nat /\ x \in Nat
    BY <1>4, <1>5, <1>6, <1>9
  <2>3. InRange(x, iv)
    <3> HIDE DEF extent, on
    <3> QED
      BY <1>4, <1>8, <2>1, <2>2 DEF Holds, InRange
  <2> HIDE DEF extent, on, block
  <2> QED
    BY <1>4, <1>9, <1>12, <2>3 DEF Covers
<1>14. /\ DOMAIN placed' = DOMAIN placed \cup {i}
       /\ placed'[i] = row
       /\ \A k \in DOMAIN placed : placed'[k] = placed[k]
  BY <1>1, <1>4
<1>15. /\ \A k \in DOMAIN placed : RowsOf(k)' = RowsOf(k)
       /\ RowsOf(i)' = block
       /\ \A k : Binding(k)' = Binding(k)
  BY <1>2, <1>14 DEF RowsOf, Extent, Binding
<1>16. ASSUME NEW s \in Slices, NEW x
       PROVE  Unused(s, x)' <=> Unused(s, x) /\ (s \in on => x \notin block)
  BY <1>2, <1>14, <1>15 DEF Unused
<1> HIDE DEF extent, block
<1>17. CoverInv'
  <2> SUFFICES ASSUME NEW s \in Slices, NEW x \in Rows, x < Capacity
               PROVE  Covers(free'[s], x) <=> Unused(s, x)'
    BY <1>2, <1>3 DEF CoverInv, Scanned
  <2>1. x \in Int
    BY <1>5
  <2>2. CASE s \in on
    BY <1>10, <1>12, <1>16, <2>1, <2>2
  <2>3. CASE s \notin on
    BY <1>11, <1>12, <1>16, <2>3
  <2> QED
    BY <2>2, <2>3
<1>18. ResidentsApart'
  <2> SUFFICES ASSUME NEW j \in DOMAIN placed', NEW k \in DOMAIN placed', j # k,
                      Binding(j).on \cap Binding(k).on # {}
               PROVE  RowsOf(j)' \cap RowsOf(k)' = {}
    BY <1>15 DEF ResidentsApart
  <2>1. CASE j # i /\ k # i
    BY <1>14, <1>15, <2>1 DEF IInv, ResidentsApart
  <2>2. ASSUME NEW m \in DOMAIN placed, on \cap Binding(m).on # {}
        PROVE  block \cap RowsOf(m) = {}
    <3>1. PICK s \in on : s \in Binding(m).on
      BY <2>2
    <3> QED
      BY <1>13, <3>1 DEF Unused
  <2> QED
    BY <1>14, <1>15, <2>1, <2>2
<1>19. ResidentsAvoidReserved'
  <2> SUFFICES ASSUME NEW k \in DOMAIN placed', NEW s \in Binding(k).on,
                      NEW jv \in Reserved(package, s), NEW x \in RowsOf(k)'
               PROVE  ~InRange(x, jv)
    BY <1>2, <1>15 DEF ResidentsAvoidReserved
  <2>1. CASE k = i
    BY <1>13, <1>15, <2>1 DEF Unused
  <2>2. CASE k # i
    BY <1>14, <1>15, <2>2 DEF IInv, ResidentsAvoidReserved
  <2> QED
    BY <2>1, <2>2
<1>20. \A s \in Slices : Separate(free'[s])
  BY <1>6, <1>10, <1>11
<1>21. free' \in [Slices -> SUBSET (Rows \X Rows)]
  <2>1. \A s \in Slices : free'[s] \subseteq Rows \X Rows
    BY <1>20 DEF Separate
  <2> QED
    BY <1>1, <2>1
<1>22. PlanTypes'
  BY <1>2, <1>3, <1>9, <1>14, <1>21 DEF IInv, PlanTypes, Requests, OfKind
<1>23. ScanInv' /\ Scanned'
  BY <1>2, <1>3 DEF ScanInv, Scanned
<1> QED
  BY <1>2, <1>3, <1>17, <1>18, <1>19, <1>20, <1>22, <1>23 DEF IInv

-----------------------------------------------------------------------------
(***************************************************************************)
(* The theorems.                                                           *)
(***************************************************************************)
\* Every step of the planner keeps the invariant.
LEMMA StepIInv ==
  ASSUME IInv, [Next]_vars
  PROVE  IInv'
<1>1. CASE UNCHANGED vars
  <2>1. PlanTypes' /\ ScanInv' /\ (Scanned' <=> Scanned)
    BY <1>1 DEF vars, IInv, PlanTypes, ScanInv, Scanned, Requests, OfKind
  <2>2. (\A s \in Slices : Separate(free[s]))'
    BY <1>1 DEF vars, IInv
  <2>3. CoverInv'
    BY <1>1 DEF vars, IInv, CoverInv, Unused, RowsOf, Extent, Binding
  <2>4. ResidentsApart' /\ ResidentsAvoidReserved'
    BY <1>1 DEF vars, IInv, ResidentsApart, ResidentsAvoidReserved, RowsOf, Extent, Binding
  <2>5. RowsThatFit(stuck)' = RowsThatFit(stuck)
    BY <1>1 DEF vars, RowsThatFit, Candidates, Fits, Extent, Binding
  <2> QED
    BY <1>1, <2>1, <2>2, <2>3, <2>4, <2>5 DEF vars, IInv
<1>2. CASE ReserveOutside
  BY <1>2, PhaseIInv DEF ReserveOutside, IInv, ScanInv
<1>3. CASE CloseSlices
  BY <1>3, CloseIInv
<1>4. CASE CheckStates
  BY <1>4, PhaseIInv DEF CheckStates, IInv
<1>5. CASE Accept
  BY <1>5, PhaseIInv DEF Accept, IInv
<1>6. CASE \E s \in Slices : Reserve(s)
  BY <1>6, ReserveIInv
<1>7. CASE \E i \in pending : Place(i) \/ Refuse(i)
  BY <1>7, PlaceIInv, RefuseIInv
<1> QED
  BY <1>1, <1>2, <1>3, <1>4, <1>5, <1>6, <1>7 DEF Next

\* The invariant holds of every package and every memory.
THEOREM PlanInvariant == Spec => []IInv
<1>1. Init => IInv
  BY InitIInv
<1>2. IInv /\ [Next]_vars => IInv'
  BY StepIInv
<1> QED
  BY <1>1, <1>2, PTL DEF Spec

\* Requests are pending or have rows, and free intervals never touch.
THEOREM PlanTypeOK == Spec => []TypeOK
<1>1. IInv => TypeOK
  BY DEF IInv, PlanTypes, Separate, Rows, TypeOK
<1> QED
  BY <1>1, PlanInvariant, PTL

\* Resident tensors never share a row of a slice.
THEOREM ResidentsStayApart == Spec => []ResidentsApart
<1>1. IInv => ResidentsApart
  BY DEF IInv
<1> QED
  BY <1>1, PlanInvariant, PTL

\* Resident tensors never take a row that an executable has reserved.
THEOREM ResidentsStayOffReserved == Spec => []ResidentsAvoidReserved
<1>1. IInv => ResidentsAvoidReserved
  BY DEF IInv
<1> QED
  BY <1>1, PlanInvariant, PTL

\* Rows that fit a tensor may be moved down to the begin of an interval: a
\* tensor that fits anywhere has a candidate.
LEMMA FittingCandidate ==
  ASSUME IInv, NEW i \in Requests, Binding(i).on # {}, NEW first \in Rows, Fits(i, first)
  PROVE  RowsThatFit(i) # {}
<1> DEFINE S == {row \in Rows : Fits(i, row)}
           extent == Extent(i)
           on == Binding(i).on
<1>1. extent \in Nat \ {0} /\ on \subseteq Slices
  BY BindingsTyped DEF IInv, PlanTypes
<1>2. S \in SUBSET (0 .. Capacity) /\ S # {} /\ Rows \subseteq Nat /\ Capacity \in Nat
  BY NumbersAssumption DEF Rows
<1>3. PICK least \in S : \A other \in S : least <= other
  <2> HIDE DEF S
  <2> QED
    BY <1>2, LeastNatural
<1>4. \A s \in on : \A iv \in free[s] : iv[1] \in Nat /\ iv[2] \in Nat
  BY <1>1, <1>2 DEF IInv, Separate
<1>5. ASSUME least \notin Candidates(i)
      PROVE  FALSE
  <2>1. \A s \in on : \A iv \in free[s] :
            Holds(iv, least, extent) => iv[1] < least /\ Holds(iv, least - 1, extent)
    <3> SUFFICES ASSUME NEW s \in on, NEW iv \in free[s], Holds(iv, least, extent)
                 PROVE  iv[1] < least /\ Holds(iv, least - 1, extent)
      OBVIOUS
    <3>1. least \in Nat /\ iv[1] \in Nat /\ iv[2] \in Nat /\ extent \in Nat
      BY <1>1, <1>2, <1>3, <1>4
    <3>2. iv[2] - iv[1] >= extent
      <4> HIDE DEF extent
      <4> QED
        BY <3>1 DEF Holds
    <3>3. iv[1] \in Candidates(i)
      BY <3>2 DEF Candidates
    <3>4. iv[1] # least
      BY <1>5, <3>3
    <3> HIDE DEF extent
    <3> QED
      BY <3>1, <3>4 DEF Holds
  <2>2. \A s \in on : \E iv \in free[s] : Holds(iv, least, extent)
    BY DEF Fits
  <2>3. least - 1 \in Rows
    <3>1. PICK s \in on : \E iv \in free[s] : Holds(iv, least, extent)
      BY <1>1, <2>2
    <3>1a. PICK iv \in free[s] : Holds(iv, least, extent)
      BY <3>1
    <3>2. iv[1] < least /\ iv[1] \in Nat /\ least \in Rows
      BY <1>2, <1>4, <2>1, <3>1a
    <3> QED
      BY <3>2, NumbersAssumption DEF Rows
  <2>4. Fits(i, least - 1)
    BY <2>1, <2>2 DEF Fits
  <2>5. least - 1 \in S /\ least \in Nat
    BY <1>2, <2>3, <2>4
  <2> HIDE DEF S
  <2> QED
    BY <1>3, <2>5
<1> QED
  BY <1>3, <1>5 DEF RowsThatFit

\* A tensor is refused only if no rows are unused in all its slices.
THEOREM RefusalsAreJustified == Spec => []RefusalIsJustified
<1>1. IInv => RefusalIsJustified
  <2> SUFFICES ASSUME IInv, stuck # 0, Binding(stuck).on # {},
                      NEW first \in 0 .. Capacity - Extent(stuck),
                      \A s \in Binding(stuck).on :
                         \A row \in first .. first + Extent(stuck) - 1 : Unused(s, row)
               PROVE  FALSE
    BY DEF RefusalIsJustified
  <2> DEFINE extent == Extent(stuck)
  <2>1. stuck \in Requests /\ RowsThatFit(stuck) = {} /\ Scanned
    BY DEF IInv, PlanTypes
  <2>2. extent \in Nat \ {0} /\ Binding(stuck).on \subseteq Slices
    BY <2>1, BindingsTyped DEF IInv, PlanTypes
  <2>3. /\ first \in Rows /\ first \in Int
        /\ \A row \in first .. first + extent - 1 : row \in Rows /\ row < Capacity
    <3>1. first \in 0 .. Capacity - extent
      OBVIOUS
    <3> HIDE DEF extent
    <3> QED
      BY <2>2, <3>1, NumbersAssumption DEF Rows
  <2>4. ASSUME NEW s \in Binding(stuck).on
        PROVE  \E iv \in free[s] : Holds(iv, first, extent)
    <3>1. \A row \in first .. first + extent - 1 : Covers(free[s], row)
      BY <2>1, <2>2, <2>3 DEF IInv, CoverInv, Scanned
    <3>2. Separate(free[s])
      BY <2>2 DEF IInv
    <3> HIDE DEF extent
    <3> QED
      BY <2>2, <2>3, <3>1, <3>2, BlockIsHeld
  <2>5. Fits(stuck, first)
    BY <2>4 DEF Fits
  <2> QED
    BY <2>1, <2>3, <2>5, FittingCandidate
<1> QED
  BY <1>1, PlanInvariant, PTL
=============================================================================
