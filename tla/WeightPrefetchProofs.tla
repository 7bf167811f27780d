------------------------ MODULE WeightPrefetchProofs ------------------------
(***************************************************************************)
(* Proofs about WeightPrefetch for every set of programs, pages, banks and *)
(* streams.                                                                *)
(***************************************************************************)
EXTENDS WeightPrefetch, BoundedNumbers

-----------------------------------------------------------------------------
(* Facts about programs and numbers.                                       *)

\* The fields of a program.
LEMMA ProgramFields ==
  ASSUME NEW P \in ProgramType
  PROVE  /\ P.uses \in Seq(Uses)
         /\ P.bank \in [Pages -> Banks]
         /\ P.bytes \in [Pages -> Nat]
         /\ P.spots \in [Pages -> SUBSET Spots]
         /\ P.constants \in [Banks \X Spots -> SUBSET Cycles]
         /\ P.scratch \in [Banks -> SUBSET Cycles]
         /\ P.common \in BOOLEAN
         /\ P.overlap \in BOOLEAN
         /\ P.streams \in [StreamIds -> Cycles] \cup [{} -> Cycles]
         /\ P.window \in UNION {[W -> Cycles \X Cycles] : W \in SUBSET Pages}
BY DEF ProgramType

\* A use is of a page and lies within the horizon, first cycle first.
LEMMA UseFields ==
  ASSUME NEW P \in Programs, NEW u \in DOMAIN P.uses
  PROVE  /\ P.uses[u] \in Uses
         /\ P.uses[u].page \in Pages
         /\ P.uses[u].ready \in Nat /\ P.uses[u].ready \in Cycles
         /\ P.uses[u].release \in Nat /\ P.uses[u].release \in Cycles
         /\ P.uses[u].runtime \in BOOLEAN
         /\ P.uses[u].ready <= P.uses[u].release
<1>1. P.uses \in Seq(Uses)
  BY ProgramsAssumption, ProgramFields
<1>2. P.uses[u] \in Uses
  BY <1>1
<1>3. Cycles \subseteq Nat
  BY NumbersAssumption DEF Cycles
<1>4. QED BY <1>2, <1>3, UsesAssumption DEF Uses

\* Reserved windows lie within the horizon.
LEMMA WindowFields ==
  ASSUME NEW P \in ProgramType, NEW p \in DOMAIN P.window
  PROVE  P.window[p][1] \in Cycles /\ P.window[p][2] \in Cycles
<1>1. P.window \in UNION {[W -> Cycles \X Cycles] : W \in SUBSET Pages}
  BY ProgramFields
<1>2. PICK W \in SUBSET Pages : P.window \in [W -> Cycles \X Cycles]
  BY <1>1
<1>3. QED BY <1>2

\* Known last uses of the streams are given for all of them.
LEMMA StreamFields ==
  ASSUME NEW P \in ProgramType, DOMAIN P.streams # {}
  PROVE  P.streams \in [StreamIds -> Cycles]
<1>1. P.streams \in [StreamIds -> Cycles] \/ P.streams \in [{} -> Cycles]
  BY ProgramFields
<1>2. QED BY <1>1

\* The rounded-up quotient of a transport is a number.
LEMMA DurationType ==
  ASSUME NEW bytes \in Nat, NEW n \in Nat \ {0}
  PROVE  Duration(bytes, n) \in Nat
<1>1. n * LaneBytes \in Nat \ {0}
  <2>1. \A a, b \in Nat \ {0} : a * b \in Nat \ {0}
    OBVIOUS
  <2>2. QED BY <2>1, NumbersAssumption
<1>2. \A a \in Nat : \A b \in Nat \ {0} : a \div b \in Nat
  OBVIOUS
<1>3. bytes + n * LaneBytes - 1 \in Nat
  BY <1>1
<1>4. (bytes + n * LaneBytes - 1) \div (n * LaneBytes) \in Nat
  BY <1>1, <1>2, <1>3
<1>5. QED BY <1>4, NumbersAssumption DEF Duration

\* The greatest element of a nonempty set of cycles.
LEMMA GreatestCycle ==
  ASSUME NEW T \in SUBSET Cycles, T # {}
  PROVE  Greatest(T) \in T /\ \A x \in T : x <= Greatest(T)
<1>1. Horizon \in Nat /\ T \in SUBSET (0 .. Horizon)
  BY NumbersAssumption DEF Cycles
<1>2. \E x \in T : \A y \in T : x >= y
  BY <1>1, GreatestNatural
<1>3. Greatest(T) \in T /\ \A y \in T : Greatest(T) >= y
  BY <1>2 DEF Greatest
<1>4. QED BY <1>1, <1>3

\* The least element of a nonempty set of numbers.
LEMMA LeastNumber ==
  ASSUME NEW T \in SUBSET Nat, T # {}
  PROVE  Least(T) \in T /\ \A x \in T : Least(T) <= x
<1>1. PICK n \in T : TRUE
  OBVIOUS
<1> DEFINE S == T \cap (0 .. n)
<1>2. n \in Nat /\ S \in SUBSET (0 .. n) /\ n \in S
  BY <1>1
<1>3. PICK m \in S : \A y \in S : m <= y
  <2> HIDE DEF S
  <2>1. QED BY <1>2, LeastNatural
<1>4. \A x \in T : m <= x
  <2>1. TAKE x \in T
  <2>2. CASE x <= n
    BY <1>3, <2>2
  <2>3. CASE ~(x <= n)
    BY <1>3, <2>3
  <2>4. QED BY <2>2, <2>3
<1>5. QED BY <1>3, <1>4 DEF Least

-----------------------------------------------------------------------------
(* Facts about the state.                                                  *)

\* The fields of a plan.
LEMMA PlanFields ==
  ASSUME TypeOK, NEW i \in Indices
  PROVE  /\ plans[i] \in PlanType
         /\ plans[i].page \in Pages
         /\ plans[i].uses \subseteq DOMAIN prog.uses
         /\ plans[i].ready \in Cycles /\ plans[i].ready \in Nat
         /\ plans[i].release \in Cycles /\ plans[i].release \in Nat
         /\ plans[i].runtime \in BOOLEAN
         /\ plans[i].bytes \in Nat
         /\ plans[i].residency \in Nat \cup {Unassigned}
<1>1. plans[i] \in PlanType
  BY DEF TypeOK, Indices
<1>2. Cycles \subseteq Nat
  BY NumbersAssumption DEF Cycles
<1>3. QED BY <1>1, <1>2 DEF PlanType

\* The fields of a timing.
LEMMA TimingFields ==
  ASSUME TypeOK, NEW i \in DOMAIN timing
  PROVE  /\ i \in Indices
         /\ timing[i] \in TimingType
         /\ timing[i].pre \in BOOLEAN
         /\ timing[i].reusable \in Cycles /\ timing[i].reusable \in Nat
         /\ timing[i].start \in Nat /\ timing[i].end \in Nat
         /\ timing[i].arm \in Nat
         /\ timing[i].streams \subseteq StreamIds
<1>1. timing \in Seq(TimingType) /\ Len(timing) <= Len(plans) /\ plans \in Seq(PlanType)
  BY DEF TypeOK
<1>2. timing[i] \in TimingType /\ i \in Indices
  BY <1>1 DEF Indices
<1>3. Cycles \subseteq Nat
  BY NumbersAssumption DEF Cycles
<1>4. QED BY <1>2, <1>3 DEF TimingType

\* The rows of a plan are free at a cycle of the program that is behind the
\* releases of all earlier plans in them, and behind the consumer only if such
\* a release is.
LEMMA ReusableBounds ==
  ASSUME TypeOK, NEW i \in Indices
  PROVE  /\ Reusable(i) \in Cycles
         /\ \A j \in Reusers(i) : plans[j].release <= Reusable(i)
         /\ (\A j \in Reusers(i) : plans[j].release <= plans[i].ready)
                => Reusable(i) <= plans[i].ready
<1> DEFINE Releases == {plans[j].release : j \in Reusers(i)}
           Scratch == IF CanPreload(i) THEN {} ELSE ScratchEnds(i)
           Ends == {0} \cup ConstantEnds(i) \cup Releases \cup Scratch
<1>1. prog \in ProgramType /\ 0 \in Cycles /\ Cycles \subseteq Nat
  BY NumbersAssumption DEF TypeOK, Cycles
<1>2. plans[i].page \in Pages /\ plans[i].ready \in Cycles /\ plans[i].ready \in Nat
  BY PlanFields
<1>3. Reusers(i) \subseteq Indices
  BY DEF Reusers, Indices, TypeOK
<1>4. Releases \subseteq Cycles
  BY <1>3, PlanFields
<1>5. ConstantEnds(i) \subseteq Cycles /\ \A e \in ConstantEnds(i) : e <= plans[i].ready
  <2>1. prog.bank[plans[i].page] \in Banks /\ prog.spots[plans[i].page] \subseteq Spots
    BY <1>1, <1>2, ProgramFields
  <2>2. Regions(i) \subseteq Banks \X Spots
    BY <2>1 DEF Regions, RegionsOf
  <2>3. \A c \in Regions(i) : prog.constants[c] \subseteq Cycles
    BY <1>1, <2>2, ProgramFields
  <2>4. ASSUME NEW e \in Cycles
        PROVE  Smaller(e, plans[i].ready) \in Cycles
               /\ Smaller(e, plans[i].ready) <= plans[i].ready
    <3>1. e \in Nat /\ plans[i].ready \in Nat
      BY <1>1, <1>2
    <3>2. CASE e <= plans[i].ready
      BY <3>1, <3>2 DEF Smaller
    <3>3. CASE ~(e <= plans[i].ready)
      BY <1>2, <3>1, <3>3 DEF Smaller
    <3>4. QED BY <3>2, <3>3
  <2>5. QED BY <2>3, <2>4 DEF ConstantEnds
<1>6. Scratch \subseteq Cycles /\ \A e \in Scratch : e <= plans[i].ready
  <2>1. prog.scratch[BankOf(i)] \subseteq Cycles
    BY <1>1, <1>2, ProgramFields DEF BankOf
  <2>2. \A e \in ScratchEnds(i) : e \in Cycles /\ e < plans[i].ready
    BY <2>1 DEF ScratchEnds
  <2>3. \A e \in ScratchEnds(i) : e \in Cycles /\ e <= plans[i].ready
    <3>1. \A e \in Nat : e < plans[i].ready => e <= plans[i].ready
      BY <1>1, <1>2
    <3>2. QED BY <1>1, <2>2, <3>1
  <2>4. QED BY <2>3
<1>7. Ends \in SUBSET Cycles /\ Ends # {}
  BY <1>1, <1>4, <1>5, <1>6
<1>8. Reusable(i) = Greatest(Ends)
  BY DEF Reusable
<1>9. Greatest(Ends) \in Ends /\ \A e \in Ends : e <= Greatest(Ends)
  <2> HIDE DEF Ends
  <2>1. QED BY <1>7, GreatestCycle
<1>10. \A j \in Reusers(i) : plans[j].release \in Ends
  OBVIOUS
<1>11. ASSUME \A j \in Reusers(i) : plans[j].release <= plans[i].ready
       PROVE  \A e \in Ends : e <= plans[i].ready
  <2>1. 0 <= plans[i].ready
    BY <1>1, <1>2
  <2>2. \A e \in Releases : e <= plans[i].ready
    BY <1>11
  <2> HIDE DEF Scratch, Releases
  <2>3. QED BY <1>5, <1>6, <2>1, <2>2
<1>12. QED
  <2> HIDE DEF Ends
  <2>1. Reusable(i) \in Cycles
    BY <1>7, <1>8, <1>9
  <2>2. \A j \in Reusers(i) : plans[j].release <= Reusable(i)
    BY <1>8, <1>9, <1>10
  <2>3. ASSUME \A j \in Reusers(i) : plans[j].release <= plans[i].ready
        PROVE  Reusable(i) <= plans[i].ready
    BY <1>8, <1>9, <1>11, <2>3
  <2>4. QED BY <2>1, <2>2, <2>3

-----------------------------------------------------------------------------
(* Facts about launches.                                                   *)

\* Raising a cycle to a window keeps it a number and the order of cycles.
LEMMA InWindowBounds ==
  ASSUME TypeOK, NEW i \in Indices, NEW a \in Nat, NEW b \in Nat, a <= b
  PROVE  /\ InWindow(i, a) \in Nat /\ InWindow(i, b) \in Nat
         /\ a <= InWindow(i, a)
         /\ InWindow(i, a) <= InWindow(i, b)
         /\ WindowValid(i) /\ a <= plans[i].ready
                => InWindow(i, a) <= plans[i].ready
<1>1. prog \in ProgramType /\ Cycles \subseteq Nat
  BY NumbersAssumption DEF TypeOK, Cycles
<1>2. CASE ~Windowed(i)
  BY <1>2 DEF InWindow
<1>3. CASE Windowed(i)
  <2> DEFINE w == WindowBegin(i)
             v == WindowEnd(i)
  <2>1. w \in Nat /\ v \in Nat
    BY <1>1, <1>3, WindowFields DEF Windowed, HasWindow, WindowBegin, WindowEnd
  <2>2. InWindow(i, a) = Larger(a, w) /\ InWindow(i, b) = Larger(b, w)
    BY <1>3 DEF InWindow
  <2>3. plans[i].ready \in Nat
    BY PlanFields
  <2>4. WindowValid(i) => w < Smaller(v, plans[i].ready)
    BY <1>3 DEF WindowValid, IngressEnd
  <2> HIDE DEF w, v
  <2>5. QED BY <2>1, <2>2, <2>3, <2>4 DEF Larger, Smaller
<1>4. QED BY <1>2, <1>3

\* A page is armed once its rows are free and by its earliest launch; and by
\* its consumer, if the rows are free by then.
LEMMA LaunchBounds ==
  ASSUME TypeOK, NEW i \in DOMAIN timing
  PROVE  /\ Earliest(i) \in Nat /\ ArmCycle(i) \in Nat
         /\ timing[i].reusable <= ArmCycle(i)
         /\ ArmCycle(i) <= Earliest(i)
         /\ timing[i].reusable <= Earliest(i)
         /\ cursor <= Earliest(i)
         /\ WindowValid(i) /\ timing[i].reusable <= plans[i].ready
                => ArmCycle(i) <= plans[i].ready
<1> DEFINE r == timing[i].reusable
           both == Larger(r, cursor)
           arm == IF cursor > plans[i].ready THEN r ELSE both
<1>1. i \in Indices /\ r \in Nat
  BY TimingFields
<1>2. cursor \in Nat /\ plans[i].ready \in Nat
  BY <1>1, PlanFields DEF TypeOK
<1>3. both \in Nat /\ r <= both /\ cursor <= both
  BY <1>1, <1>2 DEF Larger
<1>4. arm \in Nat /\ r <= arm /\ arm <= both
  BY <1>1, <1>2, <1>3
<1>5. r <= plans[i].ready => arm <= plans[i].ready
  BY <1>1, <1>2 DEF Larger
<1>6. Earliest(i) = InWindow(i, both) /\ ArmCycle(i) = InWindow(i, arm)
  BY DEF Earliest, ArmCycle
<1> HIDE DEF both, arm, r
<1>7. /\ InWindow(i, arm) \in Nat /\ InWindow(i, both) \in Nat
      /\ arm <= InWindow(i, arm)
      /\ InWindow(i, arm) <= InWindow(i, both)
      /\ WindowValid(i) /\ arm <= plans[i].ready => InWindow(i, arm) <= plans[i].ready
  BY <1>1, <1>3, <1>4, InWindowBounds
<1>8. both <= InWindow(i, both)
  <2>1. both <= both
    BY <1>3
  <2>2. QED BY <1>1, <1>3, <2>1, InWindowBounds
<1>9. r <= InWindow(i, arm) /\ r <= InWindow(i, both) /\ cursor <= InWindow(i, both)
  BY <1>1, <1>2, <1>3, <1>4, <1>7, <1>8
<1>10. QED BY <1>5, <1>6, <1>7, <1>9 DEF r

\* Idle streams are streams, and when one is idle between 1 and Lanes are taken.
LEMMA LanesCount ==
  ASSUME NEW cycle, IdleAt(cycle) # {}
  PROVE  /\ LanesAt(cycle) \subseteq IdleAt(cycle)
         /\ IdleAt(cycle) \subseteq StreamIds
         /\ IsFiniteSet(LanesAt(cycle))
         /\ Cardinality(LanesAt(cycle)) \in 1 .. Lanes
<1> DEFINE I == IdleAt(cycle)
           L == LanesAt(cycle)
           above(s) == {t \in I : t > s}
<1>1. StreamCount - 1 \in Int /\ Lanes \in Nat /\ StreamCount \in Nat /\ Lanes >= 1
  BY NumbersAssumption
<1>2. I \subseteq StreamIds /\ L \subseteq I /\ StreamIds \subseteq Nat
  BY <1>1 DEF IdleAt, LanesAt, StreamIds
<1>3. IsFiniteSet(StreamIds)
  BY <1>1, FS_Interval DEF StreamIds
<1>4. IsFiniteSet(I) /\ IsFiniteSet(L)
  BY <1>2, <1>3, FS_Subset
<1>5. L # {}
  <2>1. StreamCount \in Nat /\ I \in SUBSET (0 .. StreamCount) /\ I # {}
    BY <1>1, <1>2 DEF StreamIds
  <2>2. PICK m \in I : \A t \in I : m >= t
    <3> HIDE DEF I
    <3>1. QED BY <2>1, GreatestNatural
  <2>3. above(m) = {}
    <3>1. \A t \in I : t \in Nat
      BY <1>2
    <3>2. QED BY <2>2, <3>1
  <2>4. Cardinality(above(m)) < Lanes
    BY <1>1, <2>3, FS_EmptySet
  <2>5. m \in L
    BY <2>2, <2>4 DEF LanesAt
  <2>6. QED BY <2>5
<1>6. Cardinality(L) \in Nat /\ Cardinality(L) # 0
  <2> HIDE DEF L
  <2>1. QED BY <1>4, <1>5, FS_CardinalityType, FS_EmptySet
<1>7. Cardinality(L) <= Lanes
  <2>1. L \in SUBSET Nat
    BY <1>2
  <2>2. PICK m \in L : \A t \in L : m <= t
    <3> HIDE DEF L
    <3>1. QED BY <1>5, <2>1, LeastNumber
  <2>3. L \ {m} \subseteq above(m)
    <3>1. \A t \in L \ {m} : t \in I /\ m \in Nat /\ t \in Nat /\ m <= t /\ t # m
      BY <1>2, <2>1, <2>2
    <3>2. QED BY <3>1
  <2>4. IsFiniteSet(above(m))
    BY <1>4, FS_Subset
  <2>5. Cardinality(L \ {m}) <= Cardinality(above(m))
    <3> HIDE DEF L, above
    <3>1. QED BY <2>3, <2>4, FS_Subset
  <2>6. Cardinality(above(m)) < Lanes
    BY <2>2 DEF LanesAt
  <2>7. Cardinality(L \ {m}) = Cardinality(L) - 1
    <3> HIDE DEF L
    <3>1. QED BY <1>4, <2>2, FS_RemoveElement
  <2>8. Cardinality(above(m)) \in Nat
    <3> HIDE DEF above
    <3>1. QED BY <2>4, FS_CardinalityType
  <2>9. QED BY <1>1, <1>6, <2>5, <2>6, <2>7, <2>8
<1>8. QED BY <1>1, <1>2, <1>4, <1>6, <1>7

\* Some cycle at or after the earliest launch has an idle stream.
LEMMA CandidateExists ==
  ASSUME TypeOK, NEW i \in DOMAIN timing, ChoosesStreams(i)
  PROVE  Candidates(i) # {}
<1>1. prog \in ProgramType /\ DOMAIN prog.streams # {}
  BY DEF TypeOK, ChoosesStreams
<1>2. \A s \in StreamIds : prog.streams[s] \in Nat
  <2>1. Cycles \subseteq Nat
    BY NumbersAssumption DEF Cycles
  <2>2. QED BY <1>1, <2>1, StreamFields
<1>3. Earliest(i) \in Nat
  BY LaunchBounds
<1>4. 0 \in StreamIds
  BY NumbersAssumption DEF StreamIds
<1>5. CASE prog.streams[0] <= Earliest(i)
  <2>1. 0 \in IdleAt(Earliest(i))
    BY <1>4, <1>5 DEF IdleAt
  <2>2. Earliest(i) \in Candidates(i)
    BY <1>3, <2>1 DEF Candidates
  <2>3. QED BY <2>2
<1>6. CASE ~(prog.streams[0] <= Earliest(i))
  <2>1. 0 \in IdleAt(prog.streams[0])
    BY <1>2, <1>4 DEF IdleAt
  <2>2. prog.streams[0] >= Earliest(i)
    BY <1>2, <1>3, <1>4, <1>6
  <2>3. prog.streams[0] \in Candidates(i)
    BY <1>4, <2>1, <2>2 DEF Candidates
  <2>4. QED BY <2>3
<1>7. QED BY <1>5, <1>6

-----------------------------------------------------------------------------
(* The parts of the invariant about plans and about their timing.          *)

PlanPart ==
    /\ PlansSorted
    /\ UsesTaken
    /\ UsesCovered
    /\ WindowsApart
    /\ ResidencyCounted
    /\ ResidencyDisjoint

TimingPart ==
    /\ ReusableKnown
    /\ LaunchesInOrder
    /\ OneTransport
    /\ ArmedInTime
    /\ StreamsFound

Inv == prog \in Programs /\ IInv

\* The parts of the invariant that speak of plans, and those of timings.
LEMMA InvParts ==
  Inv <=> prog \in Programs /\ TypeOK /\ StagesInOrder /\ PlanPart /\ TimingPart
BY DEF Inv, IInv, PlanPart, TimingPart

\* Nothing is claimed of timings before there are any.
LEMMA NoTiming ==
  ASSUME timing' = << >>, stage' # "rejected"
  PROVE  TimingPart'
<1>1. DOMAIN timing' = {}
  OBVIOUS
<1>2. Launched' = {}
  BY <1>1 DEF Launched
<1>3. QED BY <1>1, <1>2
          DEF TimingPart, ReusableKnown, LaunchesInOrder, OneTransport, ArmedInTime, StreamsFound

\* The invariant holds before the first use is taken.
THEOREM InitInv == Init => Inv
<1> SUFFICES ASSUME Init PROVE Inv
  OBVIOUS
<1> USE DEF Init
<1>1. Indices = {} /\ DOMAIN timing = {} /\ Launched = {} /\ Len(plans) = 0 /\ Len(timing) = 0
  BY DEF Indices, Launched
<1>2. TypeOK
  <2>1. prog \in ProgramType
    BY ProgramsAssumption
  <2>2. plans \in Seq(PlanType) /\ timing \in Seq(TimingType)
    OBVIOUS
  <2>3. Len(timing) <= Len(plans)
    BY <1>1
  <2>4. /\ stage \in Stages /\ todo \subseteq DOMAIN prog.uses /\ waiting \subseteq Indices
        /\ cursor \in Nat /\ packed \in BOOLEAN
    BY DEF Stages
  <2>5. QED BY ONLY <2>1, <2>2, <2>3, <2>4 DEF TypeOK
<1>3. StagesInOrder
  BY DEF StagesInOrder
<1>4. PlanPart
  <2>1. Open = {}
    BY <1>1 DEF Open
  <2>2. QED BY <1>1, <2>1
            DEF PlanPart, PlansSorted, UsesTaken, UsesCovered, WindowsApart,
                ResidencyCounted, ResidencyDisjoint
<1>5. TimingPart
  BY <1>1 DEF TimingPart, ReusableKnown, LaunchesInOrder, OneTransport, ArmedInTime, StreamsFound
<1>6. QED BY <1>2, <1>3, <1>4, <1>5, InvParts

-----------------------------------------------------------------------------
(* Uses into plans.                                                        *)

\* The next use is not ready after any other.
LEMMA NextUseIsFirst ==
  ASSUME prog \in Programs, TypeOK, NEW u \in todo, NextUse(u)
  PROVE  \A v \in todo : prog.uses[u].ready <= prog.uses[v].ready
<1>1. \A v \in todo : prog.uses[v].ready \in Nat
  BY UseFields DEF TypeOK
<1>2. \A v \in todo : ~(prog.uses[v].ready < prog.uses[u].ready)
  BY DEF NextUse, UseBefore
<1>3. QED BY <1>1, <1>2

\* A use that joins no plan starts one behind all others, so that the plans
\* stay sorted and those of one page apart.
LEMMA StartPlanKeepsInv ==
  ASSUME Inv, NEW u \in todo, StartPlan(u)
  PROVE  Inv'
<1> DEFINE n == Len(plans)
           use == prog.uses[u]
           p == [page      |-> use.page,
                 uses      |-> {u},
                 ready     |-> use.ready,
                 release   |-> use.release,
                 runtime   |-> use.runtime,
                 bytes     |-> prog.bytes[use.page],
                 residency |-> Unassigned]
<1>1. /\ prog \in Programs /\ TypeOK /\ StagesInOrder /\ PlanPart
      /\ stage = "merge" /\ NextUse(u) /\ (\A i \in Indices : ~Joins(u, i))
      /\ plans' = Append(plans, p) /\ todo' = todo \ {u}
      /\ stage' = (IF todo' = {} THEN "assign" ELSE "merge")
      /\ UNCHANGED <<prog, timing, waiting, cursor, packed>>
  BY InvParts DEF StartPlan, Taken
<1>2. /\ u \in DOMAIN prog.uses /\ use.page \in Pages /\ use.ready \in Nat
      /\ use.release \in Nat /\ use.ready \in Cycles /\ use.release \in Cycles
      /\ use.runtime \in BOOLEAN /\ use.ready <= use.release
  BY <1>1, UseFields DEF TypeOK
<1>3. p \in PlanType
  <2>1. prog.bytes[use.page] \in Nat
    BY <1>1, <1>2, ProgramFields DEF TypeOK
  <2>2. QED BY <1>2, <2>1 DEF PlanType
<1>4. timing = << >> /\ waiting = {}
  BY <1>1 DEF StagesInOrder
<1>5. /\ n \in Nat /\ Indices = 1 .. n /\ Indices' = 1 .. (n + 1)
      /\ plans' \in Seq(PlanType) /\ Len(plans') = n + 1
      /\ plans'[n + 1] = p /\ \A i \in Indices : plans'[i] = plans[i]
  BY <1>1, <1>3 DEF TypeOK, Indices
<1> HIDE DEF p, n, use
<1>6. TypeOK'
  <2>1. PlanType' = PlanType /\ Len(timing') <= Len(plans')
    BY <1>1, <1>4, <1>5 DEF PlanType
  <2>2. /\ prog' \in ProgramType /\ stage' \in Stages /\ todo' \subseteq DOMAIN prog'.uses
        /\ timing' \in Seq(TimingType)
        /\ waiting' \subseteq Indices' /\ cursor' \in Nat /\ packed' \in BOOLEAN
    BY <1>1, <1>4 DEF TypeOK, Stages
  <2>3. QED BY ONLY <1>5, <2>1, <2>2 DEF TypeOK
<1>7. StagesInOrder'
  BY <1>1, <1>4 DEF StagesInOrder
<1>8. \A i \in Indices : plans[i].ready <= use.ready
  BY <1>1 DEF PlanPart, PlansSorted, use
<1>9. /\ p.page = use.page /\ p.uses = {u} /\ p.ready = use.ready /\ p.release = use.release
      /\ p.runtime = use.runtime /\ p.residency = Unassigned
  BY DEF p
<1>10. PlansSorted'
  <2>1. \A v \in todo : use.ready <= prog.uses[v].ready
    BY <1>1, NextUseIsFirst DEF use
  <2>2. ASSUME NEW i \in Indices', NEW j \in Indices', i < j
        PROVE  plans'[i].ready <= plans'[j].ready
    <3>1. i \in Indices
      BY <1>5, <2>2
    <3>2. CASE j \in Indices
      BY <1>1, <1>5, <2>2, <3>1, <3>2 DEF PlanPart, PlansSorted
    <3>3. CASE j = n + 1
      BY <1>5, <1>8, <1>9, <3>1, <3>3
    <3>4. QED BY <1>5, <3>2, <3>3
  <2>3. ASSUME NEW i \in Indices', NEW v \in todo'
        PROVE  plans'[i].ready <= prog'.uses[v].ready
    <3>1. v \in todo
      BY <1>1
    <3>2. CASE i \in Indices
      BY <1>1, <1>5, <3>1, <3>2 DEF PlanPart, PlansSorted
    <3>3. CASE i = n + 1
      BY <1>1, <1>5, <1>9, <2>1, <3>1, <3>3
    <3>4. QED BY <1>5, <3>2, <3>3
  <2>4. QED BY <2>2, <2>3 DEF PlansSorted
<1>11. UsesTaken'
  <2>1. SUFFICES ASSUME NEW i \in Indices' PROVE plans'[i].uses \cap todo' = {}
    BY DEF UsesTaken
  <2>2. CASE i \in Indices
    BY <1>1, <1>5, <2>2 DEF PlanPart, UsesTaken
  <2>3. CASE i = n + 1
    BY <1>1, <1>5, <1>9, <2>3
  <2>4. QED BY <1>5, <2>2, <2>3
<1>12. UsesCovered'
  <2>1. SUFFICES ASSUME NEW v \in DOMAIN prog.uses, v \notin todo \/ v = u
                 PROVE  \E i \in Indices' :
                          /\ \A j \in Indices' : v \in plans'[j].uses <=> j = i
                          /\ plans'[i].page = prog.uses[v].page
                          /\ plans'[i].ready <= prog.uses[v].ready
                          /\ prog.uses[v].release <= plans'[i].release
                          /\ prog.uses[v].runtime => plans'[i].runtime
    BY <1>1 DEF UsesCovered
  <2>2. CASE v = u
    <3>1. \A j \in Indices' : u \in plans'[j].uses <=> j = n + 1
      BY <1>1, <1>5, <1>9 DEF PlanPart, UsesTaken
    <3>2. n + 1 \in Indices'
      BY <1>5
    <3>3. QED BY <1>2, <1>5, <1>9, <2>2, <3>1, <3>2 DEF use
  <2>3. CASE v # u
    <3>1. PICK i \in Indices :
              /\ \A j \in Indices : v \in plans[j].uses <=> j = i
              /\ plans[i].page = prog.uses[v].page
              /\ plans[i].ready <= prog.uses[v].ready
              /\ prog.uses[v].release <= plans[i].release
              /\ prog.uses[v].runtime => plans[i].runtime
      BY <1>1, <2>1, <2>3 DEF PlanPart, UsesCovered
    <3>2. i \in Indices' /\ i # n + 1
      BY <1>5
    <3>3. \A j \in Indices' : v \in plans'[j].uses <=> j = i
      BY <1>5, <1>9, <2>3, <3>1, <3>2
    <3>4. QED BY <1>5, <3>1, <3>2, <3>3
  <2>4. QED BY <2>2, <2>3
<1>13. WindowsApart'
  <2>1. SUFFICES ASSUME NEW i \in Indices', NEW j \in Indices', i < j,
                        plans'[i].page = plans'[j].page
                 PROVE  plans'[i].release < plans'[j].ready
    BY DEF WindowsApart
  <2>2. i \in Indices
    BY <1>5, <2>1
  <2>3. CASE j \in Indices
    BY <1>1, <1>5, <2>1, <2>2, <2>3 DEF PlanPart, WindowsApart
  <2>4. CASE j = n + 1
    <3>1. plans[i].page = use.page
      BY <1>5, <1>9, <2>1, <2>2, <2>4
    <3>2. plans[i].release \in Nat /\ plans[i].ready \in Nat
      BY <1>1, <2>2, PlanFields
    <3>3. plans[i].ready <= use.release
      BY <1>2, <1>8, <2>2, <3>2
    <3>4. ~(use.ready <= plans[i].release)
      BY <1>1, <2>2, <3>1, <3>3 DEF Joins, use
    <3>5. plans[i].release < use.ready
      BY <1>2, <3>2, <3>4
    <3>6. QED BY <1>5, <1>9, <2>2, <2>4, <3>5
  <2>5. QED BY <1>5, <2>3, <2>4
<1>14. Open' = Indices'
  BY <1>1, <1>5, <1>9 DEF PlanPart, ResidencyCounted, Open
<1>15. ResidencyCounted'
  BY <1>14 DEF ResidencyCounted
<1>16. ResidencyDisjoint'
  BY <1>14 DEF ResidencyDisjoint, Open
<1>17. TimingPart'
  BY <1>1, <1>4, NoTiming
<1>18. QED
  <2>1. prog' \in Programs
    BY <1>1
  <2>2. QED BY <1>6, <1>7, <1>10, <1>11, <1>12, <1>13, <1>15, <1>16, <1>17, <2>1
            DEF Inv, IInv, TimingPart

\* A use that joins a plan only extends its release: it is not ready before
\* the plan, which was made first.
LEMMA JoinPlanKeepsInv ==
  ASSUME Inv, NEW u \in todo, NEW i \in Indices, JoinPlan(u, i)
  PROVE  Inv'
<1> DEFINE use == prog.uses[u]
           q == Joined(plans[i], u)
<1>1. /\ prog \in Programs /\ TypeOK /\ StagesInOrder /\ PlanPart
      /\ stage = "merge" /\ NextUse(u) /\ Joins(u, i)
      /\ plans' = [plans EXCEPT ![i] = q] /\ todo' = todo \ {u}
      /\ stage' = (IF todo' = {} THEN "assign" ELSE "merge")
      /\ UNCHANGED <<prog, timing, waiting, cursor, packed>>
  BY InvParts DEF JoinPlan, Taken
<1>2. /\ u \in DOMAIN prog.uses /\ use.page \in Pages /\ use.ready \in Nat
      /\ use.release \in Nat /\ use.ready \in Cycles /\ use.release \in Cycles
      /\ use.runtime \in BOOLEAN /\ use.ready <= use.release
  BY <1>1, UseFields DEF TypeOK
<1>3. /\ plans[i] \in PlanType /\ plans[i].ready \in Nat /\ plans[i].release \in Nat
      /\ plans[i].release \in Cycles /\ plans[i].bytes \in Nat
  BY <1>1, PlanFields
<1>4. plans[i].ready <= use.ready
  BY <1>1 DEF PlanPart, PlansSorted
<1>5. /\ Smaller(plans[i].ready, use.ready) = plans[i].ready
      /\ Larger(plans[i].release, use.release) \in Cycles
      /\ Larger(plans[i].release, use.release) \in Nat
      /\ plans[i].release <= Larger(plans[i].release, use.release)
      /\ use.release <= Larger(plans[i].release, use.release)
      /\ Larger(plans[i].release, use.release) \in {plans[i].release, use.release}
  BY <1>2, <1>3, <1>4 DEF Smaller, Larger
<1>6. /\ q \in PlanType
      /\ q.page = plans[i].page /\ q.ready = plans[i].ready
      /\ q.release = Larger(plans[i].release, use.release)
      /\ q.uses = plans[i].uses \cup {u}
      /\ q.runtime = (plans[i].runtime \/ use.runtime)
      /\ q.residency = plans[i].residency
  <2>1. prog.bytes[use.page] \in Nat
    BY <1>1, <1>2, ProgramFields DEF TypeOK
  <2>2. q = [plans[i] EXCEPT !.ready   = plans[i].ready,
                             !.release = Larger(plans[i].release, use.release),
                             !.runtime = plans[i].runtime \/ use.runtime,
                             !.uses    = plans[i].uses \cup {u},
                             !.bytes   = plans[i].bytes + prog.bytes[use.page]]
    BY <1>5 DEF Joined
  <2>3. plans[i].bytes + prog.bytes[use.page] \in Nat
    BY <1>3, <2>1
  <2> HIDE DEF q
  <2>4. QED BY <1>2, <1>3, <1>5, <2>2, <2>3 DEF PlanType
<1>7. timing = << >> /\ waiting = {}
  BY <1>1 DEF StagesInOrder
<1> HIDE DEF q, use
<1>8. /\ Indices' = Indices /\ Len(plans') = Len(plans)
      /\ plans' \in Seq(PlanType)
      /\ plans'[i] = q /\ \A k \in Indices : k # i => plans'[k] = plans[k]
  BY <1>1, <1>6 DEF TypeOK, Indices
<1>9. TypeOK'
  <2>1. PlanType' = PlanType /\ Len(timing') <= Len(plans')
    BY <1>1, <1>7, <1>8 DEF PlanType, TypeOK
  <2>2. /\ prog' \in ProgramType /\ stage' \in Stages /\ todo' \subseteq DOMAIN prog'.uses
        /\ timing' \in Seq(TimingType)
        /\ waiting' \subseteq Indices' /\ cursor' \in Nat /\ packed' \in BOOLEAN
    BY <1>1, <1>7 DEF TypeOK, Stages
  <2>3. QED BY ONLY <1>8, <2>1, <2>2 DEF TypeOK
<1>10. StagesInOrder'
  BY <1>1, <1>7 DEF StagesInOrder
<1>11. \A k \in Indices : plans'[k].ready = plans[k].ready /\ plans'[k].page = plans[k].page
                          /\ plans'[k].residency = plans[k].residency
  BY <1>6, <1>8
<1>12. PlansSorted'
  BY <1>1, <1>8, <1>11 DEF PlanPart, PlansSorted
<1>13. UsesTaken'
  <2>1. SUFFICES ASSUME NEW k \in Indices PROVE plans'[k].uses \cap todo' = {}
    BY <1>8 DEF UsesTaken
  <2>2. plans[k].uses \cap todo = {}
    BY <1>1 DEF PlanPart, UsesTaken
  <2>3. QED BY <1>1, <1>6, <1>8, <2>2
<1>14. UsesCovered'
  <2>1. SUFFICES ASSUME NEW v \in DOMAIN prog.uses, v \notin todo \/ v = u
                 PROVE  \E k \in Indices :
                          /\ \A j \in Indices : v \in plans'[j].uses <=> j = k
                          /\ plans'[k].page = prog.uses[v].page
                          /\ plans'[k].ready <= prog.uses[v].ready
                          /\ prog.uses[v].release <= plans'[k].release
                          /\ prog.uses[v].runtime => plans'[k].runtime
    BY <1>1, <1>8 DEF UsesCovered
  <2>2. CASE v = u
    <3>1. \A j \in Indices : u \in plans'[j].uses <=> j = i
      BY <1>1, <1>6, <1>8 DEF PlanPart, UsesTaken
    <3>2. plans'[i].page = use.page
      BY <1>1, <1>6, <1>8 DEF Joins, use
    <3>3. QED BY <1>4, <1>5, <1>6, <1>8, <2>2, <3>1, <3>2 DEF use
  <2>3. CASE v # u
    <3>1. PICK k \in Indices :
              /\ \A j \in Indices : v \in plans[j].uses <=> j = k
              /\ plans[k].page = prog.uses[v].page
              /\ plans[k].ready <= prog.uses[v].ready
              /\ prog.uses[v].release <= plans[k].release
              /\ prog.uses[v].runtime => plans[k].runtime
      BY <1>1, <2>1, <2>3 DEF PlanPart, UsesCovered
    <3>2. \A j \in Indices : v \in plans'[j].uses <=> j = k
      BY <1>6, <1>8, <2>3, <3>1
    <3>3. prog.uses[v].release \in Nat /\ plans[k].release \in Nat
      BY <1>1, UseFields, PlanFields
    <3>4. prog.uses[v].release <= plans'[k].release
      <4>1. CASE k = i
        BY <1>3, <1>5, <1>6, <1>8, <3>1, <3>3, <4>1
      <4>2. CASE k # i
        BY <1>8, <3>1, <4>2
      <4>3. QED BY <4>1, <4>2
    <3>5. prog.uses[v].runtime => plans'[k].runtime
      BY <1>6, <1>8, <3>1
    <3>6. QED BY <1>11, <3>1, <3>2, <3>4, <3>5
  <2>4. QED BY <2>2, <2>3
<1>15. WindowsApart'
  <2>1. SUFFICES ASSUME NEW k \in Indices, NEW j \in Indices, k < j,
                        plans[k].page = plans[j].page
                 PROVE  plans'[k].release < plans[j].ready
    BY <1>8, <1>11 DEF WindowsApart
  <2>2. plans[k].release < plans[j].ready
    BY <1>1, <2>1 DEF PlanPart, WindowsApart
  <2>3. CASE k # i
    BY <1>8, <2>2, <2>3
  <2>4. CASE k = i
    <3>1. plans[j].ready <= use.ready /\ plans[j].ready \in Nat
      BY <1>1, PlanFields DEF PlanPart, PlansSorted, use
    <3>2. use.ready <= plans[i].release
      BY <1>1 DEF Joins, use
    <3>3. FALSE
      BY <1>2, <1>3, <2>2, <2>4, <3>1, <3>2
    <3>4. QED BY <3>3
  <2>5. QED BY <2>3, <2>4
<1>16. Open' = Indices'
  BY <1>1, <1>8, <1>11 DEF PlanPart, ResidencyCounted, Open
<1>17. ResidencyCounted'
  BY <1>16 DEF ResidencyCounted
<1>18. ResidencyDisjoint'
  BY <1>16 DEF ResidencyDisjoint, Open
<1>19. TimingPart'
  BY <1>1, <1>7, NoTiming
<1>20. QED
  <2>1. prog' \in Programs
    BY <1>1
  <2>2. QED BY <1>9, <1>10, <1>12, <1>13, <1>14, <1>15, <1>17, <1>18, <1>19, <2>1
            DEF Inv, IInv, TimingPart

-----------------------------------------------------------------------------
(* Steps that change neither the uses nor the times of the plans.          *)

SamePlans ==
    /\ UNCHANGED <<prog, todo>>
    /\ Len(plans') = Len(plans)
    /\ \A k \in Indices :
           /\ plans'[k].page = plans[k].page /\ plans'[k].uses = plans[k].uses
           /\ plans'[k].ready = plans[k].ready /\ plans'[k].release = plans[k].release
           /\ plans'[k].runtime = plans[k].runtime

\* Plans of the same pages take the same rows.
LEMMA SamePlansRegions ==
  ASSUME SamePlans
  PROVE  /\ Indices' = Indices
         /\ \A i \in Indices : Regions(i)' = Regions(i) /\ BankOf(i)' = BankOf(i)
         /\ \A i, j \in Indices : Overlap(i, j)' <=> Overlap(i, j)
         /\ \A i \in Indices : Reusers(i)' = Reusers(i)
<1>1. Indices' = Indices
  BY DEF SamePlans, Indices
<1>2. \A i \in Indices : Regions(i)' = Regions(i) /\ BankOf(i)' = BankOf(i)
  BY DEF SamePlans, Regions, RegionsOf, BankOf
<1>3. \A i, j \in Indices : Overlap(i, j)' <=> Overlap(i, j)
  BY <1>2 DEF Overlap
<1>4. ASSUME NEW i \in Indices PROVE Reusers(i)' = Reusers(i)
  <2>1. \A j \in 1 .. (i - 1) : j \in Indices
    BY DEF Indices
  <2>2. QED BY <1>3, <2>1 DEF Reusers
<1>5. QED BY <1>1, <1>2, <1>3, <1>4

\* What is said of uses survives when pages, uses and cycles of the plans do.
LEMMA SamePlansKeepUses ==
  ASSUME SamePlans, PlansSorted, UsesTaken, UsesCovered, WindowsApart
  PROVE  PlansSorted' /\ UsesTaken' /\ UsesCovered' /\ WindowsApart'
<1>1. Indices' = Indices
  BY SamePlansRegions
<1>2. PlansSorted'
  BY <1>1 DEF SamePlans, PlansSorted
<1>3. UsesTaken'
  BY <1>1 DEF SamePlans, UsesTaken
<1>4. WindowsApart'
  BY <1>1 DEF SamePlans, WindowsApart
<1>5. UsesCovered'
  <2>1. SUFFICES ASSUME NEW v \in DOMAIN prog.uses, v \notin todo
                 PROVE  \E k \in Indices :
                          /\ \A j \in Indices : v \in plans'[j].uses <=> j = k
                          /\ plans'[k].page = prog.uses[v].page
                          /\ plans'[k].ready <= prog.uses[v].ready
                          /\ prog.uses[v].release <= plans'[k].release
                          /\ prog.uses[v].runtime => plans'[k].runtime
    BY <1>1 DEF UsesCovered, SamePlans
  <2>2. PICK k \in Indices :
            /\ \A j \in Indices : v \in plans[j].uses <=> j = k
            /\ plans[k].page = prog.uses[v].page
            /\ plans[k].ready <= prog.uses[v].ready
            /\ prog.uses[v].release <= plans[k].release
            /\ prog.uses[v].runtime => plans[k].runtime
    BY <2>1 DEF UsesCovered
  <2>3. QED BY <2>2 DEF SamePlans
<1>6. QED BY <1>2, <1>3, <1>4, <1>5

\* Plans with the same residencies are resident together as before.
LEMMA SameResidencies ==
  ASSUME SamePlans, ResidencyCounted, ResidencyDisjoint,
         stage' = "merge" => stage = "merge",
         \A k \in Indices : plans'[k].residency = plans[k].residency
  PROVE  ResidencyCounted' /\ ResidencyDisjoint'
<1>1. /\ Indices' = Indices
      /\ \A i \in Indices : BankOf(i)' = BankOf(i)
      /\ \A i, j \in Indices : Overlap(i, j)' <=> Overlap(i, j)
  BY SamePlansRegions
<1>2. Open' = Open
  BY <1>1 DEF Open
<1>3. ResidencyCounted'
  BY <1>1, <1>2 DEF ResidencyCounted, Open
<1>4. ResidencyDisjoint'
  BY <1>1 DEF ResidencyDisjoint
<1>5. QED BY <1>3, <1>4

\* Some residency page has room for a plan.
LEMMA RoomExists ==
  ASSUME TypeOK, ResidencyCounted, NEW i \in Indices
  PROVE  /\ Cardinality(Indices \ Open) \in Nat
         /\ Least({r \in 0 .. Len(plans) : HasRoom(i, r)})
                \in {r \in 0 .. Len(plans) : HasRoom(i, r)}
         /\ Least({r \in 0 .. Len(plans) : HasRoom(i, r)})
                <= Cardinality(Indices \ Open)
<1> DEFINE c == Cardinality(Indices \ Open)
           R == {r \in 0 .. Len(plans) : HasRoom(i, r)}
<1>1. Len(plans) \in Nat /\ Indices = 1 .. Len(plans)
  BY DEF TypeOK, Indices
<1>2. IsFiniteSet(Indices) /\ Cardinality(Indices) = Len(plans)
  <2> DEFINE n == Len(plans)
  <2>1. IsFiniteSet(1 .. n) /\ Cardinality(1 .. n) = IF n < 1 THEN 0 ELSE n - 1 + 1
    <3> HIDE DEF n
    <3>1. QED BY <1>1, FS_Interval DEF n
  <2>2. Cardinality(1 .. n) = n
    <3> HIDE DEF n
    <3>1. n \in Nat
      BY <1>1 DEF n
    <3>2. QED BY <2>1, <3>1
  <2>3. QED BY <1>1, <2>1, <2>2
<1>3. IsFiniteSet(Indices \ Open) /\ c <= Cardinality(Indices)
  BY <1>2, FS_Subset
<1>4. c \in Nat
  BY <1>3, FS_CardinalityType
<1> HIDE DEF c
<1>5. \A j \in Indices : plans[j].residency # c
  <2>1. TAKE j \in Indices
  <2>2. CASE j \in Open
    BY <1>4, <2>2 DEF Open, Unassigned
  <2>3. CASE j \notin Open
    <3>1. plans[j].residency < c
      BY <2>3 DEF ResidencyCounted, c
    <3>2. plans[j].residency \in Nat
      BY <2>3, PlanFields DEF Open
    <3>3. QED BY <1>4, <3>1, <3>2
  <2>4. QED BY <2>2, <2>3
<1>6. HasRoom(i, c)
  BY <1>5 DEF HasRoom, Residents
<1>7. c \in R
  BY <1>1, <1>2, <1>3, <1>4, <1>6
<1>8. R \in SUBSET Nat /\ R # {}
  BY <1>1, <1>7
<1> HIDE DEF R
<1>9. Least(R) \in R /\ Least(R) <= c
  BY <1>7, <1>8, LeastNumber
<1>10. QED BY <1>4, <1>7, <1>9 DEF c, R

\* The least residency page with room holds nothing the plan overlaps, and
\* its number is less than the number of plans that are in one by then.
LEMMA AssignResidencyKeepsInv ==
  ASSUME Inv, NEW i \in Indices, AssignResidency(i)
  PROVE  Inv'
<1> DEFINE c == Cardinality(Indices \ Open)
           R == {r \in 0 .. Len(plans) : HasRoom(i, r)}
           room == Least(R)
           q == [plans[i] EXCEPT !.residency = room]
<1>1. /\ prog \in Programs /\ TypeOK /\ StagesInOrder /\ PlanPart
      /\ stage = "assign" /\ i \in Open
      /\ plans' = [plans EXCEPT ![i] = q]
      /\ stage' \in {"order", "assign"}
      /\ UNCHANGED <<prog, todo, timing, waiting, cursor, packed>>
  BY InvParts DEF AssignResidency
<1>2. ResidencyCounted /\ ResidencyDisjoint
  BY <1>1 DEF PlanPart
<1>3. c \in Nat /\ room \in R /\ room <= c /\ room \in Nat
  <2>1. c \in Nat /\ room \in R /\ room <= c
    BY ONLY <1>1, <1>2, RoomExists, i \in Indices
  <2>2. Len(plans) \in Nat /\ R \subseteq 0 .. Len(plans)
    BY <1>1 DEF TypeOK
  <2> HIDE DEF room, R
  <2>3. QED BY <2>1, <2>2
<1>4. HasRoom(i, room)
  BY <1>3
<1>5. /\ q \in PlanType /\ q.page = plans[i].page /\ q.uses = plans[i].uses
      /\ q.ready = plans[i].ready /\ q.release = plans[i].release
      /\ q.runtime = plans[i].runtime /\ q.residency = room
  <2>1. plans[i] \in PlanType
    BY <1>1, PlanFields
  <2> HIDE DEF room
  <2>2. QED BY <1>3, <2>1 DEF PlanType
<1>6. timing = << >> /\ waiting = {}
  BY <1>1 DEF StagesInOrder
<1> HIDE DEF q, room, c
<1>7. /\ Indices' = Indices /\ Len(plans') = Len(plans)
      /\ plans' \in Seq(PlanType)
      /\ plans'[i] = q /\ \A k \in Indices : k # i => plans'[k] = plans[k]
  BY <1>1, <1>5 DEF TypeOK, Indices
<1>8. TypeOK'
  <2>1. PlanType' = PlanType /\ Len(timing') <= Len(plans')
    BY <1>1, <1>6, <1>7 DEF PlanType, TypeOK
  <2>2. /\ prog' \in ProgramType /\ stage' \in Stages /\ todo' \subseteq DOMAIN prog'.uses
        /\ timing' \in Seq(TimingType)
        /\ waiting' \subseteq Indices' /\ cursor' \in Nat /\ packed' \in BOOLEAN
    BY <1>1, <1>6 DEF TypeOK, Stages
  <2>3. QED BY ONLY <1>7, <2>1, <2>2 DEF TypeOK
<1>9. StagesInOrder'
  BY <1>1, <1>6 DEF StagesInOrder
<1>10. SamePlans
  BY <1>1, <1>5, <1>7 DEF SamePlans
<1>11. PlansSorted' /\ UsesTaken' /\ UsesCovered' /\ WindowsApart'
  BY <1>1, <1>10, SamePlansKeepUses DEF PlanPart
<1>12. room # Unassigned
  BY <1>3 DEF Unassigned
<1>13. Indices' \ Open' = (Indices \ Open) \cup {i} /\ i \notin Indices \ Open
  BY <1>1, <1>5, <1>7, <1>12 DEF Open
<1>14. ResidencyCounted'
  <2>1. IsFiniteSet(Indices \ Open)
    <3>1. Indices = 1 .. Len(plans) /\ Len(plans) \in Nat
      BY <1>1 DEF TypeOK, Indices
    <3>2. IsFiniteSet(Indices)
      BY <3>1, FS_Interval
    <3>3. QED BY <3>2, FS_Subset
  <2>2. Cardinality(Indices' \ Open') = c + 1
    BY <1>13, <2>1, FS_AddElement DEF c
  <2>3. ASSUME NEW k \in Indices' \ Open' PROVE plans'[k].residency < c + 1
    <3>1. CASE k = i
      BY <1>3, <1>5, <1>7, <3>1
    <3>2. CASE k # i
      <4>1. k \in Indices \ Open
        BY <1>13, <2>3, <3>2
      <4>2. plans[k].residency < c /\ plans[k].residency \in Nat
        BY <1>1, <1>2, <4>1, PlanFields DEF ResidencyCounted, c, Open
      <4>3. QED BY <1>3, <1>7, <3>2, <4>1, <4>2
    <3>3. QED BY <3>1, <3>2
  <2>4. QED BY <1>1, <2>2, <2>3 DEF ResidencyCounted
<1>15. ResidencyDisjoint'
  <2>1. /\ \A k \in Indices : BankOf(k)' = BankOf(k)
        /\ \A k, j \in Indices : Overlap(k, j)' <=> Overlap(k, j)
    BY <1>10, SamePlansRegions
  <2>2. SUFFICES ASSUME NEW k \in Indices, NEW j \in Indices,
                        k # j, BankOf(k) = BankOf(j),
                        plans'[k].residency = plans'[j].residency,
                        plans'[k].residency # Unassigned
                 PROVE  ~Overlap(k, j)
    BY <1>7, <2>1 DEF ResidencyDisjoint
  <2>3. CASE k # i /\ j # i
    BY <1>2, <1>7, <2>2, <2>3 DEF ResidencyDisjoint
  <2>4. CASE k = i
    <3>1. j \in Residents(BankOf(i), room)
      BY <1>5, <1>7, <2>2, <2>4 DEF Residents
    <3>2. QED BY <1>4, <2>4, <3>1 DEF HasRoom
  <2>5. CASE j = i
    <3>1. k \in Residents(BankOf(i), room)
      BY <1>5, <1>7, <2>2, <2>5 DEF Residents
    <3>2. ~Overlap(i, k)
      BY <1>4, <3>1 DEF HasRoom
    <3>3. QED BY <2>5, <3>2 DEF Overlap
  <2>6. QED BY <2>3, <2>4, <2>5
<1>16. TimingPart'
  BY <1>1, <1>6, NoTiming
<1>17. QED
  <2>1. prog' \in Programs
    BY <1>1
  <2>2. QED BY <1>8, <1>9, <1>11, <1>14, <1>15, <1>16, <2>1 DEF Inv, IInv, TimingPart

-----------------------------------------------------------------------------
(* Timing.                                                                 *)

\* The stable sort finds the plans in order and leaves them there.
LEMMA ArrangeKeepsPlans ==
  ASSUME TypeOK, PlansSorted, Arrange
  PROVE  plans' = plans
<1>1. PICK place \in SortedIndices : plans' = [i \in Indices |-> plans[place[i]]]
  BY DEF Arrange
<1>2. /\ place \in [Indices -> Indices]
      /\ \A i, j \in Indices : i < j => StablyBefore(place[i], place[j])
  BY DEF SortedIndices
<1>3. \A a, b \in Indices : StablyBefore(a, b) => a < b
  <2>1. SUFFICES ASSUME NEW a \in Indices, NEW b \in Indices, StablyBefore(a, b), ~(a < b)
                 PROVE  FALSE
    OBVIOUS
  <2>2. a \in Nat /\ b \in Nat /\ plans[a].ready \in Nat /\ plans[b].ready \in Nat
    BY PlanFields DEF Indices
  <2>3. plans[a].ready < plans[b].ready
    BY <2>1 DEF StablyBefore
  <2>4. CASE a = b
    BY <2>2, <2>3, <2>4
  <2>5. CASE b < a
    <3>1. plans[b].ready <= plans[a].ready
      BY <2>5 DEF PlansSorted
    <3>2. QED BY <2>2, <2>3, <3>1
  <2>6. QED BY <2>1, <2>2, <2>4, <2>5
<1>4. Len(plans) \in Nat /\ Indices = 1 .. Len(plans) /\ plans \in Seq(PlanType)
  BY DEF TypeOK, Indices
<1>5. \A i, j \in Indices : i < j => place[i] < place[j]
  BY <1>2, <1>3
<1>6. \A i \in Indices : place[i] = i
  <2> DEFINE n == Len(plans)
  <2>1. /\ n \in Nat /\ place \in [1 .. n -> 1 .. n]
        /\ \A i, j \in 1 .. n : i < j => place[i] < place[j]
    BY <1>2, <1>4, <1>5
  <2> HIDE DEF n
  <2>2. \A i \in 1 .. n : place[i] = i
    BY <2>1, IncreasingIsIdentity
  <2>3. QED BY <1>4, <2>2 DEF n
<1>7. plans' = [i \in Indices |-> plans[i]]
  BY <1>1, <1>6
<1>8. plans = [i \in 1 .. Len(plans) |-> plans[i]]
  BY <1>4
<1>9. QED BY <1>4, <1>7, <1>8

\* Steps that leave the plans alone.
LEMMA UnchangedPlanPart ==
  ASSUME PlanPart, UNCHANGED <<prog, todo, plans>>, stage' = "merge" => stage = "merge"
  PROVE  PlanPart'
<1>1. SamePlans
  BY DEF SamePlans
<1>2. PlansSorted' /\ UsesTaken' /\ UsesCovered' /\ WindowsApart'
  BY <1>1, SamePlansKeepUses DEF PlanPart
<1>3. ResidencyCounted' /\ ResidencyDisjoint'
  <2>1. \A k \in Indices : plans'[k].residency = plans[k].residency
    OBVIOUS
  <2>2. QED BY <1>1, <2>1, SameResidencies DEF PlanPart
<1>4. QED BY <1>2, <1>3 DEF PlanPart

\* The sort changes no plan and forgets the timing.
LEMMA ArrangeKeepsInv ==
  ASSUME Inv, Arrange
  PROVE  Inv'
<1>1. /\ prog \in Programs /\ TypeOK /\ StagesInOrder /\ PlanPart
      /\ stage = "order" /\ stage' = "reuse" /\ timing' = << >> /\ cursor' = 0
      /\ UNCHANGED <<prog, todo, waiting, packed>>
  BY InvParts DEF Arrange
<1>2. plans' = plans
  BY <1>1, ArrangeKeepsPlans DEF PlanPart
<1>3. waiting = {} /\ todo = {}
  BY <1>1 DEF StagesInOrder
<1>4. TypeOK'
  <2>1. PlanType' = PlanType /\ Len(timing') <= Len(plans')
    BY <1>1, <1>2 DEF PlanType, TypeOK
  <2>2. /\ prog' \in ProgramType /\ stage' \in Stages /\ todo' \subseteq DOMAIN prog'.uses
        /\ plans' \in Seq(PlanType) /\ timing' \in Seq(TimingType)
        /\ waiting' \subseteq Indices' /\ cursor' \in Nat /\ packed' \in BOOLEAN
    BY <1>1, <1>2, <1>3 DEF TypeOK, Stages
  <2>3. QED BY ONLY <2>1, <2>2 DEF TypeOK
<1>5. StagesInOrder'
  BY <1>1, <1>3 DEF StagesInOrder
<1>6. PlanPart'
  BY <1>1, <1>2, UnchangedPlanPart
<1>7. TimingPart'
  BY <1>1, NoTiming
<1>8. QED
  <2>1. prog' \in Programs
    BY <1>1
  <2>2. QED BY <1>4, <1>5, <1>6, <1>7, <2>1 DEF Inv, IInv, PlanPart, TimingPart

\* The cycle decided for a plan is behind every earlier use of its rows.
LEMMA DecideReuseKeepsInv ==
  ASSUME Inv, NEW i \in Indices, DecideReuse(i)
  PROVE  Inv'
<1> DEFINE n == Len(timing)
           t == [pre      |-> CanPreload(i),
                 reusable |-> Reusable(i),
                 start    |-> 0,
                 end      |-> IF CanPreload(i) THEN Duration(plans[i].bytes, Lanes) ELSE 0,
                 arm      |-> 0,
                 streams  |-> {}]
<1>1. /\ prog \in Programs /\ TypeOK /\ StagesInOrder /\ PlanPart /\ TimingPart
      /\ stage = "reuse" /\ i = n + 1
      /\ timing' = Append(timing, t)
      /\ waiting' = {j \in Indices : i = Len(plans) /\ ~timing'[j].pre}
      /\ stage' = (IF i < Len(plans) THEN "reuse"
                   ELSE IF waiting' = {} THEN "done" ELSE "launch")
      /\ UNCHANGED <<prog, todo, plans, cursor, packed>>
  BY InvParts DEF DecideReuse
<1>2. t \in TimingType
  <2>1. Reusable(i) \in Cycles /\ plans[i].bytes \in Nat
    BY <1>1, ReusableBounds, PlanFields
  <2>2. Lanes \in Nat \ {0}
    BY NumbersAssumption
  <2>3. Duration(plans[i].bytes, Lanes) \in Nat
    BY <2>1, <2>2, DurationType
  <2>4. CanPreload(i) \in BOOLEAN
    <3>1. PreloadPrefix \in BOOLEAN /\ plans[i].runtime \in BOOLEAN
      BY <1>1, PlanFields DEF PreloadPrefix
    <3>2. QED BY <3>1 DEF CanPreload
  <2> HIDE DEF CanPreload, Reusable, Duration
  <2>5. QED BY <2>1, <2>3, <2>4 DEF TimingType
<1>3. CanPreload(i) => Reusers(i) = {}
  BY DEF CanPreload
<1>4. t.pre = CanPreload(i) /\ t.reusable = Reusable(i)
  OBVIOUS
<1> HIDE DEF t, n
<1>5. /\ n \in Nat /\ n + 1 <= Len(plans) /\ Len(plans) \in Nat
      /\ timing \in Seq(TimingType) /\ timing' \in Seq(TimingType)
      /\ DOMAIN timing = 1 .. n /\ DOMAIN timing' = 1 .. (n + 1)
      /\ Len(timing') = n + 1
      /\ timing'[n + 1] = t /\ \A j \in 1 .. n : timing'[j] = timing[j]
  BY <1>1, <1>2 DEF TypeOK, Indices, n
<1>6. Indices = 1 .. Len(plans) /\ Indices' = Indices
  BY <1>1 DEF Indices
<1>7. stage' \in {"reuse", "done", "launch"} /\ (stage' # "reuse" => i = Len(plans))
  BY <1>1, <1>5
<1>8. TypeOK'
  <2>1. PlanType' = PlanType
    BY <1>1 DEF PlanType
  <2>2. /\ prog' \in ProgramType /\ todo' \subseteq DOMAIN prog'.uses
        /\ plans' \in Seq(PlanType) /\ Len(timing') <= Len(plans')
        /\ cursor' \in Nat /\ packed' \in BOOLEAN
    BY <1>1, <1>5 DEF TypeOK
  <2>3. stage' \in Stages
    BY <1>7 DEF Stages
  <2>4. waiting' \subseteq Indices'
    BY <1>1, <1>6
  <2>5. QED BY ONLY <1>5, <2>1, <2>2, <2>3, <2>4 DEF TypeOK
<1>9. StagesInOrder'
  <2>1. stage' \in {"launch", "done", "rejected"} => Len(timing') = Len(plans')
    BY <1>1, <1>5, <1>7
  <2>2. stage' \notin {"launch", "rejected"} => waiting' = {}
    <3>1. CASE i < Len(plans)
      BY <1>1, <1>5, <3>1
    <3>2. CASE ~(i < Len(plans))
      BY <1>1, <3>2
    <3>3. QED BY <3>1, <3>2
  <2>3. todo' = {}
    BY <1>1 DEF StagesInOrder
  <2>4. \A j \in waiting' : j \in DOMAIN timing' /\ ~timing'[j].pre
    BY <1>1, <1>5, <1>6
  <2>5. QED BY <1>7, <2>1, <2>2, <2>3, <2>4 DEF StagesInOrder
<1>10. PlanPart'
  BY <1>1, <1>7, UnchangedPlanPart
<1>11. Launched' = {}
  <2>1. CASE stage' = "reuse"
    BY <2>1 DEF Launched
  <2>2. CASE stage' # "reuse"
    <3>1. \A j \in DOMAIN timing' : ~timing'[j].pre => j \in waiting'
      BY <1>1, <1>5, <1>6, <1>7, <2>2
    <3>2. QED BY <3>1 DEF Launched
  <2>3. QED BY <2>1, <2>2
<1>12. ReusableKnown'
  <2>1. SamePlans
    BY <1>1 DEF SamePlans
  <2>2. SUFFICES ASSUME NEW j \in DOMAIN timing'
                 PROVE  /\ \A k \in Reusers(j) :
                              ~timing'[j].pre /\ plans[k].release <= timing'[j].reusable
                        /\ (\A k \in Reusers(j) : plans[k].release <= plans[j].ready)
                               => timing'[j].reusable <= plans[j].ready
    <3>1. \A j \in DOMAIN timing' : j \in Indices
      BY <1>5, <1>6
    <3>2. \A j \in DOMAIN timing' : Reusers(j)' = Reusers(j)
      BY <2>1, <3>1, SamePlansRegions
    <3>3. QED BY <1>1, <2>2, <3>2 DEF ReusableKnown
  <2>3. CASE j \in 1 .. n
    BY <1>1, <1>5, <2>3 DEF TimingPart, ReusableKnown
  <2>4. CASE j = n + 1
    <3>1. timing'[j].pre = CanPreload(i) /\ timing'[j].reusable = Reusable(i) /\ j = i
      BY <1>1, <1>4, <1>5, <2>4
    <3>2. QED BY <1>1, <1>3, <3>1, ReusableBounds
  <2>5. QED BY <1>5, <2>3, <2>4
<1>13. TimingPart'
  <2>1. LaunchesInOrder' /\ OneTransport' /\ ArmedInTime'
    BY <1>11 DEF LaunchesInOrder, OneTransport, ArmedInTime
  <2>2. StreamsFound'
    BY <1>7, <1>11 DEF StreamsFound
  <2>3. QED BY <1>12, <2>1, <2>2 DEF TimingPart
<1>14. QED
  <2>1. prog' \in Programs
    BY <1>1
  <2>2. QED BY <1>8, <1>9, <1>10, <1>13, <2>1 DEF Inv, IInv, PlanPart, TimingPart

-----------------------------------------------------------------------------
(* Launches.                                                               *)

\* The plan in front of launchOrder has a timing, and all others that wait
\* are behind it.
LEMMA NextLaunchFacts ==
  ASSUME TypeOK, StagesInOrder, NEW i, NextLaunch(i)
  PROVE  /\ stage = "launch" /\ Len(timing) = Len(plans)
         /\ i \in waiting /\ i \in DOMAIN timing /\ i \in Indices /\ i \in Nat
         /\ ~timing[i].pre
         /\ \A j \in waiting : j \in Nat /\ i <= j
<1>1. stage = "launch" /\ waiting # {} /\ i = Least(waiting)
  BY DEF NextLaunch
<1>2. waiting \in SUBSET Nat /\ waiting \subseteq Indices
  BY DEF TypeOK, Indices
<1>3. i \in waiting /\ \A j \in waiting : i <= j
  BY <1>1, <1>2, LeastNumber
<1>4. QED BY <1>1, <1>2, <1>3 DEF StagesInOrder

\* A launch no sooner than the earliest cycle, on idle streams, keeps the
\* invariant.
LEMMA ScheduledKeepsInv ==
  ASSUME Inv, NEW i, NextLaunch(i), WindowValid(i),
         NEW start \in Nat, Earliest(i) <= start,
         NEW streams \in SUBSET StreamIds, Cardinality(streams) \in 1 .. Lanes,
         ChoosesStreams(i) => \A s \in streams : prog.streams[s] <= start,
         Scheduled(i, start, streams)
  PROVE  Inv'
<1> DEFINE end == start + Duration(plans[i].bytes, Cardinality(streams))
           t == [timing[i] EXCEPT !.start = start, !.end = end,
                                  !.arm = ArmCycle(i), !.streams = streams]
<1>1. /\ prog \in Programs /\ TypeOK /\ StagesInOrder /\ PlanPart /\ TimingPart
      /\ timing' = [timing EXCEPT ![i] = t]
      /\ cursor' = (IF prog.common THEN cursor ELSE end)
      /\ waiting' = waiting \ {i}
      /\ stage' = (IF waiting' = {} THEN "done" ELSE "launch")
      /\ UNCHANGED <<prog, todo, plans, packed>>
  BY InvParts DEF Scheduled
<1>2. /\ stage = "launch" /\ Len(timing) = Len(plans)
      /\ i \in waiting /\ i \in DOMAIN timing /\ i \in Indices /\ i \in Nat
      /\ ~timing[i].pre
      /\ \A j \in waiting : j \in Nat /\ i <= j
  BY <1>1, NextLaunchFacts
<1>3. end \in Nat /\ start <= end
  <2>1. plans[i].bytes \in Nat
    BY <1>1, <1>2, PlanFields
  <2>2. Cardinality(streams) \in Nat \ {0}
    BY NumbersAssumption
  <2>3. Duration(plans[i].bytes, Cardinality(streams)) \in Nat
    BY <2>1, <2>2, DurationType
  <2>4. QED BY <2>3
<1>4. /\ Earliest(i) \in Nat /\ ArmCycle(i) \in Nat
      /\ timing[i].reusable <= ArmCycle(i)
      /\ ArmCycle(i) <= Earliest(i)
      /\ timing[i].reusable <= Earliest(i)
      /\ cursor <= Earliest(i)
      /\ timing[i].reusable <= plans[i].ready => ArmCycle(i) <= plans[i].ready
  BY <1>1, <1>2, LaunchBounds
<1>5. timing[i].reusable \in Nat /\ cursor \in Nat /\ timing[i] \in TimingType
  BY <1>1, <1>2, TimingFields DEF TypeOK
<1>6. /\ t \in TimingType /\ t.pre = timing[i].pre /\ t.reusable = timing[i].reusable
      /\ t.start = start /\ t.end = end /\ t.arm = ArmCycle(i) /\ t.streams = streams
  <2> HIDE DEF end
  <2>1. QED BY <1>3, <1>4, <1>5 DEF TimingType
<1> HIDE DEF t, end
<1>7. /\ DOMAIN timing' = DOMAIN timing /\ Len(timing') = Len(timing)
      /\ timing' \in Seq(TimingType)
      /\ timing'[i] = t /\ \A j \in DOMAIN timing : j # i => timing'[j] = timing[j]
  BY <1>1, <1>2, <1>6 DEF TypeOK
<1>8. \A j \in DOMAIN timing : timing'[j].pre = timing[j].pre
                             /\ timing'[j].reusable = timing[j].reusable
  BY <1>6, <1>7
<1>9. stage' \in {"done", "launch"} /\ (stage' = "done" => waiting' = {})
  BY <1>1
<1>10. cursor' \in Nat /\ cursor <= cursor' /\ (~prog.common => cursor' = end)
  BY <1>1, <1>3, <1>4, <1>5
<1>11. TypeOK'
  <2>1. PlanType' = PlanType /\ Indices' = Indices
    BY <1>1 DEF PlanType, Indices
  <2>2. /\ prog' \in ProgramType /\ todo' \subseteq DOMAIN prog'.uses
        /\ plans' \in Seq(PlanType) /\ packed' \in BOOLEAN
        /\ waiting' \subseteq Indices'
    BY <1>1, <2>1 DEF TypeOK
  <2>3. stage' \in Stages
    BY <1>9 DEF Stages
  <2>4. Len(timing') <= Len(plans')
    BY <1>1, <1>7 DEF TypeOK
  <2>5. QED BY ONLY <1>7, <1>10, <2>1, <2>2, <2>3, <2>4 DEF TypeOK
<1>12. StagesInOrder'
  <2>1. Len(timing') = Len(plans') /\ todo' = {}
    BY <1>1, <1>2, <1>7 DEF StagesInOrder
  <2>2. \A j \in waiting' : j \in DOMAIN timing' /\ ~timing'[j].pre
    BY <1>1, <1>7, <1>8 DEF StagesInOrder
  <2>3. QED BY <1>9, <2>1, <2>2 DEF StagesInOrder
<1>13. PlanPart'
  BY <1>1, <1>9, UnchangedPlanPart
<1>14. Launched' = Launched \cup {i} /\ i \notin Launched /\ Launched \subseteq DOMAIN timing
  BY <1>1, <1>2, <1>7, <1>8, <1>9 DEF Launched
<1>15. Indices' = Indices /\ \A j \in Indices : Reusers(j)' = Reusers(j)
  <2>1. SamePlans
    BY <1>1 DEF SamePlans
  <2>2. QED BY <2>1, SamePlansRegions
<1>16. \A j \in DOMAIN timing : j \in Indices /\ j \in Nat
  BY <1>1, TimingFields DEF Indices
<1>17. ReusableKnown'
  BY <1>1, <1>7, <1>8, <1>15, <1>16 DEF TimingPart, ReusableKnown
<1>18. LaunchesInOrder'
  <2>1. SUFFICES ASSUME NEW j \in Launched'
                 PROVE  /\ timing'[j].reusable <= timing'[j].arm
                        /\ timing'[j].reusable <= timing'[j].start
                        /\ ~prog.common => timing'[j].end <= cursor'
                        /\ \A k \in waiting' : j < k
    BY <1>1 DEF LaunchesInOrder
  <2>2. CASE j = i
    <3>1. \A k \in waiting' : i < k
      BY <1>1, <1>2
    <3>2. timing[i].reusable <= start
      BY <1>4, <1>5
    <3>3. ~prog.common => end <= cursor'
      BY <1>3, <1>10
    <3>4. QED BY <1>4, <1>6, <1>7, <2>2, <3>1, <3>2, <3>3
  <2>3. CASE j # i
    <3>1. j \in Launched /\ timing'[j] = timing[j] /\ timing[j].end \in Nat
      BY <1>1, <1>7, <1>14, <2>3, TimingFields
    <3>2. ~prog.common => timing[j].end <= cursor
      BY <1>1, <3>1 DEF TimingPart, LaunchesInOrder
    <3>3. ~prog.common => timing[j].end <= cursor'
      BY <1>5, <1>10, <3>1, <3>2
    <3>4. QED BY <1>1, <3>1, <3>3 DEF TimingPart, LaunchesInOrder
  <2>4. QED BY <2>2, <2>3
<1>19. OneTransport'
  <2>1. SUFFICES ASSUME NEW j \in Launched', NEW k \in Launched', ~prog.common, j < k
                 PROVE  timing'[j].end <= timing'[k].start
    BY <1>1 DEF OneTransport
  <2>2. CASE j # i /\ k # i
    BY <1>1, <1>7, <1>14, <2>1, <2>2 DEF TimingPart, OneTransport
  <2>3. CASE k = i
    <3>1. j \in Launched /\ timing'[j] = timing[j] /\ timing[j].end \in Nat
      BY <1>1, <1>2, <1>7, <1>14, <2>1, <2>3, TimingFields
    <3>2. timing[j].end <= cursor
      BY <1>1, <2>1, <3>1 DEF TimingPart, LaunchesInOrder
    <3>3. timing[j].end <= start
      BY <1>4, <1>5, <3>1, <3>2
    <3>4. QED BY <1>6, <1>7, <2>3, <3>1, <3>3
  <2>4. CASE j = i /\ k # i
    <3>1. k \in Launched /\ k \in Nat
      BY <1>14, <1>16, <2>4
    <3>2. k < i
      BY <1>1, <1>2, <3>1 DEF TimingPart, LaunchesInOrder
    <3>3. FALSE
      BY <1>2, <2>1, <2>4, <3>1, <3>2
    <3>4. QED BY <3>3
  <2>5. QED BY <2>2, <2>3, <2>4
<1>20. ArmedInTime'
  <2>1. SUFFICES ASSUME NEW j \in Launched'
                 PROVE  /\ timing'[j].arm <= timing'[j].start
                        /\ (\A k \in Reusers(j) : plans[k].release <= plans[j].ready)
                               => timing'[j].arm <= plans[j].ready
    BY <1>1, <1>2, <1>14, <1>15, <1>16 DEF ArmedInTime
  <2>2. CASE j = i
    <3>1. ArmCycle(i) <= start
      BY <1>4
    <3>2. (\A k \in Reusers(i) : plans[k].release <= plans[i].ready)
              => timing[i].reusable <= plans[i].ready
      BY <1>1, <1>2 DEF TimingPart, ReusableKnown
    <3>3. QED BY <1>4, <1>6, <1>7, <2>2, <3>1, <3>2
  <2>3. CASE j # i
    BY <1>1, <1>7, <1>14, <2>1, <2>3 DEF TimingPart, ArmedInTime
  <2>4. QED BY <2>2, <2>3
<1>21. StreamsFound'
  <2>1. \A j \in DOMAIN timing : ChoosesStreams(j)' <=> ChoosesStreams(j)
    BY <1>1 DEF ChoosesStreams, HasWindow
  <2>2. ASSUME NEW j \in Launched'
        PROVE  /\ Cardinality(timing'[j].streams) \in 1 .. Lanes
               /\ ChoosesStreams(j) =>
                      \A s \in timing'[j].streams : prog.streams[s] <= timing'[j].start
    <3>1. CASE j = i
      BY <1>6, <1>7, <3>1
    <3>2. CASE j # i
      BY <1>1, <1>7, <1>14, <2>2, <3>2 DEF TimingPart, StreamsFound
    <3>3. QED BY <3>1, <3>2
  <2>3. QED BY <1>1, <1>2, <1>9, <1>14, <2>1, <2>2 DEF StreamsFound
<1>22. QED
  <2>1. prog' \in Programs
    BY <1>1
  <2>2. QED BY <1>11, <1>12, <1>13, <1>17, <1>18, <1>19, <1>20, <1>21, <2>1
            DEF Inv, IInv, PlanPart

\* A launch on the reserved streams is such a launch.
LEMMA LaunchReservedKeepsInv ==
  ASSUME Inv, NEW i, LaunchReserved(i)
  PROVE  Inv'
<1>1. /\ TypeOK /\ StagesInOrder /\ NextLaunch(i) /\ WindowValid(i) /\ ~ChoosesStreams(i)
      /\ Scheduled(i, Earliest(i), ReservedStreams)
  BY InvParts DEF LaunchReserved
<1>2. Earliest(i) \in Nat /\ Earliest(i) <= Earliest(i)
  BY <1>1, NextLaunchFacts, LaunchBounds
<1>3. ReservedStreams \in SUBSET StreamIds /\ Cardinality(ReservedStreams) \in 1 .. Lanes
  <2> DEFINE a == StreamCount - Lanes
             b == StreamCount - 1
  <2>1. a \in Int /\ b \in Int /\ a >= 0 /\ a <= b /\ b - a + 1 = Lanes /\ Lanes \in 1 .. Lanes
    BY NumbersAssumption
  <2>2. ReservedStreams = a .. b /\ StreamIds = 0 .. b
    BY DEF ReservedStreams, StreamIds
  <2> HIDE DEF a, b
  <2>3. Cardinality(a .. b) = IF a > b THEN 0 ELSE b - a + 1
    BY <2>1, FS_Interval
  <2>4. Cardinality(a .. b) = Lanes
    BY <2>1, <2>3
  <2>5. a .. b \subseteq 0 .. b
    BY <2>1
  <2>6. QED BY <2>1, <2>2, <2>4, <2>5
<1>4. QED BY <1>1, <1>2, <1>3, ScheduledKeepsInv

\* So is a launch on the preferred set of idle streams.
LEMMA LaunchOnIdleKeepsInv ==
  ASSUME Inv, NEW i, LaunchOnIdle(i)
  PROVE  Inv'
<1>1. TypeOK /\ StagesInOrder /\ NextLaunch(i) /\ ChoosesStreams(i)
  BY InvParts DEF LaunchOnIdle
<1>2. PICK c \in Candidates(i) : Scheduled(i, c, LanesAt(c))
  BY DEF LaunchOnIdle
<1>3. WindowValid(i)
  BY <1>1 DEF ChoosesStreams, WindowValid, Windowed
<1>4. Earliest(i) \in Nat
  BY <1>1, NextLaunchFacts, LaunchBounds
<1>5. \A s \in StreamIds : prog.streams[s] \in Nat
  <2>1. Cycles \subseteq Nat /\ prog \in ProgramType /\ DOMAIN prog.streams # {}
    BY <1>1, NumbersAssumption DEF Cycles, TypeOK, ChoosesStreams
  <2>2. QED BY <2>1, StreamFields
<1>6. c \in Nat /\ Earliest(i) <= c /\ IdleAt(c) # {}
  BY <1>4, <1>5 DEF Candidates
<1>7. LanesAt(c) \in SUBSET StreamIds /\ Cardinality(LanesAt(c)) \in 1 .. Lanes
  BY <1>6, LanesCount
<1>8. \A s \in LanesAt(c) : prog.streams[s] <= c
  BY <1>6, LanesCount DEF IdleAt
<1>9. QED BY <1>1, <1>2, <1>3, <1>6, <1>7, <1>8, ScheduledKeepsInv

\* Only an invalid window rejects a program.
LEMMA RejectKeepsInv ==
  ASSUME Inv, NEW i, Reject(i)
  PROVE  Inv'
<1>1. /\ prog \in Programs /\ TypeOK /\ StagesInOrder /\ PlanPart /\ TimingPart
      /\ NextLaunch(i) /\ Rejected(i) /\ stage' = "rejected"
      /\ UNCHANGED <<prog, todo, plans, timing, waiting, cursor, packed>>
  BY InvParts DEF Reject
<1>2. stage = "launch" /\ i \in DOMAIN timing /\ Len(timing) = Len(plans)
  BY <1>1, NextLaunchFacts
<1>3. ~WindowValid(i)
  BY <1>1, <1>2, CandidateExists DEF Rejected
<1>4. TypeOK'
  <2>1. PlanType' = PlanType /\ Indices' = Indices
    BY <1>1 DEF PlanType, Indices
  <2>2. QED BY <1>1, <2>1 DEF TypeOK, Stages
<1>5. StagesInOrder'
  BY <1>1, <1>2 DEF StagesInOrder
<1>6. PlanPart'
  BY <1>1, UnchangedPlanPart
<1>7. Launched' = Launched
  BY <1>1, <1>2 DEF Launched
<1>8. \A j \in DOMAIN timing : Reusers(j)' = Reusers(j)
  <2>1. SamePlans
    BY <1>1 DEF SamePlans
  <2>2. QED BY <1>1, <2>1, SamePlansRegions, TimingFields
<1>9. ReusableKnown' /\ LaunchesInOrder' /\ OneTransport' /\ ArmedInTime'
  <2>1. Launched \subseteq DOMAIN timing
    BY DEF Launched
  <2>2. QED BY <1>1, <1>7, <1>8, <2>1
            DEF TimingPart, ReusableKnown, LaunchesInOrder, OneTransport, ArmedInTime
<1>10. StreamsFound'
  <2>1. \A j \in DOMAIN timing : ChoosesStreams(j)' <=> ChoosesStreams(j)
    BY <1>1 DEF ChoosesStreams, HasWindow
  <2>2. WindowValid(i)' <=> WindowValid(i)
    BY <1>1 DEF WindowValid, IngressEnd, Windowed, HasWindow, WindowBegin, WindowEnd
  <2>3. Least(waiting') = i
    BY <1>1 DEF NextLaunch
  <2>4. ~WindowValid(Least(waiting))'
    <3>1. Least(waiting) = i /\ waiting' = waiting
      BY <1>1 DEF NextLaunch
    <3>2. WindowValid(Least(waiting))' <=> WindowValid(Least(waiting))
      BY <1>1, <3>1 DEF WindowValid, IngressEnd, Windowed, HasWindow, WindowBegin, WindowEnd
    <3>3. QED BY <1>3, <3>1, <3>2
  <2>5. Launched \subseteq DOMAIN timing
    BY DEF Launched
  <2>6. QED BY <1>1, <1>7, <2>1, <2>4, <2>5 DEF TimingPart, StreamsFound
<1>11. QED
  <2>1. prog' \in Programs
    BY <1>1
  <2>2. QED BY <1>4, <1>5, <1>6, <1>9, <1>10, <2>1 DEF Inv, IInv, PlanPart

\* Other sizes change nothing the invariant says of plans.
LEMMA RepackKeepsInv ==
  ASSUME Inv, Repack
  PROVE  Inv'
<1>1. /\ prog \in Programs /\ TypeOK /\ StagesInOrder /\ PlanPart /\ TimingPart
      /\ stage = "done" /\ packed' = TRUE /\ stage' = "order"
      /\ UNCHANGED <<prog, todo, timing, waiting, cursor>>
  BY InvParts DEF Repack
<1>2. PICK bytes \in [Indices -> PackedBytes] :
          plans' = [i \in Indices |-> [plans[i] EXCEPT !.bytes = bytes[i]]]
  BY DEF Repack
<1>3. Len(plans) \in Nat /\ Indices = 1 .. Len(plans) /\ plans \in Seq(PlanType)
  BY <1>1 DEF TypeOK, Indices
<1>4. \A i \in Indices : plans'[i] = [plans[i] EXCEPT !.bytes = bytes[i]]
                        /\ plans'[i] \in PlanType
  <2>1. TAKE i \in Indices
  <2>2. bytes[i] \in Nat /\ plans[i] \in PlanType
    BY <1>1, NumbersAssumption, PlanFields
  <2>3. QED BY <1>2, <2>2 DEF PlanType
<1>5. plans' \in Seq(PlanType) /\ Len(plans') = Len(plans)
  BY <1>2, <1>3, <1>4
<1>6. SamePlans /\ \A i \in Indices : plans'[i].residency = plans[i].residency
  <2>1. \A i \in Indices : plans[i] \in PlanType
    BY <1>1, PlanFields
  <2>2. QED BY <1>1, <1>4, <1>5, <2>1 DEF SamePlans, PlanType
<1>7. /\ Indices' = Indices
      /\ \A i \in Indices : Reusers(i)' = Reusers(i)
  BY <1>6, SamePlansRegions
<1>8. TypeOK'
  <2>1. PlanType' = PlanType
    BY <1>1 DEF PlanType
  <2>2. QED BY <1>1, <1>5, <1>7, <2>1 DEF TypeOK, Stages
<1>9. StagesInOrder'
  BY <1>1 DEF StagesInOrder
<1>10. PlanPart'
  BY <1>1, <1>6, SamePlansKeepUses, SameResidencies DEF PlanPart
<1>11. Launched' = Launched /\ Launched \subseteq DOMAIN timing
  BY <1>1 DEF Launched
<1>12. \A j \in DOMAIN timing : j \in Indices /\ Reusers(j) \subseteq Indices
  BY <1>1, TimingFields DEF Reusers, Indices, TypeOK
<1>13. ReusableKnown' /\ LaunchesInOrder' /\ OneTransport' /\ ArmedInTime'
  <2>1. ReusableKnown'
    BY <1>1, <1>6, <1>7, <1>12 DEF SamePlans, TimingPart, ReusableKnown
  <2>2. ArmedInTime'
    BY <1>1, <1>6, <1>7, <1>11, <1>12 DEF SamePlans, TimingPart, ArmedInTime
  <2>3. LaunchesInOrder' /\ OneTransport'
    BY <1>1, <1>11 DEF TimingPart, LaunchesInOrder, OneTransport
  <2>4. QED BY <2>1, <2>2, <2>3
<1>14. StreamsFound'
  <2>1. \A j \in DOMAIN timing : ChoosesStreams(j)' <=> ChoosesStreams(j)
    BY <1>1, <1>6, <1>12 DEF SamePlans, ChoosesStreams, HasWindow
  <2>2. QED BY <1>1, <1>11, <2>1 DEF TimingPart, StreamsFound
<1>15. QED
  <2>1. prog' \in Programs
    BY <1>1
  <2>2. QED BY <1>8, <1>9, <1>10, <1>13, <1>14, <2>1 DEF Inv, IInv, PlanPart

-----------------------------------------------------------------------------
(* Theorems.                                                               *)

\* Every step keeps the invariant.
THEOREM NextInv == Inv /\ [Next]_vars => Inv'
<1> SUFFICES ASSUME Inv, [Next]_vars PROVE Inv'
  OBVIOUS
<1>1. CASE \E u \in todo : StartPlan(u)
  BY <1>1, StartPlanKeepsInv
<1>2. CASE \E u \in todo : \E i \in Indices : JoinPlan(u, i)
  BY <1>2, JoinPlanKeepsInv
<1>3. CASE \E i \in Indices : AssignResidency(i)
  BY <1>3, AssignResidencyKeepsInv
<1>4. CASE \E i \in Indices : DecideReuse(i)
  BY <1>4, DecideReuseKeepsInv
<1>5. CASE \E i \in Indices : LaunchReserved(i)
  BY <1>5, LaunchReservedKeepsInv
<1>6. CASE \E i \in Indices : LaunchOnIdle(i)
  BY <1>6, LaunchOnIdleKeepsInv
<1>7. CASE \E i \in Indices : Reject(i)
  BY <1>7, RejectKeepsInv
<1>8. CASE Arrange
  BY <1>8, ArrangeKeepsInv
<1>9. CASE Repack
  BY <1>9, RepackKeepsInv
<1>10. CASE UNCHANGED vars
  <2>1. UNCHANGED <<prog, stage, todo, plans, timing, waiting, cursor, packed>>
    BY <1>10 DEF vars
  <2>2. PlanType' = PlanType /\ Indices' = Indices /\ Launched' = Launched
    BY <2>1 DEF PlanType, Indices, Launched
  <2>3. prog \in Programs /\ TypeOK /\ StagesInOrder /\ PlanPart /\ TimingPart
    BY InvParts
  <2>4. TypeOK' /\ StagesInOrder'
    BY <2>1, <2>2, <2>3 DEF TypeOK, StagesInOrder
  <2>5. PlanPart'
    BY <2>1, <2>3, UnchangedPlanPart
  <2>6. \A j \in DOMAIN timing : Reusers(j)' = Reusers(j)
                               /\ (ChoosesStreams(j)' <=> ChoosesStreams(j))
    <3>1. SamePlans
      BY <2>1 DEF SamePlans
    <3>2. QED BY <2>1, <2>3, <3>1, SamePlansRegions, TimingFields
              DEF ChoosesStreams, HasWindow
  <2>7. Launched \subseteq DOMAIN timing
    BY DEF Launched
  <2>8. ReusableKnown' /\ LaunchesInOrder' /\ OneTransport' /\ ArmedInTime'
    BY <2>1, <2>2, <2>3, <2>6, <2>7
       DEF TimingPart, ReusableKnown, LaunchesInOrder, OneTransport, ArmedInTime
  <2>9. StreamsFound'
    <3>1. WindowValid(Least(waiting))' <=> WindowValid(Least(waiting))
      BY <2>1 DEF WindowValid, IngressEnd, Windowed, HasWindow, WindowBegin, WindowEnd
    <3>2. QED BY <2>1, <2>2, <2>3, <2>6, <2>7, <3>1 DEF TimingPart, StreamsFound
  <2>10. QED BY <2>1, <2>3, <2>4, <2>5, <2>8, <2>9 DEF Inv, IInv, PlanPart
<1>11. QED
  BY <1>1, <1>2, <1>3, <1>4, <1>5, <1>6, <1>7, <1>8, <1>9, <1>10 DEF Next

\* The invariant holds in every reachable state.
THEOREM SpecInv == Spec => []Inv
<1>1. QED BY InitInv, NextInv, PTL DEF Spec

\* The inductive invariant of planning, whose parts relate the uses, the
\* plans and their timing.
THEOREM Invariant == Spec => []IInv
<1>1. Inv => IInv
  BY DEF Inv
<1>2. QED BY <1>1, SpecInv, PTL

\* Planning keeps to its types: cycles, sizes, stages and streams.
THEOREM TypeCorrect == Spec => []TypeOK
<1>1. Inv => TypeOK
  BY DEF Inv, IInv
<1>2. QED BY <1>1, SpecInv, PTL

\* plan_weight_prefetches loses no use, and no page is in transport while an
\* earlier transport of it is still needed.
THEOREM UsesAreCovered == Spec => []UsesCovered
<1>1. Inv => UsesCovered
  BY DEF Inv, IInv
<1>2. QED BY <1>1, SpecInv, PTL

\* Of two transports of a page the first has been released before the second
\* is needed.
THEOREM WindowsAreApart == Spec => []WindowsApart
<1>1. Inv => WindowsApart
  BY DEF Inv, IInv
<1>2. QED BY <1>1, SpecInv, PTL

\* assign_disjoint_residency_pages puts no two plans with common rows on one
\* residency page.
THEOREM ResidenciesAreDisjoint == Spec => []ResidencyDisjoint
<1>1. Inv => ResidencyDisjoint
  BY DEF Inv, IInv
<1>2. QED BY <1>1, SpecInv, PTL

\* No page is loaded, launched or armed over rows that an earlier page needs.
THEOREM ReuseIsSafe == Spec => []ReuseSafe
<1>1. Inv => ReuseSafe
  <2> SUFFICES ASSUME Inv PROVE ReuseSafe
    OBVIOUS
  <2>1. TypeOK /\ ReusableKnown /\ LaunchesInOrder
    BY DEF Inv, IInv
  <2>2. SUFFICES ASSUME NEW j \in DOMAIN timing, NEW i \in Reusers(j)
                 PROVE  /\ ~timing[j].pre
                        /\ j \in Launched =>
                               /\ plans[i].release <= timing[j].start
                               /\ plans[i].release <= timing[j].arm
    BY DEF ReuseSafe
  <2>3. ~timing[j].pre /\ plans[i].release <= timing[j].reusable
    BY <2>1, <2>2 DEF ReusableKnown
  <2>4. /\ timing[j].reusable \in Nat /\ timing[j].start \in Nat /\ timing[j].arm \in Nat
        /\ j \in Indices
    BY <2>1, TimingFields
  <2>5. i \in Indices
    BY <2>1, <2>4 DEF Reusers, Indices, TypeOK
  <2>6. plans[i].release \in Nat
    BY <2>1, <2>5, PlanFields
  <2>7. j \in Launched => timing[j].reusable <= timing[j].arm
                        /\ timing[j].reusable <= timing[j].start
    BY <2>1 DEF LaunchesInOrder
  <2>8. QED BY <2>3, <2>4, <2>6, <2>7
<1>2. QED BY <1>1, SpecInv, PTL

\* Without the common barriers the transports of the plans follow each other.
THEOREM TransportsFollow == Spec => []OneTransport
<1>1. Inv => OneTransport
  BY DEF Inv, IInv
<1>2. QED BY <1>1, SpecInv, PTL

\* MEM is armed by the launch, and in front of the consumer if it can be.
THEOREM ArmingIsInTime == Spec => []ArmedInTime
<1>1. Inv => ArmedInTime
  BY DEF Inv, IInv
<1>2. QED BY <1>1, SpecInv, PTL

\* Every launch finds streams, and only idle ones.
THEOREM StreamsAreFound == Spec => []StreamsFound
<1>1. Inv => StreamsFound
  BY DEF Inv, IInv
<1>2. QED BY <1>1, SpecInv, PTL

\* The sort of schedule_weight_prefetches moves no plan.
THEOREM OrderIsKept == Spec => PlansKeepOrder
<1>1. Inv /\ [Next]_vars => [stage = "order" /\ stage' = "reuse" => plans' = plans]_vars
  <2> SUFFICES ASSUME Inv, [Next]_vars, stage = "order", stage' = "reuse"
               PROVE  plans' = plans
    OBVIOUS
  <2>1. CASE UNCHANGED vars
    BY <2>1 DEF vars
  <2>2. CASE Arrange
    BY <2>2, ArrangeKeepsPlans DEF Inv, IInv
  <2>3. ~(\E u \in todo : StartPlan(u) \/ \E i \in Indices : JoinPlan(u, i))
    BY DEF StartPlan, JoinPlan
  <2>4. ~(\E i \in Indices :
             \/ AssignResidency(i) \/ DecideReuse(i)
             \/ LaunchReserved(i) \/ LaunchOnIdle(i) \/ Reject(i))
    BY DEF AssignResidency, DecideReuse, LaunchReserved, LaunchOnIdle, Reject, NextLaunch
  <2>5. ~Repack
    BY DEF Repack
  <2>6. QED BY <2>1, <2>2, <2>3, <2>4, <2>5 DEF Next
<1>2. QED BY <1>1, SpecInv, PTL DEF Spec, PlansKeepOrder

=============================================================================
