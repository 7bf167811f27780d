----------------------- MODULE CommonTransportProofs -----------------------
(***************************************************************************)
(* Proofs about CommonTransport for every set of programs, pages, banks    *)
(* and rows.                                                               *)
(***************************************************************************)
EXTENDS CommonTransport, BoundedNumbers

USE DEF Kinds, Channels

-----------------------------------------------------------------------------
(* Type correctness.                                                       *)

\* The program before the first load is a program.
LEMMA EmptyProgramType == EmptyProgram \in ProgramType
BY DEF EmptyProgram, ProgramType

\* Every page of a transport order has a rank.
LEMMA RanksType ==
  ASSUME NEW prog \in ProgramType, NEW rank \in Ranks(prog)
  PROVE  rank \in [prog.pages -> Nat]
<1>1. prog.pages \subseteq PageIds
  BY DEF ProgramType
<1>2. Cardinality(prog.pages) \in Nat
  BY <1>1, FS_Subset, FS_CardinalityType, PageIdsAssumption
<1>3. 1 .. Cardinality(prog.pages) \subseteq Nat
  BY <1>2
<1>4. QED BY <1>3 DEF Ranks

\* One call of advance_common_transport keeps the flags sets of pages.
LEMMA AdvanceType ==
  ASSUME NEW l, NEW la \in SUBSET program.pages, NEW co \in SUBSET program.pages,
         NEW vec, NEW drained, NEW im
  PROVE  /\ AdvanceLaunched(l, la, co, vec, drained, im) \in SUBSET program.pages
         /\ AdvanceCommitted(la, co, vec, drained, im) \in SUBSET program.pages
BY DEF AdvanceLaunched, AdvanceCommitted, Launches, Commits

\* SRAM rows hold pages whatever arrives.
LEMMA SramType ==
  ASSUME TypeOK, NEW arrived
  PROVE  SramAfter(arrived) \in [Banks -> [0 .. Rows - 1 -> Contents]]
<1> SUFFICES ASSUME NEW b \in Banks, NEW r \in 0 .. Rows - 1
             PROVE  SramAfter(arrived)[b][r] \in Contents
  BY DEF SramAfter
<1> DEFINE Writer(p) == <<p, b>> \in arrived /\ Writes(p, b, r)
           writer == CHOOSE p \in program.pages : Writer(p)
<1>1. CASE \E p \in program.pages : Writer(p)
  <2>1. writer \in program.pages
    BY <1>1
  <2>2. program.pages \subseteq PageIds /\ generation \in 0 .. MaxGeneration
    BY DEF TypeOK, ProgramType
  <2>3. SramAfter(arrived)[b][r] = <<generation, writer>>
    BY <1>1 DEF SramAfter
  <2> HIDE DEF writer
  <2>4. QED BY <2>1, <2>2, <2>3 DEF Contents
<1>2. CASE ~ \E p \in program.pages : Writer(p)
  BY <1>2 DEF SramAfter, TypeOK
<1>3. QED BY <1>1, <1>2

\* The counts of arrived vectors are numbers.
LEMMA VectorsType ==
  ASSUME TypeOK, NEW arrived
  PROVE  VectorsAfter(arrived) \in [PageIds -> [Banks -> Nat]]
BY DEF VectorsAfter, TypeOK

\* The first state has its types.
LEMMA InitType == Init => TypeOK
<1> SUFFICES ASSUME Init PROVE TypeOK
  OBVIOUS
<1>1. program \in ProgramType
  BY EmptyProgramType DEF Init
<1>2. order \in [program.pages -> Nat]
  BY DEF Init, EmptyProgram
<1>3. sram \in [Banks -> [0 .. Rows - 1 -> Contents]]
  BY BoundsAssumption DEF Init, Contents, None
<1>4. vectors \in [PageIds -> [Banks -> Nat]]
  BY DEF Init
<1>5. generation \in 0 .. MaxGeneration /\ L \in Nat
  BY BoundsAssumption DEF Init
<1>6. QED
  BY <1>1, <1>2, <1>3, <1>4, <1>5 DEF Init, TypeOK

\* Loading a program keeps the types.
LEMMA LoadType ==
  ASSUME TypeOK, NEW prog \in Programs, NEW isTimed \in BOOLEAN, Load(prog, isTimed)
  PROVE  TypeOK'
<1>1. program' = prog /\ prog \in ProgramType
  BY ProgramsAssumption DEF Load
<1>2. order' \in [program'.pages -> Nat]
  BY <1>1, RanksType DEF Load
<1>3. generation' \in 0 .. MaxGeneration
  BY BoundsAssumption DEF Load, TypeOK
<1>4. completions' = completions /\ sram' = sram
  BY DEF Load
<1>5. QED
  BY <1>1, <1>2, <1>3, <1>4, BoundsAssumption DEF Load, TypeOK, Contents

\* A physical cycle keeps the types.
LEMMA TickType ==
  ASSUME TypeOK, NEW arrived \in SUBSET PossibleArrivals,
         NEW drains \in BOOLEAN, NEW loads \in BOOLEAN, Tick(arrived, drains, loads)
  PROVE  TypeOK'
<1> DEFINE la1 == LaunchedBeforeTick
           co1 == AdvanceCommitted(launched, committed, vectors, ~transient, images)
<1>1. la1 \in SUBSET program.pages /\ co1 \in SUBSET program.pages
  BY AdvanceType DEF TypeOK, LaunchedBeforeTick
<1>2. UNCHANGED <<loaded, program, order, generation, timed, inputs, dependency>>
  BY DEF Tick
<1>3. launched' \in SUBSET program.pages /\ committed' \in SUBSET program.pages
  <2>1. /\ launched' = AdvanceLaunched(L, la1, co1, vectors', ~transient', images')
        /\ committed' = AdvanceCommitted(la1, co1, vectors', ~transient', images')
    BY DEF Tick
  <2>2. QED BY <1>1, <2>1, AdvanceType
<1>4. vectors' \in [PageIds -> [Banks -> Nat]]
  BY VectorsType DEF Tick
<1>5. sram' \in [Banks -> [0 .. Rows - 1 -> Contents]]
  BY SramType DEF Tick
<1>6. completions' \subseteq (0 .. MaxGeneration) \X PageIds
  <2>1. completions' = completions \cup ({generation} \X committed')
    BY <1>2 DEF Tick, Completions
  <2>2. program.pages \subseteq PageIds
    BY DEF TypeOK, ProgramType
  <2>3. QED BY <1>3, <2>1, <2>2 DEF TypeOK
<1>7. L' \in Nat
  BY DEF Tick, TypeOK
<1>8. /\ transient' \in BOOLEAN /\ images' \in BOOLEAN /\ started' \in BOOLEAN
  BY DEF Tick, TypeOK
<1>9. QED
  BY <1>2, <1>3, <1>4, <1>5, <1>6, <1>7, <1>8 DEF TypeOK

(***************************************************************************)
(* Every reachable state of every instance is well typed.                  *)
(***************************************************************************)
THEOREM TypeCorrect == Spec => []TypeOK
<1>1. Init => TypeOK
  BY InitType
<1>2. TypeOK /\ [Next]_vars => TypeOK'
  <2> SUFFICES ASSUME TypeOK, [Next]_vars PROVE TypeOK'
    OBVIOUS
  <2>1. ASSUME NEW prog \in Programs, NEW isTimed \in BOOLEAN, Load(prog, isTimed)
        PROVE  TypeOK'
    BY <2>1, LoadType
  <2>2. CASE UploadInputs
    BY <2>2 DEF UploadInputs, TypeOK, pageVars
  <2>3. CASE StartDependencyMet
    BY <2>3 DEF StartDependencyMet, TypeOK, pageVars
  <2>4. CASE StepPhysical
    BY <2>4, TickType DEF StepPhysical
  <2>5. CASE UNCHANGED vars
    BY <2>5 DEF vars, pageVars, startVars, TypeOK
  <2>6. QED
    BY <2>1, <2>2, <2>3, <2>4, <2>5 DEF Next
<1>3. QED
  BY <1>1, <1>2, PTL DEF Spec

-----------------------------------------------------------------------------
(* One call of advance_common_transport.                                   *)

\* A call of advance_common_transport keeps what holds of the page flags.
LEMMA AdvanceKeepsFlags ==
  ASSUME TypeOK, NEW l, NEW la \in SUBSET program.pages,
         NEW co \in SUBSET program.pages, NEW vec, NEW drained, NEW im,
         FlagsOK(l, la, co, vec)
  PROVE  /\ FlagsOK(l, AdvanceLaunched(l, la, co, vec, drained, im),
                    AdvanceCommitted(la, co, vec, drained, im), vec)
         /\ la \subseteq AdvanceLaunched(l, la, co, vec, drained, im)
         /\ co \subseteq AdvanceCommitted(la, co, vec, drained, im)
<1> DEFINE la2 == AdvanceLaunched(l, la, co, vec, drained, im)
           co2 == AdvanceCommitted(la, co, vec, drained, im)
<1>1. \A p \in program.pages : order[p] \in Nat
  BY DEF TypeOK
<1>2. la \subseteq la2 /\ co \subseteq co2
  BY DEF AdvanceLaunched, AdvanceCommitted
<1>3. co2 \subseteq la
  BY <1>1 DEF AdvanceCommitted, Commits, PassedUpTo, Passes, FlagsOK
<1>4. ASSUME NEW p \in la2, NEW q \in program.pages, order[q] < order[p]
      PROVE  q \in co2
  <2>1. CASE p \in la
    BY <1>2, <1>4, <2>1 DEF FlagsOK
  <2>2. CASE p \notin la
    <3>1. im /\ p \in program.pages /\ PassedBefore(p, la, co, vec, drained)
      BY <1>4, <2>2 DEF AdvanceLaunched, Launches
    <3>2. PassedUpTo(q, la, co, vec, drained)
      BY <1>1, <1>4, <3>1 DEF PassedBefore, PassedUpTo
    <3>3. QED
      BY <3>1, <3>2 DEF AdvanceCommitted, Commits
  <2>3. QED BY <2>1, <2>2
<1>5. \A p \in la2 : program.launch[p] <= l
  BY DEF AdvanceLaunched, Launches, FlagsOK
<1>6. \A p \in co2 : AllVectors(p, vec)
  BY <1>1 DEF AdvanceCommitted, Commits, PassedUpTo, Passes, FlagsOK
<1>7. QED
  BY <1>2, <1>3, <1>4, <1>5, <1>6 DEF FlagsOK

\* Launching needs the launch cycle; flags stay right when L moves on.
LEMMA FlagsLater ==
  ASSUME TypeOK, NEW la \in SUBSET program.pages, NEW co, NEW vec, NEW l \in Nat,
         FlagsOK(l, la, co, vec)
  PROVE  FlagsOK(l + 1, la, co, vec)
<1>1. \A p \in la : program.launch[p] \in Nat
  BY DEF TypeOK, ProgramType
<1>2. QED BY <1>1 DEF FlagsOK

-----------------------------------------------------------------------------
(* The inductive invariant.                                                *)

\* The invariant holds before the first load.
LEMMA InitInvariant == Init => IInv
<1> SUFFICES ASSUME Init PROVE IInv
  OBVIOUS
<1>1. TypeOK
  BY InitType
<1>2. Valid(program)
  BY DEF Init, EmptyProgram, Valid, BarriersValid, StorageReuseSafe,
         SegmentsInRange, ControlLinked, PacketsLinked
<1>3. IsTransportOrder(program, order)
  BY DEF Init, EmptyProgram, IsTransportOrder
<1>4. FlagsOK(L, launched, committed, vectors)
  BY DEF Init, FlagsOK
<1>5. ArrivalsCounted /\ RowsKept
  BY DEF Init, EmptyProgram, ArrivalsCounted, RowsKept
<1>6. CompletionsExact
  BY DEF Init, EmptyProgram, CompletionsExact
<1>7. StartsWithDependencies
  BY DEF Init, StartsWithDependencies
<1>8. QED
  BY <1>1, <1>2, <1>3, <1>4, <1>5, <1>6, <1>7 DEF IInv, Init, EmptyProgram

\* A load resets what the invariant speaks of.
LEMMA LoadInvariant ==
  ASSUME IInv, NEW prog \in Programs, NEW isTimed \in BOOLEAN, Load(prog, isTimed)
  PROVE  IInv'
<1>1. TypeOK'
  BY LoadType DEF IInv
<1>2. Valid(program)'
  BY DEF Load, Valid, BarriersValid, StorageReuseSafe, SegmentsInRange,
         ControlLinked, PacketsLinked
<1>3. IsTransportOrder(program, order)'
  <2>1. program' = prog /\ IsTransportOrder(prog, order')
    BY DEF Load
  <2>2. QED BY <2>1
<1>4. FlagsOK(L, launched, committed, vectors)'
  BY DEF Load, FlagsOK
<1>5. L' = 0 /\ transient' = FALSE
  BY DEF Load
<1>6. \A p \in program'.pages : ~ (program'.stop[p] < L')
  BY <1>1, <1>5 DEF TypeOK, ProgramType
<1>7. /\ \A p \in PageIds, b \in Banks : vectors'[p][b] = 0
      /\ program'.pages \subseteq PageIds
  BY <1>1 DEF Load, TypeOK, ProgramType
<1>8. ArrivalsCounted' /\ RowsKept'
  <2>1. \A p \in program'.pages, b \in Banks : 0 <= program'.count[p][b]
    BY <1>1, <1>7 DEF TypeOK, ProgramType
  <2>2. QED BY <1>7, <2>1 DEF ArrivalsCounted, RowsKept
<1>9. CompletionsExact'
  <2>1. generation' = generation + 1 /\ completions' = completions /\ committed' = {}
    BY DEF Load
  <2>2. \A c \in completions : c[1] <= generation /\ generation \in Nat
    BY DEF IInv, CompletionsExact, TypeOK
  <2>3. \A c \in completions : c[1] \in Nat
    BY DEF IInv, TypeOK
  <2>4. QED BY <2>1, <2>2, <2>3 DEF CompletionsExact
<1>10. StartsWithDependencies'
  <2>1. timed' = isTimed /\ started' = ~isTimed /\ ~ (L' > 0)
    BY <1>5 DEF Load
  <2>2. CASE isTimed = TRUE
    <3>1. ~ started' /\ ~ (L' > 0)
      BY <2>1, <2>2
    <3>2. QED BY <3>1 DEF StartsWithDependencies
  <2>3. CASE isTimed = FALSE
    BY <2>1, <2>3 DEF StartsWithDependencies
  <2>4. QED BY <2>2, <2>3
<1>11. \A p \in program'.pages : program'.ready[p] < program'.release[p]
  BY WindowsAssumption DEF Load
<1>12. QED
  BY <1>1, <1>2, <1>3, <1>4, <1>5, <1>6, <1>8, <1>9, <1>10, <1>11 DEF IInv

\* The host's uploads and dependencies touch nothing of it.
LEMMA HostInvariant ==
  ASSUME IInv, UploadInputs \/ StartDependencyMet \/ UNCHANGED vars
  PROVE  IInv'
<1>1. /\ UNCHANGED <<program, order, generation, L>>
      /\ UNCHANGED <<loaded, timed, images, started>>
      /\ UNCHANGED pageVars
  BY DEF UploadInputs, StartDependencyMet, vars, startVars
<1>2. inputs' = inputs \/ inputs' = TRUE
  BY DEF UploadInputs, StartDependencyMet, vars, startVars
<1>3. dependency' = dependency \/ dependency' = TRUE
  BY DEF UploadInputs, StartDependencyMet, vars, startVars
<1>4. TypeOK'
  <2>1. inputs' \in BOOLEAN /\ dependency' \in BOOLEAN
    BY <1>2, <1>3 DEF IInv, TypeOK
  <2>2. QED BY <1>1, <2>1 DEF IInv, TypeOK, pageVars
<1>5. Valid(program)' /\ IsTransportOrder(program, order)'
  BY <1>1 DEF IInv
<1>6. FlagsOK(L, launched, committed, vectors)'
  BY <1>1 DEF IInv, FlagsOK, pageVars, AllVectors
<1>7. ArrivalsCounted' /\ RowsKept' /\ CompletionsExact'
  BY <1>1 DEF IInv, ArrivalsCounted, RowsKept, CompletionsExact, pageVars
<1>8. StartsWithDependencies'
  <2>1. inputs => inputs'
    BY <1>2
  <2>2. dependency => dependency'
    BY <1>3
  <2>3. (timed' /\ (started' \/ L' > 0)) => (timed /\ (started \/ L > 0))
    BY <1>1
  <2>4. images => images'
    BY <1>1
  <2>5. (\A p \in program.pages : program.stop[p] = 0 => p \in committed)
        => (\A p \in program'.pages : program'.stop[p] = 0 => p \in committed')
    BY <1>1 DEF pageVars
  <2>6. QED
    BY <2>1, <2>2, <2>3, <2>4, <2>5, Zenon DEF IInv, StartsWithDependencies
<1>9. QED
  BY <1>1, <1>4, <1>5, <1>6, <1>7, <1>8 DEF IInv, pageVars, InFlight

(***************************************************************************)
(* One physical cycle.  la1 and co1 are the flags between the two calls of *)
(* advance_common_transport, when the chip works.                          *)
(***************************************************************************)
co1 == AdvanceCommitted(launched, committed, vectors, ~transient, images)

\* The two sets of flags are right, and only grow.
LEMMA FlagsBeforeTick ==
  ASSUME IInv
  PROVE  /\ LaunchedBeforeTick \in SUBSET program.pages
         /\ co1 \in SUBSET program.pages
         /\ FlagsOK(L, LaunchedBeforeTick, co1, vectors)
         /\ launched \subseteq LaunchedBeforeTick
         /\ committed \subseteq co1
         /\ transient => co1 = committed
<1>1. TypeOK /\ FlagsOK(L, launched, committed, vectors)
  BY DEF IInv
<1>2. /\ launched \in SUBSET program.pages /\ committed \in SUBSET program.pages
      /\ images \in BOOLEAN
  BY <1>1 DEF TypeOK
<1> DEFINE drained == ~transient
<1>3. /\ drained \in BOOLEAN
      /\ LaunchedBeforeTick = AdvanceLaunched(L, launched, committed, vectors, drained, images)
      /\ co1 = AdvanceCommitted(launched, committed, vectors, drained, images)
  BY DEF LaunchedBeforeTick, co1
<1>4. /\ LaunchedBeforeTick \in SUBSET program.pages
      /\ co1 \in SUBSET program.pages
  BY <1>2, AdvanceType DEF LaunchedBeforeTick, co1
<1>5. /\ FlagsOK(L, LaunchedBeforeTick, co1, vectors)
      /\ launched \subseteq LaunchedBeforeTick
      /\ committed \subseteq co1
  <2> DEFINE la == AdvanceLaunched(L, launched, committed, vectors, drained, images)
             co == AdvanceCommitted(launched, committed, vectors, drained, images)
  <2> HIDE DEF drained
  <2>1. /\ FlagsOK(L, la, co, vectors)
        /\ launched \subseteq la /\ committed \subseteq co
    BY ONLY <1>1, <1>2, AdvanceKeepsFlags
  <2>2. QED BY <1>3, <2>1
<1>6. transient => co1 = committed
  <2>1. \A p \in program.pages : order[p] \in Nat
    BY <1>1 DEF TypeOK
  <2>2. SUFFICES ASSUME transient PROVE Commits(launched, committed, vectors, ~transient) \subseteq committed
    BY DEF co1, AdvanceCommitted
  <2>3. QED BY <2>1, <2>2 DEF Commits, PassedUpTo, Passes
<1>7. QED BY <1>4, <1>5, <1>6

\* A vector arrives only for a page that is launched and incomplete.
LEMMA ArrivalsInFlight ==
  ASSUME IInv, NEW arrived \in SUBSET PossibleArrivals,
         NEW p, NEW b, <<p, b>> \in arrived
  PROVE  /\ p \in program.pages /\ p \in PageIds /\ b \in Banks
         /\ p \in LaunchedBeforeTick \ co1
         /\ vectors[p][b] < program.count[p][b]
<1>1. <<p, b>> \in Arrivals(LaunchedBeforeTick, vectors)
  BY DEF PossibleArrivals
<1>2. /\ p \in program.pages /\ b \in Banks
      /\ CanArrive(p, b, LaunchedBeforeTick, vectors)
  BY <1>1 DEF Arrivals
<1>3. p \in PageIds
  BY <1>2 DEF IInv, TypeOK, ProgramType
<1>4. /\ vectors[p][b] < program.count[p][b] /\ p \in LaunchedBeforeTick
  BY <1>2 DEF CanArrive
<1>5. vectors[p][b] \in Nat /\ program.count[p][b] \in Nat
  BY <1>2, <1>3 DEF IInv, TypeOK, ProgramType
<1>6. p \notin co1
  <2>1. ASSUME p \in co1 PROVE FALSE
    <3>1. AllVectors(p, vectors)
      BY <2>1, FlagsBeforeTick DEF FlagsOK
    <3>2. QED BY <1>2, <1>4, <1>5, <3>1 DEF AllVectors
  <2>2. QED BY <2>1
<1>7. QED BY <1>2, <1>3, <1>4, <1>6

\* At most one page is in flight.
LEMMA OneInFlight ==
  ASSUME TypeOK, IsTransportOrder(program, order), NEW l, NEW vec,
         NEW la \in SUBSET program.pages, NEW co, FlagsOK(l, la, co, vec),
         NEW p \in la \ co, NEW q \in la \ co
  PROVE  p = q
<1>1. p \in program.pages /\ q \in program.pages
  OBVIOUS
<1>2. order[p] \in Nat /\ order[q] \in Nat
  BY <1>1 DEF TypeOK
<1>3. ~(order[p] < order[q]) /\ ~(order[q] < order[p])
  BY <1>1 DEF FlagsOK
<1>4. order[p] = order[q]
  BY <1>2, <1>3
<1>5. QED BY <1>1, <1>4 DEF IsTransportOrder

\* The page flags stay consistent over a physical cycle.
LEMMA TickFlags ==
  ASSUME IInv, NEW arrived \in SUBSET PossibleArrivals,
         NEW drains \in BOOLEAN, NEW loads \in BOOLEAN, Tick(arrived, drains, loads)
  PROVE  /\ FlagsOK(L, launched', committed', vectors')
         /\ LaunchedBeforeTick \subseteq launched' /\ co1 \subseteq committed'
         /\ launched' \in SUBSET program.pages
         /\ transient' => committed' = co1
<1> DEFINE drained == ~transient'
<1>1. /\ vectors' = VectorsAfter(arrived)
      /\ launched' = AdvanceLaunched(L, LaunchedBeforeTick, co1, vectors', drained, images')
      /\ committed' = AdvanceCommitted(LaunchedBeforeTick, co1, vectors', drained, images')
  BY DEF Tick, co1
<1>2. images' \in BOOLEAN /\ drained \in BOOLEAN
  BY DEF Tick, IInv, TypeOK
<1>3. FlagsOK(L, LaunchedBeforeTick, co1, vectors')
  <2>1. ASSUME NEW p \in co1 PROVE AllVectors(p, vectors')
    <3>1. p \in PageIds /\ AllVectors(p, vectors)
      BY FlagsBeforeTick DEF FlagsOK, IInv, TypeOK, ProgramType
    <3>2. ASSUME NEW b \in Banks PROVE vectors'[p][b] = vectors[p][b]
      <4>1. <<p, b>> \notin arrived
        BY ArrivalsInFlight
      <4>2. vectors[p][b] \in Nat
        BY <3>1 DEF IInv, TypeOK
      <4>3. QED BY <1>1, <3>1, <4>1, <4>2 DEF VectorsAfter
    <3>3. QED BY <3>1, <3>2 DEF AllVectors
  <2>2. QED BY <2>1, FlagsBeforeTick DEF FlagsOK
<1>4. /\ FlagsOK(L, launched', committed', vectors')
      /\ LaunchedBeforeTick \subseteq launched' /\ co1 \subseteq committed'
  <2> HIDE DEF drained
  <2>1. /\ LaunchedBeforeTick \in SUBSET program.pages
        /\ co1 \in SUBSET program.pages
        /\ TypeOK
    BY FlagsBeforeTick DEF IInv
  <2> DEFINE la == AdvanceLaunched(L, LaunchedBeforeTick, co1, vectors', drained, images')
             co == AdvanceCommitted(LaunchedBeforeTick, co1, vectors', drained, images')
  <2>2. /\ FlagsOK(L, la, co, vectors')
        /\ LaunchedBeforeTick \subseteq la /\ co1 \subseteq co
    BY ONLY <1>3, <2>1, AdvanceKeepsFlags
  <2>3. QED BY <1>1, <2>2
<1>5. launched' \in SUBSET program.pages
  BY <1>1, FlagsBeforeTick, AdvanceType
<1>6. transient' => committed' = co1
  <2>1. \A p \in program.pages : order[p] \in Nat
    BY DEF IInv, TypeOK
  <2>2. SUFFICES ASSUME transient'
                 PROVE  Commits(LaunchedBeforeTick, co1, vectors', drained) \subseteq co1
    BY <1>1 DEF AdvanceCommitted
  <2>3. QED BY <2>1, <2>2 DEF Commits, PassedUpTo, Passes
<1>7. QED BY <1>4, <1>5, <1>6

\* A page that may be overwritten comes earlier in transport order.
LEMMA ReuseFollowsOrder ==
  ASSUME TypeOK, BarriersValid(program), IsTransportOrder(program, order),
         NEW p \in program.pages, NEW q \in program.pages,
         program.ready[p] < program.release[p],
         program.release[p] <= program.launch[q]
  PROVE  order[p] < order[q]
<1>1. p \in PageIds /\ q \in PageIds
  BY DEF TypeOK, ProgramType
<1>2. /\ program.stop[p] \in Nat /\ program.ready[p] \in Nat /\ program.release[p] \in Nat
      /\ program.launch[q] \in Nat /\ program.stop[q] \in Nat
      /\ program.stop[p] \in Nat
      /\ order[p] \in Nat /\ order[q] \in Nat
  BY <1>1 DEF TypeOK, ProgramType
<1>3. program.stop[p] < program.stop[q]
  BY <1>2 DEF BarriersValid
<1>4. ~(order[q] < order[p])
  BY <1>2, <1>3 DEF IsTransportOrder
<1>5. order[q] # order[p]
  BY <1>2, <1>3 DEF IsTransportOrder
<1>6. QED BY <1>2, <1>4, <1>5

\* Two pages with a common row: one was planned first and is released first.
LEMMA ReuseSafe ==
  ASSUME TypeOK, StorageReuseSafe(program),
         NEW p \in program.pages, NEW q \in program.pages, p # q,
         NEW b \in Banks,
         NEW i \in 0 .. program.count[p][b] - 1, NEW j \in 0 .. program.count[q][b] - 1,
         program.base[p][b] + i = program.base[q][b] + j
  PROVE  \/ program.release[p] <= program.launch[q]
         \/ program.release[q] <= program.launch[p]
<1>1. p \in PageIds /\ q \in PageIds
  BY DEF TypeOK, ProgramType
<1>2. /\ p \in Nat /\ q \in Nat
      /\ program.ready[p] \in Nat /\ program.ready[q] \in Nat
  BY <1>1, PageIdsAssumption DEF TypeOK, ProgramType
<1>3. PlannedBefore(program, p, q) \/ PlannedBefore(program, q, p)
  BY <1>2 DEF PlannedBefore
<1>4. Overlap(program, p, q) /\ Overlap(program, q, p)
  BY DEF Overlap
<1>5. QED BY <1>3, <1>4 DEF StorageReuseSafe

\* Rows that no later page was launched over keep their page.
LEMMA TickRowsKept ==
  ASSUME IInv, NEW arrived \in SUBSET PossibleArrivals,
         NEW drains \in BOOLEAN, NEW loads \in BOOLEAN, Tick(arrived, drains, loads)
  PROVE  RowsKept'
<1> DEFINE la1 == LaunchedBeforeTick
<1>1. /\ vectors' = VectorsAfter(arrived) /\ sram' = SramAfter(arrived)
      /\ program' = program /\ generation' = generation
  BY DEF Tick
<1>2. /\ launched \subseteq launched' /\ la1 \subseteq launched'
  BY FlagsBeforeTick, TickFlags
<1>3. /\ TypeOK /\ BarriersValid(program) /\ StorageReuseSafe(program)
      /\ SegmentsInRange(program) /\ IsTransportOrder(program, order)
      /\ ArrivalsCounted /\ RowsKept
      /\ \A x \in program.pages : program.ready[x] < program.release[x]
  BY DEF IInv, Valid
<1> SUFFICES ASSUME NEW p \in program.pages, NEW b \in Banks,
                    NEW i \in 0 .. vectors'[p][b] - 1,
                    ~ \E q \in launched' : program.release[p] <= program.launch[q]
             PROVE  sram'[b][program.base[p][b] + i] = <<generation, p>>
  BY <1>1 DEF RowsKept
<1> DEFINE row == program.base[p][b] + i
           Writer(w) == <<w, b>> \in arrived /\ Writes(w, b, row)
           writer == CHOOSE w \in program.pages : Writer(w)
<1>4. /\ p \in PageIds
      /\ vectors[p][b] \in Nat /\ program.count[p][b] \in Nat /\ program.base[p][b] \in Nat
      /\ vectors[p][b] <= program.count[p][b]
  BY <1>3 DEF TypeOK, ProgramType, ArrivalsCounted
<1>5. vectors'[p][b] = vectors[p][b] + IF <<p, b>> \in arrived THEN 1 ELSE 0
  BY <1>1, <1>4 DEF VectorsAfter
<1>6. i \in Nat /\ i < program.count[p][b]
  <2>1. CASE <<p, b>> \in arrived
    BY <1>4, <1>5, <2>1, ArrivalsInFlight
  <2>2. CASE <<p, b>> \notin arrived
    BY <1>4, <1>5, <2>2
  <2>3. QED BY <2>1, <2>2
<1>7. row \in 0 .. Rows - 1
  <2>1. program.base[p][b] + program.count[p][b] <= Rows
    BY <1>3 DEF SegmentsInRange
  <2>2. QED BY <1>4, <1>6, <2>1, BoundsAssumption
<1>8. sram'[b][row] = IF \E w \in program.pages : Writer(w)
                      THEN <<generation, writer>> ELSE sram[b][row]
  BY <1>1, <1>7 DEF SramAfter
<1>9. ASSUME NEW w \in program.pages, Writer(w)
      PROVE  w = p
  <2>1. /\ w \in la1 \ co1 /\ w \in PageIds
        /\ vectors[w][b] < program.count[w][b]
    BY <1>9, ArrivalsInFlight
  <2>2. vectors[w][b] \in Nat /\ program.count[w][b] \in Nat /\ program.base[w][b] \in Nat
    BY <2>1, <1>3 DEF TypeOK, ProgramType
  <2>3. row = program.base[w][b] + vectors[w][b]
    BY <1>9 DEF Writes
  <2>4. SUFFICES ASSUME w # p PROVE FALSE
    OBVIOUS
  <2>5. program.release[w] <= program.launch[p]
    <3>1. vectors[w][b] \in 0 .. program.count[w][b] - 1
      BY <2>1, <2>2
    <3>2. i \in 0 .. program.count[p][b] - 1
      BY <1>4, <1>6
    <3>3. \/ program.release[p] <= program.launch[w]
          \/ program.release[w] <= program.launch[p]
      BY <1>3, <2>3, <2>4, <3>1, <3>2, ReuseSafe
    <3>4. w \in launched'
      BY <1>2, <2>1
    <3>5. QED BY <3>3, <3>4
  <2>6. p \in la1
    <3>1. CASE <<p, b>> \in arrived
      BY <3>1, ArrivalsInFlight
    <3>2. CASE <<p, b>> \notin arrived
      BY <1>3, <1>4, <1>5, <3>2, FlagsBeforeTick DEF ArrivalsCounted
    <3>3. QED BY <3>1, <3>2
  <2>7. order[w] < order[p]
    BY <1>3, <2>5, ReuseFollowsOrder
  <2>8. w \in co1
    BY <2>6, <2>7, FlagsBeforeTick DEF FlagsOK
  <2>9. QED BY <2>1, <2>8
<1>10. CASE \E w \in program.pages : Writer(w)
  <2>1. writer \in program.pages /\ Writer(writer)
    BY <1>10
  <2>2. writer = p
    <3> HIDE DEF writer
    <3>1. QED BY <1>9, <2>1
  <2>3. QED BY <1>8, <1>10, <2>2
<1>11. CASE ~ \E w \in program.pages : Writer(w)
  <2>1. sram'[b][row] = sram[b][row]
    BY <1>8, <1>11
  <2>2. i \in 0 .. vectors[p][b] - 1
    <3>1. CASE <<p, b>> \in arrived
      <4>1. i # vectors[p][b]
        BY <1>11, <3>1 DEF Writes
      <4>2. QED BY <1>4, <1>5, <3>1, <4>1
    <3>2. CASE <<p, b>> \notin arrived
      BY <1>4, <1>5, <3>2
    <3>3. QED BY <3>1, <3>2
  <2>3. QED
    BY <1>2, <1>3, <2>1, <2>2 DEF RowsKept
<1>12. QED BY <1>10, <1>11

\* Vectors arrive only for the page in flight.
LEMMA TickArrivals ==
  ASSUME IInv, NEW arrived \in SUBSET PossibleArrivals,
         NEW drains \in BOOLEAN, NEW loads \in BOOLEAN, Tick(arrived, drains, loads)
  PROVE  ArrivalsCounted' /\ (transient' => InFlight' # {})
<1>1. /\ vectors' = VectorsAfter(arrived) /\ program' = program
      /\ transient' = (arrived # {} \/ (transient /\ ~drains))
  BY DEF Tick
<1>2. /\ launched \subseteq launched' /\ LaunchedBeforeTick \subseteq launched'
      /\ transient' => committed' = co1
  BY FlagsBeforeTick, TickFlags
<1>3. ASSUME NEW p \in program.pages, NEW b \in Banks
      PROVE  /\ vectors'[p][b] <= program.count[p][b]
             /\ vectors'[p][b] > 0 => p \in launched'
  <2>1. /\ p \in PageIds
        /\ vectors[p][b] \in Nat /\ program.count[p][b] \in Nat
        /\ vectors[p][b] <= program.count[p][b]
        /\ vectors[p][b] > 0 => p \in launched
    BY DEF IInv, TypeOK, ProgramType, ArrivalsCounted
  <2>2. vectors'[p][b] = vectors[p][b] + IF <<p, b>> \in arrived THEN 1 ELSE 0
    BY <1>1, <2>1 DEF VectorsAfter
  <2>3. CASE <<p, b>> \in arrived
    <3>1. vectors[p][b] < program.count[p][b] /\ p \in LaunchedBeforeTick
      BY <2>3, ArrivalsInFlight
    <3>2. QED BY <1>2, <2>1, <2>2, <2>3, <3>1
  <2>4. CASE <<p, b>> \notin arrived
    BY <1>2, <2>1, <2>2, <2>4
  <2>5. QED BY <2>3, <2>4
<1>4. ASSUME transient' PROVE InFlight' # {}
  <2>1. committed' = co1
    BY <1>2, <1>4
  <2>2. CASE arrived # {}
    <3>1. PICK p \in program.pages, b \in Banks : <<p, b>> \in arrived
      BY <2>2 DEF PossibleArrivals, Arrivals
    <3>2. p \in LaunchedBeforeTick \ co1
      BY <3>1, ArrivalsInFlight
    <3>3. QED BY <1>2, <2>1, <3>2 DEF InFlight
  <2>3. CASE arrived = {}
    <3>1. transient
      BY <1>1, <1>4, <2>3
    <3>2. InFlight # {} /\ co1 = committed
      BY <3>1, FlagsBeforeTick DEF IInv
    <3>3. QED BY <1>2, <2>1, <3>2 DEF InFlight
  <2>4. QED BY <2>2, <2>3
<1>5. QED BY <1>1, <1>3, <1>4 DEF ArrivalsCounted

\* The completions of the generation are those of the committed pages.
LEMMA TickCompletions ==
  ASSUME IInv, NEW arrived \in SUBSET PossibleArrivals,
         NEW drains \in BOOLEAN, NEW loads \in BOOLEAN, Tick(arrived, drains, loads)
  PROVE  CompletionsExact'
<1>1. /\ completions' = completions \cup ({generation} \X committed')
      /\ generation' = generation /\ program' = program
  BY DEF Tick, Completions
<1>2. committed \subseteq committed'
  BY FlagsBeforeTick, TickFlags
<1>3. generation \in Nat /\ CompletionsExact
  BY DEF IInv, TypeOK
<1>4. QED BY <1>1, <1>2, <1>3 DEF CompletionsExact

\* A dispatched cycle is never the stop cycle of an incomplete page.
LEMMA TickBarriers ==
  ASSUME IInv, NEW arrived \in SUBSET PossibleArrivals,
         NEW drains \in BOOLEAN, NEW loads \in BOOLEAN, Tick(arrived, drains, loads)
  PROVE  /\ \A p \in program.pages : program.stop[p] < L' => p \in committed'
         /\ FlagsOK(L, launched, committed, vectors)'
<1>1. committed \subseteq co1 /\ co1 \subseteq committed'
  BY FlagsBeforeTick, TickFlags
<1>2. program' = program /\ order' = order
  BY DEF Tick
<1>3. L \in Nat /\ \A p \in program.pages : program.stop[p] \in Nat
  BY DEF IInv, TypeOK, ProgramType
<1>4. FlagsOK(L, launched', committed', vectors')
  BY TickFlags
<1>5. CASE L' = L
  <2>1. \A p \in program.pages : program.stop[p] < L' => p \in committed'
    BY <1>1, <1>5 DEF IInv
  <2>2. FlagsOK(L', launched', committed', vectors')
    BY <1>4, <1>5
  <2>3. QED BY <2>1, <2>2, <1>2 DEF FlagsOK, AllVectors
<1>6. CASE L' = L + 1 /\ BarrierOpen(completions \cup Completions(co1))
  <2>1. ASSUME NEW p \in program.pages, program.stop[p] = L
        PROVE  p \in committed'
    <3>1. <<generation, p>> \in completions \cup ({generation} \X co1)
      BY <1>6, <2>1 DEF BarrierOpen, Completions
    <3>2. QED BY <1>1, <3>1 DEF IInv, CompletionsExact
  <2>2. \A p \in program.pages : program.stop[p] < L' => p \in committed'
    BY <1>1, <1>3, <1>6, <2>1 DEF IInv
  <2>3. launched' \in SUBSET program.pages /\ TypeOK
    BY TickFlags DEF IInv
  <2>4. FlagsOK(L + 1, launched', committed', vectors')
    BY <1>3, <1>4, <2>3, FlagsLater
  <2>5. QED BY <1>2, <1>6, <2>2, <2>4 DEF FlagsOK, AllVectors
<1>7. L' = L \/ (L' = L + 1 /\ BarrierOpen(completions \cup Completions(co1)))
  BY DEF Tick, co1
<1>8. QED BY <1>5, <1>6, <1>7

\* A program that has started had all it depends on.
LEMMA TickStarts ==
  ASSUME IInv, NEW arrived \in SUBSET PossibleArrivals,
         NEW drains \in BOOLEAN, NEW loads \in BOOLEAN, Tick(arrived, drains, loads)
  PROVE  StartsWithDependencies'
<1> DEFINE Before == started \/ L > 0
           InitialPages(co) == \A p \in program.pages : program.stop[p] = 0 => p \in co
<1>1. /\ UNCHANGED <<program, timed, inputs, dependency>>
      /\ images => images'
  BY DEF Tick
<1>2. committed \subseteq co1 /\ co1 \subseteq committed'
  BY FlagsBeforeTick, TickFlags
<1>3. SUFFICES ASSUME timed', started' \/ L' > 0
      PROVE  images' /\ inputs' /\ dependency' /\ InitialPages(committed')
  BY <1>1 DEF StartsWithDependencies
<1>4. timed
  BY <1>1, <1>3
<1>5. CASE Before
  <2>1. images /\ inputs /\ dependency /\ InitialPages(committed)
    BY <1>4, <1>5, Zenon DEF IInv, StartsWithDependencies
  <2>2. InitialPages(committed')
    BY <1>2, <2>1
  <2>3. QED BY <1>1, <2>1, <2>2, Zenon
<1>6. CASE ~Before
  <2>1. ~started /\ L \in Nat /\ ~(L > 0)
    BY <1>6 DEF IInv, TypeOK
  <2>2. images /\ inputs /\ dependency /\ InitialPagesReady(co1)
    <3> DEFINE starts == started \/ ((~timed \/ ((~timed \/ inputs) /\ (started \/ (InitialPagesReady(co1) /\ dependency)))) /\ images)
    <3>1. started' = starts
      BY DEF Tick, co1
    <3>2. L' = L + 1 => starts
      BY <2>1 DEF Tick, co1
    <3>3. L' = L \/ L' = L + 1
      BY DEF Tick
    <3>4. L' > 0 => L' = L + 1
      BY <2>1, <3>3
    <3>5. starts
      BY <1>3, <3>1, <3>2, <3>4
    <3>6. QED BY <1>4, <2>1, <3>5
  <2>3. InitialPages(committed')
    BY <1>2, <2>2 DEF InitialPagesReady
  <2>4. QED BY <1>1, <2>2, <2>3, Zenon
<1>7. QED BY <1>5, <1>6

\* A physical cycle keeps the invariant.
LEMMA TickInvariant ==
  ASSUME IInv, NEW arrived \in SUBSET PossibleArrivals,
         NEW drains \in BOOLEAN, NEW loads \in BOOLEAN, Tick(arrived, drains, loads)
  PROVE  IInv'
<1>1. TypeOK'
  BY TickType DEF IInv
<1>2. program' = program /\ order' = order
  BY DEF Tick
<1>3. Valid(program)' /\ IsTransportOrder(program, order)'
  BY <1>2 DEF IInv
<1>4. FlagsOK(L, launched, committed, vectors)'
  BY TickBarriers
<1>5. \A p \in program'.pages : program'.stop[p] < L' => p \in committed'
  BY <1>2, TickBarriers
<1>6. ArrivalsCounted' /\ (transient' => InFlight' # {})
  BY TickArrivals
<1>7. CompletionsExact' /\ RowsKept' /\ StartsWithDependencies'
  BY TickCompletions, TickRowsKept, TickStarts
<1>8. \A p \in program'.pages : program'.ready[p] < program'.release[p]
  BY <1>2 DEF IInv
<1>9. QED
  BY <1>1, <1>3, <1>4, <1>5, <1>6, <1>7, <1>8 DEF IInv

(***************************************************************************)
(* IInv is an invariant of every instance.                                 *)
(***************************************************************************)
THEOREM Invariant == Spec => []IInv
<1>1. Init => IInv
  BY InitInvariant
<1>2. IInv /\ [Next]_vars => IInv'
  <2> SUFFICES ASSUME IInv, [Next]_vars PROVE IInv'
    OBVIOUS
  <2>1. ASSUME NEW prog \in Programs, NEW isTimed \in BOOLEAN, Load(prog, isTimed)
        PROVE  IInv'
    BY <2>1, LoadInvariant
  <2>2. CASE UploadInputs \/ StartDependencyMet \/ UNCHANGED vars
    BY <2>2, HostInvariant
  <2>3. CASE StepPhysical
    BY <2>3, TickInvariant DEF StepPhysical
  <2>4. QED
    BY <2>1, <2>2, <2>3 DEF Next
<1>3. QED
  BY <1>1, <1>2, PTL DEF Spec

-----------------------------------------------------------------------------
(* What the invariant implies.                                             *)

(***************************************************************************)
(* No computation gets past a barrier whose pages are incomplete.          *)
(***************************************************************************)
THEOREM BarriersHold == Spec => []BarrierHolds
<1>1. IInv => BarrierHolds
  BY DEF IInv, FlagsOK, CompletionsExact, BarrierHolds
<1>2. QED BY <1>1, Invariant, PTL

(***************************************************************************)
(* A transport never leaves its lease, and transports do not overlap.      *)
(***************************************************************************)
THEOREM LeasesRespected == Spec => []LeaseRespected
<1>1. ASSUME IInv PROVE LeaseRespected
  <2>1. /\ TypeOK /\ IsTransportOrder(program, order)
        /\ FlagsOK(L, launched, committed, vectors)
        /\ launched \in SUBSET program.pages
    BY <1>1 DEF IInv, TypeOK
  <2>2. \A p \in InFlight : program.launch[p] <= L /\ L <= program.stop[p]
    <3>1. SUFFICES ASSUME NEW p \in InFlight
                   PROVE  program.launch[p] <= L /\ L <= program.stop[p]
      OBVIOUS
    <3>2. p \in program.pages /\ p \in launched /\ p \notin committed
      BY <2>1 DEF InFlight
    <3>3. program.stop[p] \in Nat /\ L \in Nat
      BY <2>1, <3>2 DEF TypeOK, ProgramType
    <3>4. ~(program.stop[p] < L)
      BY <1>1, <3>2 DEF IInv
    <3>5. QED BY <2>1, <3>2, <3>3, <3>4 DEF FlagsOK
  <2>3. \A p, q \in InFlight : p = q
    BY <2>1, OneInFlight DEF InFlight
  <2>4. transient => InFlight # {}
    BY <1>1 DEF IInv
  <2>5. QED BY <2>2, <2>3, <2>4 DEF LeaseRespected
<1>2. QED BY <1>1, Invariant, PTL

(***************************************************************************)
(* No barrier waits for a page whose launch cycle is still to come.        *)
(***************************************************************************)
THEOREM NoFrozenDependencies == Spec => []NoFrozenDependency
<1>1. ASSUME IInv,
             NEW p \in program.pages \ committed, program.stop[p] = L,
             NEW q \in program.pages \ committed,
             \A r \in program.pages \ committed : order[q] <= order[r]
      PROVE  program.launch[q] <= L
  <2>1. /\ program.launch[q] \in Nat /\ program.stop[q] \in Nat /\ L \in Nat
        /\ order[p] \in Nat /\ order[q] \in Nat
    BY <1>1 DEF IInv, TypeOK, ProgramType
  <2>2. program.launch[q] <= program.stop[q]
    BY <1>1 DEF IInv, Valid, BarriersValid
  <2>3. CASE order[q] < order[p]
    BY <1>1, <2>1, <2>2, <2>3 DEF IInv, IsTransportOrder
  <2>4. CASE order[q] = order[p]
    <3>1. q = p
      BY <1>1, <2>4 DEF IInv, IsTransportOrder
    <3>2. QED BY <1>1, <2>1, <2>2, <3>1
  <2>5. order[q] <= order[p]
    BY <1>1
  <2>6. QED BY <2>1, <2>3, <2>4, <2>5
<1>2. IInv => NoFrozenDependency
  BY <1>1 DEF NoFrozenDependency
<1>3. QED BY <1>2, Invariant, PTL

(***************************************************************************)
(* A timed program starts only with its dependencies met.                  *)
(***************************************************************************)
THEOREM StartsInOrder == Spec => []StartsWithDependencies
<1>1. IInv => StartsWithDependencies
  BY DEF IInv
<1>2. QED BY <1>1, Invariant, PTL

-----------------------------------------------------------------------------
(* What a step that dispatches a logical cycle sees.                       *)

\* Only a physical cycle moves L forward, and then every page that
\* computation may read at L is complete before and after it.
LEMMA LivePagesComplete ==
  ASSUME IInv, NEW arrived \in SUBSET PossibleArrivals,
         NEW drains \in BOOLEAN, NEW loads \in BOOLEAN, Tick(arrived, drains, loads),
         L' = L + 1, NEW p \in program.pages, Live(p)
  PROVE  p \in co1
<1>1. L \in Nat /\ program.stop[p] \in Nat /\ program.ready[p] \in Nat
  BY DEF IInv, TypeOK, ProgramType
<1>2. program.stop[p] <= L
  BY <1>1 DEF IInv, Valid, BarriersValid, Live
<1>3. CASE program.stop[p] < L
  BY <1>3, FlagsBeforeTick DEF IInv
<1>4. CASE program.stop[p] = L
  <2>1. BarrierOpen(completions \cup Completions(co1))
    BY <1>1 DEF Tick, co1
  <2>2. <<generation, p>> \in completions \cup ({generation} \X co1)
    BY <1>4, <2>1 DEF BarrierOpen, Completions
  <2>3. QED BY <2>2, FlagsBeforeTick DEF IInv, CompletionsExact
<1>5. QED BY <1>1, <1>2, <1>3, <1>4

\* A complete page whose rows may not be reused yet is intact in SRAM.
LEMMA CompletePagesHold ==
  ASSUME TypeOK, RowsKept, NEW p \in program.pages, AllVectors(p, vectors),
         \A q \in launched : ~(program.release[p] <= program.launch[q])
  PROVE  Holds(p)
BY DEF RowsKept, Holds, AllVectors

(***************************************************************************)
(* On every dispatched cycle all live pages are intact in SRAM.            *)
(***************************************************************************)
THEOREM ReadsAreSafe == Spec => ReadsSeeTheirPage
<1> DEFINE Safe == Dispatch => \A p \in program.pages :
                       Live(p) => Holds(p) /\ Holds(p)'
<1>1. ASSUME IInv, IInv', [Next]_vars PROVE [Safe]_vars
  <2>1. CASE UploadInputs \/ StartDependencyMet
    BY <1>1, <2>1 DEF UploadInputs, StartDependencyMet, Dispatch, IInv, TypeOK
  <2>2. ASSUME NEW prog \in Programs, NEW isTimed \in BOOLEAN, Load(prog, isTimed)
        PROVE  Safe
    BY <1>1, <2>2 DEF Load, Dispatch, IInv, TypeOK
  <2>3. CASE StepPhysical
    <3> SUFFICES ASSUME NEW arrived \in SUBSET PossibleArrivals,
                        NEW drains \in BOOLEAN, NEW loads \in BOOLEAN,
                        Tick(arrived, drains, loads),
                        L' = L + 1, NEW p \in program.pages, Live(p)
                 PROVE  Holds(p) /\ Holds(p)'
      BY <2>3 DEF StepPhysical, Dispatch
    <3>1. p \in co1
      BY <1>1, LivePagesComplete
    <3>2. program.release[p] \in Nat /\ L \in Nat /\ L < program.release[p]
      BY <1>1 DEF IInv, TypeOK, ProgramType, Live
    <3>3. AllVectors(p, vectors)
      BY <1>1, <3>1, FlagsBeforeTick DEF FlagsOK
    <3>4. ASSUME NEW q \in launched' PROVE ~(program.release[p] <= program.launch[q])
      <4>1. /\ FlagsOK(L, launched', committed', vectors')
            /\ launched' \in SUBSET program.pages
        BY <1>1, TickFlags
      <4>2. program.launch[q] <= L /\ program.launch[q] \in Nat
        BY <1>1, <4>1 DEF FlagsOK, IInv, TypeOK, ProgramType
      <4>3. QED BY <3>2, <4>2
    <3>5. Holds(p)
      <4>1. \A q \in launched : ~(program.release[p] <= program.launch[q])
        BY <1>1, <3>4, FlagsBeforeTick, TickFlags
      <4>2. QED BY <1>1, <3>3, <4>1, CompletePagesHold DEF IInv
    <3>6. Holds(p)'
      <4>1. program' = program
        BY DEF Tick
      <4>2. AllVectors(p, vectors)'
        <5>1. p \in committed'
          BY <1>1, <3>1, TickFlags
        <5>2. QED BY <1>1, <5>1 DEF IInv, FlagsOK
      <4>3. /\ RowsKept'
            /\ \A q \in launched' : ~(program'.release[p] <= program'.launch[q])
        BY <1>1, <3>4, <4>1 DEF IInv
      <4>4. QED BY <4>1, <4>2, <4>3 DEF RowsKept, Holds, AllVectors
    <3>7. QED BY <3>5, <3>6
  <2>4. CASE UNCHANGED vars
    BY <2>4
  <2>5. QED BY <1>1, <2>1, <2>2, <2>3, <2>4 DEF Next
<1>2. QED
  BY <1>1, Invariant, PTL DEF Spec, ReadsSeeTheirPage

-----------------------------------------------------------------------------
(* Transports never wait for each other.                                   *)

\* A queue whose neighbours are in transport order is in transport order.
LEMMA QueueInOrder ==
  ASSUME NEW rank, NEW s \in Seq(PageIds),
         \A i \in DOMAIN s : rank[s[i]] \in Nat,
         \A i \in 1 .. Len(s) - 1 : rank[s[i]] < rank[s[i + 1]],
         NEW a \in DOMAIN s, NEW c \in DOMAIN s, a < c
  PROVE  rank[s[a]] < rank[s[c]]
<1> DEFINE Bad == {j \in 1 .. Len(s) : \E i \in 1 .. Len(s) :
                       i < j /\ ~(rank[s[i]] < rank[s[j]])}
<1>1. DOMAIN s = 1 .. Len(s) /\ Len(s) \in Nat
  OBVIOUS
<1>2. SUFFICES ASSUME Bad # {} PROVE FALSE
  BY <1>1
<1>3. PICK j \in Bad : \A k \in Bad : j <= k
  <2>1. Bad \in SUBSET (0 .. Len(s))
    BY <1>1
  <2> HIDE DEF Bad
  <2>2. QED BY <1>1, <1>2, <2>1, LeastNatural
<1>4. PICK i \in 1 .. Len(s) : i < j /\ ~(rank[s[i]] < rank[s[j]])
  BY <1>3
<1>5. /\ j - 1 \in 1 .. Len(s) - 1 /\ j - 1 \in DOMAIN s /\ j \in DOMAIN s /\ i \in DOMAIN s
      /\ j - 1 < j /\ (j - 1) + 1 = j
  BY <1>1, <1>3, <1>4
<1>6. rank[s[j - 1]] < rank[s[j]]
  BY <1>5
<1>7. i < j - 1
  BY <1>1, <1>3, <1>4, <1>6
<1>8. j - 1 \notin Bad
  BY <1>1, <1>3
<1>9. rank[s[i]] < rank[s[j - 1]]
  BY <1>1, <1>4, <1>5, <1>7, <1>8
<1>10. rank[s[i]] \in Nat /\ rank[s[j - 1]] \in Nat /\ rank[s[j]] \in Nat
  BY <1>5
<1>11. QED BY <1>4, <1>6, <1>9, <1>10

\* Each queue that serves pages without repetition serves them in transport
\* order, because its neighbours are predecessors.
LEMMA ServedInOrder ==
  ASSUME TypeOK, IsTransportOrder(program, order),
         NEW s \in Seq(PageIds),
         \A i \in DOMAIN s : s[i] \in program.pages,
         \A i, j \in DOMAIN s : s[i] = s[j] => i = j,
         \A p, q : p # q /\ Adjacent(s, p, q) => Predecessor(program, p, q),
         NEW p \in program.pages, NEW q \in Ahead(s, p)
  PROVE  q \in program.pages /\ order[q] < order[p]
<1>1. DOMAIN s = 1 .. Len(s) /\ Len(s) \in Nat
  OBVIOUS
<1>2. PICK i \in DOMAIN s : q = s[i] /\ \E j \in DOMAIN s : i < j /\ s[j] = p
  BY DEF Ahead
<1>3. PICK j \in DOMAIN s : i < j /\ s[j] = p
  BY <1>2
<1>4. \A k \in DOMAIN s : order[s[k]] \in Nat
  BY DEF TypeOK
<1>5. ASSUME NEW k \in 1 .. Len(s) - 1
      PROVE  order[s[k]] < order[s[k + 1]]
  <2>1. k \in DOMAIN s /\ k + 1 \in DOMAIN s /\ k # k + 1
    BY <1>1
  <2>2. s[k] # s[k + 1]
    BY <2>1
  <2>3. Predecessor(program, s[k], s[k + 1])
    BY <2>2 DEF Adjacent
  <2>4. s[k] \in PickedBefore(program, order, s[k + 1])
    BY <2>1, <2>3 DEF IsTransportOrder, ReadyAfter
  <2>5. QED BY <2>4 DEF PickedBefore
<1>6. order[s[i]] < order[s[j]]
  BY <1>3, <1>4, <1>5, QueueInOrder
<1>7. QED BY <1>2, <1>3, <1>6

\* The loaded program is always one of the given ones.
LEMMA ReachablePrograms == Spec => [](program \in Programs \cup {EmptyProgram})
<1>1. Init => program \in Programs \cup {EmptyProgram}
  BY DEF Init
<1>2. program \in Programs \cup {EmptyProgram} /\ [Next]_vars
        => (program \in Programs \cup {EmptyProgram})'
  BY DEF Next, Load, UploadInputs, StartDependencyMet, StepPhysical, Tick, vars
<1>3. QED BY <1>1, <1>2, PTL DEF Spec

(***************************************************************************)
(* If no program has a launch WAIT on a side where its page has no         *)
(* segment, a launched page is never blocked behind another page.          *)
(***************************************************************************)
THEOREM LaunchedPagesArrive ==
  ASSUME \A prog \in Programs : NoEmptyWait(prog)
  PROVE  Spec => []LaunchedCanArrive
<1>1. ASSUME IInv, program \in Programs \cup {EmptyProgram}
      PROVE  LaunchedCanArrive
  <2>1. /\ TypeOK /\ ControlLinked(program) /\ PacketsLinked(program)
        /\ IsTransportOrder(program, order)
        /\ FlagsOK(L, launched, committed, vectors)
        /\ program \in ProgramType
        /\ launched \in SUBSET program.pages
    BY <1>1 DEF IInv, Valid, TypeOK
  <2>2. NoEmptyWait(program)
    <3>1. CASE program \in Programs
      BY <3>1
    <3>2. CASE program = EmptyProgram
      <4>1. \A c \in Channels : program.control[c] = << >>
        BY <3>2 DEF EmptyProgram
      <4>2. QED BY <4>1 DEF NoEmptyWait
    <3>3. QED BY <1>1, <3>1, <3>2
  <2> SUFFICES ASSUME NEW p \in InFlight, NEW b \in Banks,
                      vectors[p][b] < program.count[p][b]
               PROVE  CanArrive(p, b, launched, vectors)
    BY DEF LaunchedCanArrive
  <2>3. p \in program.pages /\ p \in launched
    BY <2>1 DEF InFlight
  <2>4. ASSUME NEW q \in program.pages, order[q] < order[p]
        PROVE  q \in launched /\ AllVectors(q, vectors)
    BY <2>1, <2>3, <2>4 DEF FlagsOK
  <2>5. ASSUME NEW k \in Kinds, NEW q \in Ahead(program.control[<<SideOf[b], k>>], p)
        PROVE  DoneOnSide(q, SideOf[b], launched, vectors)
    <3> DEFINE c == <<SideOf[b], k>>
               s == program.control[c]
    <3>1. c \in Channels /\ c[1] = SideOf[b] /\ s \in Seq(PageIds)
      BY <2>1, SidesAssumption DEF ProgramType
    <3>2. /\ \A i \in DOMAIN s : s[i] \in program.pages
          /\ \A i, j \in DOMAIN s : s[i] = s[j] => i = j
          /\ \A x, y : x # y /\ Adjacent(s, x, y) => Predecessor(program, x, y)
      BY <2>1, <3>1 DEF ControlLinked, Predecessor
    <3>3. q \in program.pages /\ order[q] < order[p]
      <4>1. q \in Ahead(s, p)
        BY <2>5
      <4> HIDE DEF s
      <4>2. QED BY ONLY <2>1, <2>3, <3>1, <3>2, <4>1, ServedInOrder
    <3>4. Uses(program, q, SideOf[b])
      BY <2>2, <2>5, <3>1 DEF NoEmptyWait, Ahead
    <3>5. q \in launched /\ AllVectors(q, vectors)
      BY <2>4, <3>3
    <3>6. QED BY <3>4, <3>5 DEF DoneOnSide, AllVectors
  <2>6. ASSUME NEW q \in Ahead(program.mem[b], p)
        PROVE  vectors[q][b] = program.count[q][b]
    <3> DEFINE s == program.mem[b]
    <3>1. s \in Seq(PageIds)
      BY <2>1 DEF ProgramType
    <3>2. /\ \A i \in DOMAIN s : s[i] \in program.pages
          /\ \A i, j \in DOMAIN s : s[i] = s[j] => i = j
          /\ \A x, y : x # y /\ Adjacent(s, x, y) => Predecessor(program, x, y)
      BY <2>1 DEF PacketsLinked, Predecessor
    <3>3. q \in program.pages /\ order[q] < order[p]
      <4>1. q \in Ahead(s, p)
        BY <2>6
      <4> HIDE DEF s
      <4>2. QED BY ONLY <2>1, <2>3, <3>1, <3>2, <4>1, ServedInOrder
    <3>4. QED BY <2>4, <3>3 DEF AllVectors
  <2>7. QED BY <2>3, <2>5, <2>6 DEF CanArrive
<1>2. QED
  BY <1>1, Invariant, ReachablePrograms, PTL

-----------------------------------------------------------------------------
(* Refinement.                                                             *)

\* A committed page that is still to be read stays resident over a cycle.
LEMMA ResidentKept ==
  ASSUME IInv, NEW arrived \in SUBSET PossibleArrivals,
         NEW drains \in BOOLEAN, NEW loads \in BOOLEAN, Tick(arrived, drains, loads),
         NEW p \in program.pages, Live(p), p \in committed'
  PROVE  p \in Resident'
<1>1. program' = program /\ order' = order
  BY DEF Tick
<1>2. /\ FlagsOK(L, launched', committed', vectors')
      /\ launched' \in SUBSET program.pages
  BY TickFlags
<1>3. /\ TypeOK /\ BarriersValid(program) /\ StorageReuseSafe(program)
      /\ IsTransportOrder(program, order)
      /\ \A x \in program.pages : program.ready[x] < program.release[x]
  BY DEF IInv, Valid
<1>4. ASSUME NEW q \in launched', Overlap(program, p, q)
      PROVE  order[q] <= order[p]
  <2>1. q \in program.pages /\ program.launch[q] <= L
    BY <1>2 DEF FlagsOK
  <2>2. order[p] \in Nat /\ order[q] \in Nat
    BY <1>3, <2>1 DEF TypeOK
  <2>3. CASE p = q
    BY <2>2, <2>3
  <2>4. CASE p # q
    <3>1. \/ program.release[p] <= program.launch[q]
          \/ program.release[q] <= program.launch[p]
      BY <1>3, <1>4, <2>1, <2>4, ReuseSafe DEF Overlap
    <3>2. ~(program.release[p] <= program.launch[q])
      BY <1>3, <2>1 DEF TypeOK, ProgramType, Live
    <3>3. order[q] < order[p]
      BY <1>3, <2>1, <3>1, <3>2, ReuseFollowsOrder
    <3>4. QED BY <2>2, <3>3
  <2>5. QED BY <2>3, <2>4
<1>5. QED BY <1>1, <1>4 DEF Resident

(***************************************************************************)
(* The paging runtime implements paged execution: pages become resident as *)
(* a whole, and a cycle is executed only with all its pages resident.      *)
(***************************************************************************)
THEOREM PagingImplemented == Spec => ImplementsPagedExecution
<1>1. Init => Pager!Init
  BY EmptyProgramType DEF Init, Pager!Init, Schedule, Resident, EmptyProgram
<1>2. ASSUME IInv, IInv', [Next]_vars PROVE [Pager!Next]_(Pager!vars)
  <2>1. Resident \subseteq program.pages /\ Resident' \subseteq program'.pages
    BY <1>2 DEF Resident, IInv, TypeOK
  <2>2. ASSUME NEW prog \in Programs, NEW isTimed \in BOOLEAN, Load(prog, isTimed)
        PROVE  Pager!Begin
    <3>1. generation' = generation + 1 /\ L' = 0
      BY <2>2 DEF Load
    <3>2. program'.pages \in SUBSET PageIds
      BY <1>2 DEF IInv, TypeOK, ProgramType
    <3>3. Schedule' \in [ready : [PageIds -> Nat], release : [PageIds -> Nat]]
      BY <1>2 DEF IInv, TypeOK, ProgramType, Schedule
    <3>4. Resident' = {}
      BY <2>2 DEF Load, Resident
    <3>5. QED BY <3>1, <3>2, <3>3, <3>4 DEF Pager!Begin
  <2>3. CASE UploadInputs \/ StartDependencyMet \/ UNCHANGED vars
    <3>1. UNCHANGED <<generation, program, L>> /\ Resident' = Resident
      BY <2>3 DEF UploadInputs, StartDependencyMet, vars, pageVars, startVars, Resident
    <3>2. QED BY <3>1 DEF Pager!vars, Schedule
  <2>4. CASE StepPhysical
    <3> SUFFICES ASSUME NEW arrived \in SUBSET PossibleArrivals,
                        NEW drains \in BOOLEAN, NEW loads \in BOOLEAN,
                        Tick(arrived, drains, loads)
                 PROVE  Pager!Next
      BY <2>4 DEF StepPhysical
    <3>1. UNCHANGED <<generation, program>>
      BY DEF Tick
    <3>2. committed \subseteq committed' /\ co1 \subseteq committed'
      BY <1>2, FlagsBeforeTick, TickFlags
    <3>3. ASSUME NEW p \in Pager!Needed(L), p \in committed'
          PROVE  p \in Resident'
      <4>1. p \in program.pages /\ Live(p)
        BY DEF Pager!Needed, Schedule, Live
      <4>2. QED BY <1>2, <3>3, <4>1, ResidentKept
    <3>4. CASE L' = L
      <4>1. Resident \subseteq committed'
        BY <3>2 DEF Resident
      <4>2. Resident \cap Pager!Needed(L) \subseteq Resident'
        BY <3>3, <4>1
      <4>3. QED BY <2>1, <3>1, <3>4, <4>2 DEF Pager!Exchange, Pager!Next, Schedule
    <3>5. CASE L' = L + 1
      <4>1. ASSUME NEW p \in Pager!Needed(L) PROVE p \in committed'
        <5>1. p \in program.pages /\ Live(p)
          BY DEF Pager!Needed, Schedule, Live
        <5>2. QED BY <1>2, <3>2, <3>5, <5>1, LivePagesComplete
      <4>2. Pager!Needed(L) \subseteq Resident'
        BY <3>3, <4>1
      <4>3. QED BY <2>1, <3>1, <3>5, <4>2 DEF Pager!Execute, Pager!Next, Schedule
    <3>6. L' = L \/ L' = L + 1
      BY DEF Tick
    <3>7. QED BY <3>4, <3>5, <3>6
  <2>5. QED BY <1>2, <2>2, <2>3, <2>4 DEF Next, Pager!Next
<1>3. QED
  BY <1>1, <1>2, Invariant, PTL DEF Spec, Pager!Spec, ImplementsPagedExecution
=============================================================================
