------------------------- MODULE QueueControlProofs -------------------------
(***************************************************************************)
(* Proofs about QueueControl for every set of programs, queues, pages and  *)
(* events.                                                                 *)
(***************************************************************************)
EXTENDS QueueControl, BoundedNumbers

-----------------------------------------------------------------------------
(* Facts about linked programs.                                            *)

\* Releases belong to queues, their offsets are numbers up to MaxOffset.
LEMMA OffsetType ==
  ASSUME NEW prog \in ProgramType, NEW e \in PageEvents
  PROVE  /\ Participants(prog, e) \subseteq Queues
         /\ \A q \in Participants(prog, e) : prog.offset[e][q] \in 0 .. MaxOffset
<1>1. prog.offset[e] \in UNION {[S -> 0 .. MaxOffset] : S \in SUBSET Queues}
  BY DEF ProgramType
<1>2. PICK S \in SUBSET Queues : prog.offset[e] \in [S -> 0 .. MaxOffset]
  BY <1>1
<1>3. QED BY <1>2 DEF Participants

\* The launch order is total.
LEMMA LaunchOrderTotal ==
  ASSUME NEW prog \in ProgramType, NEW p \in PageIds, NEW q \in PageIds, p # q
  PROVE  LaunchBefore(prog, p, q) \/ LaunchBefore(prog, q, p)
<1>1. prog.start[p] \in 0 .. Horizon /\ prog.start[q] \in 0 .. Horizon
  BY DEF ProgramType
<1>2. QED BY <1>1, NumbersAssumption DEF LaunchBefore

\* A phase of an event with releases left has a release, and all releases of
\* the phase share an offset that no pending release undercuts.
LEMMA PhaseOffset ==
  ASSUME TypeOK, NEW e \in PageEvents, Pending(e) # {}
  PROVE  \E k \in 0 .. MaxOffset :
             /\ \A q \in Phase(e) : program.offset[e][q] = k
             /\ \E q \in Phase(e) : TRUE
             /\ \A q \in Pending(e) \ Phase(e) : program.offset[e][q] > k
<1> DEFINE offset(q) == program.offset[e][q]
           Offsets == {offset(q) : q \in Pending(e)}
<1>1. program \in ProgramType /\ MaxOffset \in Nat
  BY ProgramsAssumption, NumbersAssumption DEF TypeOK
<1>2. Pending(e) \subseteq Participants(program, e)
  BY DEF Pending
<1>3. \A q \in Pending(e) : offset(q) \in 0 .. MaxOffset
  BY <1>1, <1>2, OffsetType
<1>4. PICK k \in Offsets : \A l \in Offsets : k <= l
  <2>1. Offsets \in SUBSET (0 .. MaxOffset) /\ Offsets # {}
    BY <1>3
  <2> HIDE DEF Offsets
  <2>2. QED BY <1>1, <2>1, LeastNatural
<1>5. PICK q \in Pending(e) : offset(q) = k
  BY <1>4
<1>6. k \in 0 .. MaxOffset /\ \A r \in Pending(e) : k <= offset(r)
  BY <1>3, <1>4, <1>5
<1>7. q \in Phase(e)
  BY <1>5, <1>6 DEF Phase
<1>8. \A r \in Phase(e) : offset(r) = k
  BY <1>3, <1>5, <1>6 DEF Phase
<1>9. \A r \in Pending(e) \ Phase(e) : offset(r) > k
  BY <1>3, <1>6 DEF Phase
<1>10. QED BY <1>6, <1>7, <1>8, <1>9

-----------------------------------------------------------------------------
(* Type correctness.                                                       *)

\* The first state has its types.
LEMMA InitType == Init => TypeOK
BY NumbersAssumption DEF Init, TypeOK, NoOrigin, MaxAge

\* The age of an event stays within its bound.
LEMMA AgeType ==
  ASSUME TypeOK, NEW events,
         \A e \in PageEvents : e \in events => Pending(e) # {}
  PROVE  AgeAfter(events) \in [PageEvents -> {NoOrigin} \cup 0 .. MaxAge]
<1> SUFFICES ASSUME NEW e \in PageEvents
             PROVE  AgeAfter(events)[e] \in {NoOrigin} \cup 0 .. MaxAge
  BY DEF AgeAfter
<1>1. CASE e \in events /\ age[e] = NoOrigin
  <2>1. AgeAfter(events)[e]
          = CHOOSE k \in 0 .. MaxOffset : \A q \in Phase(e) : program.offset[e][q] = k
    BY <1>1 DEF AgeAfter
  <2>2. \E k \in 0 .. MaxOffset : \A q \in Phase(e) : program.offset[e][q] = k
    BY <1>1, PhaseOffset
  <2>3. AgeAfter(events)[e] \in 0 .. MaxOffset
    BY <2>1, <2>2
  <2>4. QED BY <2>3, NumbersAssumption DEF MaxAge
<1>2. CASE ~(e \in events /\ age[e] = NoOrigin)
  <2>1. AgeAfter(events)[e] = Older(age[e])
    BY <1>2 DEF AgeAfter
  <2>2. age[e] \in {NoOrigin} \cup 0 .. MaxAge
    BY DEF TypeOK
  <2>3. QED BY <2>1, <2>2, NumbersAssumption DEF Older, MaxAge
<1>3. QED BY <1>1, <1>2

\* A physical cycle keeps the types.
LEMMA StepType ==
  ASSUME TypeOK, NEW moves, NEW lands, Step(moves, lands)
  PROVE  TypeOK'
<1> DEFINE now == EventsToRelease(committed', PcAfter(moves), TokensAfter(moves))
<1>1. age' = AgeAfter(now)
  BY DEF Step
<1>2. \A e \in PageEvents : e \in now => Pending(e) # {}
  BY DEF EventsToRelease, Releasable
<1>3. age' \in [PageEvents -> {NoOrigin} \cup 0 .. MaxAge]
  <2> HIDE DEF now
  <2>1. QED BY <1>1, <1>2, AgeType
<1>4. pc' \in [Queues -> Nat \ {0}]
  BY DEF Step, PcAfter, TypeOK
<1>5. L' \in 0 .. Horizon
  BY NumbersAssumption DEF Step, TypeOK
<1>6. landed' \in [PageIds -> SUBSET MemQueues] /\ signals' \subseteq Signals
  BY DEF Step, LandedAfter, SignalsAfter
<1>7. launched' \subseteq PageIds /\ committed' \subseteq PageIds
  BY DEF Step, Launches, Commits
<1>8. tokens' \in [PageEvents -> SUBSET Queues] /\ released' \in [PageEvents -> SUBSET Queues]
  BY DEF Step, WithPhase
<1>9. program' \in Programs
  BY DEF Step, TypeOK
<1>10. QED
  BY <1>3, <1>4, <1>5, <1>6, <1>7, <1>8, <1>9 DEF TypeOK, NoOrigin, MaxAge

(***************************************************************************)
(* Every variable keeps its type: in particular the ages stay within their *)
(* bound and only queues are given tokens.                                 *)
(***************************************************************************)
THEOREM TypeCorrect == Spec => []TypeOK
<1>1. TypeOK /\ [Next]_vars => TypeOK'
  <2> SUFFICES ASSUME TypeOK, [Next]_vars PROVE TypeOK'
    OBVIOUS
  <2>1. CASE Next
    BY <2>1, StepType DEF Next
  <2>2. CASE UNCHANGED vars
    BY <2>2 DEF vars, TypeOK
  <2>3. QED BY <2>1, <2>2
<1>2. QED BY <1>1, InitType, PTL DEF Spec

-----------------------------------------------------------------------------
(* The inductive invariant.                                                *)

\* The invariant holds when a program starts.
LEMMA InitInvariant == Init => IInv
<1> SUFFICES ASSUME Init PROVE IInv
  OBVIOUS
<1>1. TypeOK
  BY InitType
<1>2. NoLatchedToken /\ LaunchedInOrder /\ CommittedComplete /\ StartupStands
  BY DEF Init, NoLatchedToken, LaunchedInOrder, CommittedComplete, StartupStands
<1>3. ReleasedCommitted /\ LandedIssued
  BY DEF Init, ReleasedCommitted, LandedIssued
<1>4. PassedReleased
  BY DEF Init, PassedReleased, Passed
<1>5. QED BY <1>1, <1>2, <1>3, <1>4 DEF IInv

\* What is in SRAM stays there, so a complete page stays complete.
LEMMA CompleteStays ==
  ASSUME TypeOK, NEW lands, NEW p \in PageIds, AllVectorsIn(p, landed)
  PROVE  AllVectorsIn(p, LandedAfter(lands))
BY DEF AllVectorsIn, LandedAfter, TypeOK

\* The queues that step for a token are the only ones that pass a WAIT, and a
\* queue at a WAIT without a token stays.
LEMMA WaitersMove ==
  ASSUME NEW q \in Queues, NEW e \in PageEvents, AtWait(q, e)
  PROVE  CanMove(q) <=> q \in tokens[e]
<1>1. /\ ~Done(q) /\ Current(q).op = "wait" /\ Current(q).id = e
  BY DEF AtWait, IsWait
<1>2. CanMove(q) <=> HasToken(q)
  BY <1>1 DEF CanMove
<1>3. \A f \in PageEvents : AtWait(q, f) => f = e
  BY <1>1 DEF AtWait, IsWait
<1>4. QED BY <1>2, <1>3 DEF HasToken

\* A token lives for one cycle.
LEMMA TokensConsumed ==
  ASSUME IInv, NEW moves \in Moves
  PROVE  \A e \in PageEvents : TokensAfter(moves)[e] = {}
<1> SUFFICES ASSUME NEW e \in PageEvents, NEW q \in Queues, q \in tokens[e]
             PROVE  q \in moves /\ AtWait(q, e)
  BY DEF TokensAfter
<1>1. AtWait(q, e)
  BY DEF IInv, NoLatchedToken
<1>2. q \in MustMove
  BY <1>1 DEF MustMove, HasToken
<1>3. QED BY <1>1, <1>2 DEF Moves

\* Tokens are given only to queues that stand at their WAIT.
LEMMA StepNoLatchedToken ==
  ASSUME IInv, NEW moves \in Moves, NEW lands, Step(moves, lands)
  PROVE  NoLatchedToken'
<1> SUFFICES ASSUME NEW e \in PageEvents, NEW q \in tokens'[e]
             PROVE  AtWait(q, e)'
  BY DEF NoLatchedToken
<1> DEFINE now == EventsToRelease(committed', pc', TokensAfter(moves))
<1>1. q \in Queues /\ e \in now /\ q \in Phase(e)
  BY TokensConsumed DEF Step, WithPhase
<1>2. BlockedAfter(q, e, pc', TokensAfter(moves))
  BY <1>1 DEF EventsToRelease, Releasable
<1>3. program' = program /\ pc'[q] \in Nat /\ Len(program.code[q]) \in Nat
  BY <1>1, StepType, ProgramsAssumption DEF Step, IInv, TypeOK, ProgramType
<1>4. QED BY <1>2, <1>3 DEF BlockedAfter, AtWait, Done, Current

\* A launched page stands behind complete ones.
LEMMA StepLaunchedInOrder ==
  ASSUME IInv, NEW moves, NEW lands, Step(moves, lands)
  PROVE  LaunchedInOrder'
<1>1. /\ program' = program /\ landed' = LandedAfter(lands)
      /\ launched' = Launches(landed') /\ TypeOK /\ LaunchedInOrder
  BY DEF Step, IInv
<1> SUFFICES ASSUME NEW p \in launched', NEW q \in PageIds, LaunchBefore(program, q, p)
             PROVE  q \in launched' /\ AllVectorsIn(q, landed')
  BY <1>1 DEF LaunchedInOrder, AllVectorsIn
<1>2. q \in launched => q \in launched'
  BY <1>1 DEF Launches
<1>3. CASE p \in launched
  <2>1. q \in launched /\ AllVectorsIn(q, landed)
    BY <1>1, <1>3 DEF LaunchedInOrder
  <2>2. QED BY <1>1, <1>2, <2>1, CompleteStays
<1>4. CASE p \notin launched
  BY <1>1, <1>2, <1>4 DEF Launches
<1>5. QED BY <1>3, <1>4

\* Nothing lands that has not been issued, and what is issued stays so.
LEMMA StepLandedIssued ==
  ASSUME IInv, NEW moves, NEW lands \in SUBSET Landing, Step(moves, lands)
  PROVE  LandedIssued'
<1>1. /\ program' = program /\ landed' = LandedAfter(lands) /\ pc' = PcAfter(moves)
      /\ TypeOK /\ LandedIssued
  BY DEF Step, IInv
<1> SUFFICES ASSUME NEW p \in PageIds, NEW m \in landed'[p]
             PROVE  Issued(p, m)'
  BY DEF LandedIssued
<1>2. m \in MemQueues /\ (m \in landed[p] \/ <<p, m>> \in lands)
  BY <1>1 DEF LandedAfter
<1>3. Issued(p, m)
  <2>1. CASE m \in landed[p]
    BY <1>1, <2>1 DEF LandedIssued
  <2>2. CASE <<p, m>> \in lands
    BY <2>2 DEF Landing
  <2>3. QED BY <1>2, <2>1, <2>2
<1>4. PICK i \in DOMAIN program.code[m] : i < pc[m] /\ IsPacket(program.code[m][i], p)
  BY <1>3 DEF Issued
<1>5. i \in Nat /\ pc[m] \in Nat
  <2>1. program.code[m] \in Seq(Controls) /\ m \in Queues
    BY <1>1, <1>2, QueuesAssumption, ProgramsAssumption DEF TypeOK, ProgramType
  <2>2. QED BY <1>1, <1>4, <2>1 DEF TypeOK
<1>6. i < pc'[m]
  <2>1. m \in Queues
    BY <1>2, QueuesAssumption
  <2>2. QED BY <1>1, <1>4, <1>5, <2>1 DEF PcAfter
<1>7. QED BY <1>1, <1>4, <1>6 DEF Issued

\* Only complete pages are committed.
LEMMA StepCommittedComplete ==
  ASSUME IInv, NEW moves, NEW lands, Step(moves, lands)
  PROVE  CommittedComplete'
<1>1. /\ program' = program /\ landed' = LandedAfter(lands)
      /\ committed' = Commits(landed') /\ TypeOK /\ CommittedComplete
  BY DEF Step, IInv
<1> SUFFICES ASSUME NEW p \in committed' PROVE AllVectorsIn(p, landed')
  BY <1>1 DEF CommittedComplete, AllVectorsIn
<1>2. p \in PageIds /\ (p \in committed \/ AllVectorsIn(p, landed'))
  BY <1>1 DEF Commits
<1>3. p \in committed => AllVectorsIn(p, landed)
  BY <1>1 DEF CommittedComplete
<1>4. QED BY <1>1, <1>2, <1>3, CompleteStays

\* A WAIT is passed only after its release.
LEMMA StepPassedReleased ==
  ASSUME IInv, NEW moves \in Moves, NEW lands, Step(moves, lands)
  PROVE  PassedReleased'
<1> SUFFICES ASSUME NEW q \in Queues, NEW e \in PageEvents, Passed(q, e)'
             PROVE  q \in released'[e]
  BY DEF PassedReleased
<1>1. /\ program' = program /\ pc' = PcAfter(moves) /\ TypeOK /\ pc[q] \in Nat \ {0}
      /\ q \in released[e] => q \in released'[e]
  BY DEF Step, IInv, TypeOK, WithPhase
<1>2. PICK i \in 1 .. pc'[q] - 1 : i <= Len(program.code[q]) /\ IsWait(program.code[q][i], e)
  BY <1>1 DEF Passed
<1>3. CASE i < pc[q]
  <2>1. i \in 1 .. pc[q] - 1
    BY <1>1, <1>2, <1>3 DEF PcAfter
  <2>2. Passed(q, e)
    BY <1>2, <2>1 DEF Passed
  <2>3. QED BY <1>1, <2>2 DEF IInv, PassedReleased
<1>4. CASE ~(i < pc[q])
  <2>1. q \in moves /\ i = pc[q]
    BY <1>1, <1>2, <1>4 DEF PcAfter
  <2>2. CanMove(q)
    BY <2>1 DEF Moves, Movers
  <2>3. AtWait(q, e)
    BY <1>2, <2>1, <2>2 DEF AtWait, Current, CanMove
  <2>4. q \in tokens[e]
    BY <2>2, <2>3, WaitersMove
  <2>5. QED BY <1>1, <2>4 DEF IInv, ReleasedCommitted
<1>5. QED BY <1>3, <1>4

\* Releases only grow, and only by the phases of the events released now.
LEMMA StepReleasedCommitted ==
  ASSUME IInv, NEW moves \in Moves, NEW lands, Step(moves, lands)
  PROVE  ReleasedCommitted'
<1> DEFINE now == EventsToRelease(committed', pc', TokensAfter(moves))
<1>1. /\ program' = program /\ TypeOK /\ ReleasedCommitted
      /\ tokens' = WithPhase(TokensAfter(moves), now)
      /\ released' = WithPhase(released, now) /\ age' = AgeAfter(now)
      /\ committed \subseteq committed'
  BY DEF Step, IInv, Commits, TypeOK
<1>2. \A e \in PageEvents : e \in now =>
          program.members[e] \subseteq committed' /\ Pending(e) # {}
  BY DEF EventsToRelease, Releasable
<1> SUFFICES ASSUME NEW e \in PageEvents
             PROVE  /\ tokens'[e] \subseteq released'[e]
                    /\ released'[e] \subseteq Participants(program, e)
                    /\ released'[e] # {} => program.members[e] \subseteq committed'
                    /\ released'[e] # {} <=> age'[e] # NoOrigin
  BY <1>1 DEF ReleasedCommitted, Participants
<1> HIDE DEF now
<1>3. /\ tokens'[e] \subseteq released'[e]
      /\ released'[e] \subseteq Participants(program, e)
  BY <1>1, TokensConsumed DEF ReleasedCommitted, WithPhase, Phase, Pending
<1>4. CASE e \in now
  <2>1. PICK k \in 0 .. MaxOffset :
            /\ \A q \in Phase(e) : program.offset[e][q] = k
            /\ \E q \in Phase(e) : TRUE
    BY <1>1, <1>2, <1>4, PhaseOffset
  <2>2. released'[e] # {}
    BY <1>1, <1>4, <2>1 DEF WithPhase, Phase, Pending
  <2>3. age'[e] # NoOrigin
    <3>1. CASE age[e] = NoOrigin
      <4>1. age'[e] = CHOOSE l \in 0 .. MaxOffset : \A q \in Phase(e) : program.offset[e][q] = l
        BY <1>1, <1>4, <3>1 DEF AgeAfter
      <4>2. age'[e] \in 0 .. MaxOffset
        BY <2>1, <4>1
      <4>3. QED BY <4>2, NumbersAssumption DEF NoOrigin
    <3>2. CASE age[e] # NoOrigin
      <4>1. age'[e] = Older(age[e]) /\ age[e] \in {NoOrigin} \cup 0 .. MaxAge
        BY <1>1, <3>2 DEF AgeAfter, TypeOK
      <4>2. QED BY <3>2, <4>1, NumbersAssumption DEF Older, NoOrigin, MaxAge
    <3>3. QED BY <3>1, <3>2
  <2>4. QED BY <1>2, <1>3, <1>4, <2>2, <2>3
<1>5. CASE e \notin now
  <2>1. released'[e] = released[e]
    BY <1>1, <1>5 DEF WithPhase, TypeOK
  <2>2. age'[e] = Older(age[e]) /\ age[e] \in {NoOrigin} \cup 0 .. MaxAge
    BY <1>1, <1>5 DEF AgeAfter, TypeOK
  <2>3. age'[e] # NoOrigin <=> age[e] # NoOrigin
    BY <2>2, NumbersAssumption DEF Older, NoOrigin, MaxAge
  <2>4. QED BY <1>1, <1>3, <2>1, <2>3 DEF ReleasedCommitted
<1>6. QED BY <1>4, <1>5

\* A startup queue that waits for its release after the origin does not move.
LEMMA StandingStays ==
  ASSUME IInv, NEW moves \in Moves, NEW lands, Step(moves, lands),
         NEW e \in PageEvents, age[e] # NoOrigin,
         NEW q \in Pending(e), InStartup(q, e)
  PROVE  /\ AtWait(q, e)'
         /\ BlockedAfter(q, e, pc', TokensAfter(moves))
<1>1. q \in Queues /\ q \notin released[e] /\ AtWait(q, e)
  BY DEF IInv, StartupStands, Pending
<1>2. q \notin tokens[e]
  BY <1>1 DEF IInv, ReleasedCommitted
<1>3. q \notin moves
  BY <1>1, <1>2, WaitersMove DEF Moves, Movers
<1>4. /\ program' = program /\ pc'[q] = pc[q]
      /\ pc[q] \in Nat /\ Len(program.code[q]) \in Nat
  BY <1>1, <1>3, ProgramsAssumption DEF Step, PcAfter, IInv, TypeOK, ProgramType
<1>5. q \notin TokensAfter(moves)[e]
  BY TokensConsumed
<1>6. QED BY <1>1, <1>4, <1>5 DEF AtWait, Done, Current, BlockedAfter

\* With the origin set, a punctual queue is released when its phase comes.
LEMMA PunctualReleased ==
  ASSUME IInv, NEW moves \in Moves, NEW lands, Step(moves, lands),
         NEW e \in PageEvents, age[e] # NoOrigin,
         NEW q \in Pending(e), Punctual(q, e),
         program.offset[e][q] <= Older(age[e])
  PROVE  q \in released'[e]
<1>1. /\ TypeOK /\ program \in ProgramType /\ MaxOffset \in Nat
      /\ Pending(e) \subseteq Participants(program, e)
  BY ProgramsAssumption, NumbersAssumption DEF IInv, TypeOK, Pending
<1>2. \A r \in Pending(e) : program.offset[e][r] \in 0 .. MaxOffset
  BY <1>1, OffsetType
<1>3. /\ \A r \in Pending(e) : Punctual(r, e) => age[e] < program.offset[e][r]
      /\ age[e] \in 0 .. MaxAge
  BY <1>1 DEF IInv, StartupStands, TypeOK
<1>4. Older(age[e]) <= age[e] + 1
  BY <1>3, NumbersAssumption DEF Older, MaxAge, NoOrigin
<1>5. \A r \in Pending(e) : program.offset[e][q] <= program.offset[e][r]
  <2> SUFFICES ASSUME NEW r \in Pending(e),
                      ~(program.offset[e][q] <= program.offset[e][r])
               PROVE  FALSE
    OBVIOUS
  <2>1. program.offset[e][r] < program.offset[e][q]
    BY <1>2
  <2>2. Punctual(r, e)
    BY <1>1, <1>2, <2>1, OffsetType DEF Punctual
  <2>3. age[e] < program.offset[e][r]
    BY <1>3, <2>2
  <2>4. Older(age[e]) \in Int
    BY <1>3, NumbersAssumption DEF Older, MaxAge, NoOrigin
  <2>5. QED BY <1>2, <1>3, <1>4, <2>1, <2>3, <2>4
<1>6. q \in Phase(e)
  BY <1>5 DEF Phase
<1>7. ASSUME NEW r \in Phase(e)
      PROVE  /\ BlockedAfter(r, e, pc', TokensAfter(moves))
             /\ program.offset[e][r] <= Older(age[e])
  <2>1. r \in Pending(e) /\ program.offset[e][r] = program.offset[e][q]
    BY <1>2, <1>5 DEF Phase
  <2>2. InStartup(r, e)
    BY <1>1, <1>2, <2>1 DEF Punctual
  <2>3. QED BY <2>1, <2>2, StandingStays
<1>8. Older(age[e]) # NoOrigin
  BY <1>3, NumbersAssumption DEF Older, MaxAge, NoOrigin
<1>9. Releasable(e, Older(age[e]), pc', TokensAfter(moves))
  BY <1>7, <1>8 DEF Releasable
<1>10. program.members[e] \subseteq committed'
  BY <1>1 DEF IInv, ReleasedCommitted, Step, Commits, TypeOK
<1>11. e \in EventsToRelease(committed', pc', TokensAfter(moves))
  BY <1>9, <1>10 DEF EventsToRelease
<1>12. QED BY <1>6, <1>11 DEF Step, WithPhase, Phase, Pending

\* Startup queues not yet released stand with their phase ahead.
LEMMA StepStartupStands ==
  ASSUME IInv, NEW moves \in Moves, NEW lands, Step(moves, lands)
  PROVE  StartupStands'
<1> DEFINE now == EventsToRelease(committed', pc', TokensAfter(moves))
<1>1. /\ program' = program /\ TypeOK /\ program \in ProgramType
      /\ released' = WithPhase(released, now) /\ age' = AgeAfter(now)
  BY ProgramsAssumption DEF Step, IInv, TypeOK
<1> SUFFICES ASSUME NEW e \in PageEvents, age'[e] # NoOrigin, NEW q \in Pending(e)'
             PROVE  /\ InStartup(q, e) => AtWait(q, e)'
                    /\ Punctual(q, e) => age'[e] < program.offset[e][q]
  BY <1>1 DEF StartupStands, InStartup, Punctual
<1>2. /\ q \in Pending(e) /\ q \notin released'[e]
      /\ q \in Queues /\ program.offset[e][q] \in 0 .. MaxOffset
      /\ Punctual(q, e) => InStartup(q, e)
  <2>1. q \in Queues /\ q \in Participants(program, e) /\ q \notin released'[e]
    BY <1>1 DEF Pending
  <2>2. program.offset[e][q] \in 0 .. MaxOffset
    BY <1>1, <2>1, OffsetType
  <2>3. q \notin released[e]
    BY <1>1, <2>1 DEF WithPhase
  <2>4. Punctual(q, e) => InStartup(q, e)
    BY <2>1, <2>2, NumbersAssumption DEF Punctual
  <2>5. QED BY <2>1, <2>2, <2>3, <2>4 DEF Pending
<1>3. CASE age[e] = NoOrigin
  <2>1. e \in now
    BY <1>1, <1>3 DEF AgeAfter, Older
  <2>2. Releasable(e, Older(age[e]), pc', TokensAfter(moves))
    BY <2>1 DEF EventsToRelease
  <2>3. \A r \in StartupQueues(e) : BlockedAfter(r, e, pc', TokensAfter(moves))
    BY <1>3, <2>2 DEF Releasable, Older
  <2>4. ASSUME InStartup(q, e) PROVE AtWait(q, e)'
    <3>1. BlockedAfter(q, e, pc', TokensAfter(moves))
      BY <1>2, <2>3, <2>4 DEF StartupQueues, Pending
    <3>2. pc'[q] \in Nat /\ Len(program.code[q]) \in Nat
      BY <1>1, <1>2, StepType DEF TypeOK, ProgramType
    <3>3. QED BY <1>1, <3>1, <3>2 DEF BlockedAfter, AtWait, Done, Current
  <2>5. age'[e] < program.offset[e][q]
    <3>1. PICK k \in 0 .. MaxOffset :
              /\ \A r \in Phase(e) : program.offset[e][r] = k
              /\ \E r \in Phase(e) : TRUE
              /\ \A r \in Pending(e) \ Phase(e) : program.offset[e][r] > k
      BY <1>1, <1>2, PhaseOffset
    <3>2. age'[e] = CHOOSE l \in 0 .. MaxOffset : \A r \in Phase(e) : program.offset[e][r] = l
      BY <1>1, <1>3, <2>1 DEF AgeAfter
    <3>3. age'[e] = k
      BY <3>1, <3>2
    <3>4. q \notin Phase(e)
      BY <1>1, <1>2, <2>1 DEF WithPhase
    <3>5. QED BY <1>2, <3>1, <3>3, <3>4
  <2>6. QED BY <2>4, <2>5
<1>4. CASE age[e] # NoOrigin
  <2>1. InStartup(q, e) => AtWait(q, e)'
    BY <1>2, <1>4, StandingStays
  <2>2. ASSUME Punctual(q, e) PROVE age'[e] < program.offset[e][q]
    <3>1. age'[e] = Older(age[e])
      BY <1>1, <1>4 DEF AgeAfter
    <3>2. ~(program.offset[e][q] <= Older(age[e]))
      BY <1>2, <1>4, <2>2, PunctualReleased
    <3>3. Older(age[e]) \in Int
      BY <1>1, NumbersAssumption DEF TypeOK, Older, MaxAge, NoOrigin
    <3>4. QED BY <1>2, <3>1, <3>2, <3>3
  <2>3. QED BY <2>1, <2>2
<1>5. QED BY <1>3, <1>4

\* A physical cycle keeps the invariant.
LEMMA StepInvariant ==
  ASSUME IInv, NEW moves \in Moves, NEW lands \in SUBSET Landing, Step(moves, lands)
  PROVE  IInv'
<1>1. TypeOK'
  BY StepType DEF IInv
<1>2. NoLatchedToken'
  BY StepNoLatchedToken
<1>3. LaunchedInOrder'
  BY StepLaunchedInOrder
<1>4. CommittedComplete'
  BY StepCommittedComplete
<1>5. ReleasedCommitted'
  BY StepReleasedCommitted
<1>6. PassedReleased'
  BY StepPassedReleased
<1>7. StartupStands'
  BY StepStartupStands
<1>8. LandedIssued'
  BY StepLandedIssued
<1>9. QED BY <1>1, <1>2, <1>3, <1>4, <1>5, <1>6, <1>7, <1>8 DEF IInv

(***************************************************************************)
(* The invariant holds in every reachable state of every linked program.   *)
(***************************************************************************)
THEOREM Invariant == Spec => []IInv
<1>1. IInv /\ [Next]_vars => IInv'
  <2> SUFFICES ASSUME IInv, [Next]_vars PROVE IInv'
    OBVIOUS
  <2>1. CASE Next
    BY <2>1, StepInvariant DEF Next
  <2>2. CASE UNCHANGED vars
    BY <2>2 DEF vars, IInv, TypeOK, NoLatchedToken, LaunchedInOrder, CommittedComplete,
       ReleasedCommitted, PassedReleased, StartupStands, AtWait, Done, Current,
       AllVectorsIn, Passed, Pending, InStartup, Punctual, LandedIssued, Issued
  <2>3. QED BY <2>1, <2>2
<1>2. QED BY <1>1, InitInvariant, PTL DEF Spec

-----------------------------------------------------------------------------
(* Safety properties.                                                      *)

(***************************************************************************)
(* No queue passes the WAIT for an event before all pages of the event are *)
(* complete in SRAM (notify_queue_mem_commit, release_queue_phase).        *)
(***************************************************************************)
THEOREM WaitsAreSafe == Spec => []WaitsSeeCommits
<1>1. IInv => WaitsSeeCommits
  <2> SUFFICES ASSUME IInv, NEW q \in Queues, NEW e \in PageEvents, Passed(q, e),
                      NEW p \in program.members[e]
               PROVE  program.targets[p] \subseteq landed[p]
    BY DEF WaitsSeeCommits
  <2>1. q \in released[e]
    BY DEF IInv, PassedReleased
  <2>2. p \in committed
    BY <2>1 DEF IInv, ReleasedCommitted
  <2>3. QED BY <2>2 DEF IInv, CommittedComplete, AllVectorsIn
<1>2. QED BY <1>1, Invariant, PTL

(***************************************************************************)
(* release_queue_phase never leaves a token with a queue that is not at    *)
(* the WAIT for it.                                                        *)
(***************************************************************************)
THEOREM TokensAreMet == Spec => []NoLatchedToken
<1>1. IInv => NoLatchedToken
  BY DEF IInv
<1>2. QED BY <1>1, Invariant, PTL

(***************************************************************************)
(* The session keeps one page transport in flight                          *)
(* (release_due_executable_weight_pages).                                  *)
(***************************************************************************)
THEOREM TransportsAreSingle == Spec => []OneInFlight
<1>1. IInv => OneInFlight
  <2> SUFFICES ASSUME IInv, NEW p \in launched, NEW q \in launched, p # q
               PROVE  AllVectorsIn(p, landed) \/ AllVectorsIn(q, landed)
    BY DEF OneInFlight
  <2>1. program \in ProgramType /\ p \in PageIds /\ q \in PageIds
    BY ProgramsAssumption DEF IInv, TypeOK
  <2>2. LaunchBefore(program, p, q) \/ LaunchBefore(program, q, p)
    BY <2>1, LaunchOrderTotal
  <2>3. QED BY <2>1, <2>2 DEF IInv, LaunchedInOrder
<1>2. QED BY <1>1, Invariant, PTL

(***************************************************************************)
(* No transport delay disturbs the planned distances: phases are never     *)
(* early, and punctual queues are released exactly at theirs               *)
(* (release_queue_phase).                                                  *)
(***************************************************************************)
THEOREM PhasesAreKept == Spec => PhasesKept
<1> DEFINE A == \A q \in Queues, e \in PageEvents :
                    q \in released'[e] \ released[e] =>
                        /\ program.offset[e][q] <= age'[e]
                        /\ Punctual(q, e) => age'[e] = program.offset[e][q]
<1>1. IInv /\ [Next]_vars => [A]_vars
  <2> SUFFICES ASSUME IInv, NEW moves \in Moves, NEW lands, Step(moves, lands),
                      NEW q \in Queues, NEW e \in PageEvents,
                      q \in released'[e], q \notin released[e]
               PROVE  /\ program.offset[e][q] <= age'[e]
                      /\ Punctual(q, e) => age'[e] = program.offset[e][q]
    BY DEF Next
  <2> DEFINE now == EventsToRelease(committed', pc', TokensAfter(moves))
  <2>1. /\ released' = WithPhase(released, now) /\ age' = AgeAfter(now)
        /\ TypeOK /\ program \in ProgramType
    BY ProgramsAssumption DEF Step, IInv, TypeOK
  <2>2. e \in now /\ q \in Phase(e)
    BY <2>1 DEF WithPhase
  <2>3. q \in Pending(e) /\ program.offset[e][q] \in 0 .. MaxOffset
    BY <2>1, <2>2, OffsetType DEF Phase, Pending
  <2>4. CASE age[e] = NoOrigin
    <3>1. age'[e] = CHOOSE k \in 0 .. MaxOffset : \A r \in Phase(e) : program.offset[e][r] = k
      BY <2>1, <2>2, <2>4 DEF AgeAfter
    <3>2. \E k \in 0 .. MaxOffset : \A r \in Phase(e) : program.offset[e][r] = k
      BY <2>1, <2>3, PhaseOffset
    <3>3. age'[e] = program.offset[e][q]
      BY <2>2, <3>1, <3>2
    <3>4. QED BY <2>3, <3>3
  <2>5. CASE age[e] # NoOrigin
    <3>1. age'[e] = Older(age[e]) /\ age[e] \in 0 .. MaxAge
      BY <2>1, <2>5 DEF AgeAfter, TypeOK
    <3>2. Older(age[e]) # NoOrigin /\ Older(age[e]) \in Int /\ Older(age[e]) <= age[e] + 1
      BY <3>1, NumbersAssumption DEF Older, MaxAge, NoOrigin
    <3>3. program.offset[e][q] <= Older(age[e])
      BY <2>2, <3>2 DEF EventsToRelease, Releasable
    <3>4. Punctual(q, e) => age[e] < program.offset[e][q]
      BY <2>3, <2>5 DEF IInv, StartupStands
    <3>5. QED BY <2>3, <3>1, <3>2, <3>3, <3>4
  <2>6. QED BY <2>4, <2>5
<1>2. QED BY <1>1, Invariant, PTL DEF Spec, PhasesKept

-----------------------------------------------------------------------------
(* The order of the transports.                                            *)

\* Two pages share a hemisphere, as those of an executable do whose weights
\* are spread over both: the launch order is then an order of DMA queues.
SidesShared(prog) == \A p, q \in PageIds : prog.sides[p] \cap prog.sides[q] # {}

Before(prog, p, q) ==
    ControlEdge(prog, p, q) \/ PacketEdge(prog, p, q) \/ WaitEdge(prog, p, q)

\* Among pages of an ordered program, one has none of them before it.
LEMMA FirstOfPages ==
  ASSUME NEW prog, TransportOrdered(prog), NEW S \in SUBSET PageIds, S # {}
  PROVE  \E p \in S : \A q \in S : ~Before(prog, q, p)
<1>1. PICK rank \in [PageIds -> 1 .. Cardinality(PageIds)] :
          \A p, q \in PageIds : Before(prog, p, q) => rank[p] < rank[q]
  BY DEF TransportOrdered, Before
<1> DEFINE Ranks == {rank[p] : p \in S}
<1>2. Cardinality(PageIds) \in Nat
  BY NumbersAssumption, FS_CardinalityType
<1>3. Ranks \in SUBSET (0 .. Cardinality(PageIds)) /\ Ranks # {}
  BY <1>1, <1>2
<1>4. PICK r \in Ranks : \A s \in Ranks : r <= s
  <2> HIDE DEF Ranks
  <2>1. QED BY <1>2, <1>3, LeastNatural
<1>5. PICK p \in S : rank[p] = r
  BY <1>4
<1>6. ASSUME NEW q \in S PROVE ~Before(prog, q, p)
  <2>1. rank[p] <= rank[q]
    BY <1>4, <1>5
  <2>2. rank[p] \in Int /\ rank[q] \in Int
    BY <1>1
  <2>3. ~(rank[q] < rank[p])
    BY <2>1, <2>2
  <2>4. QED BY <1>1, <2>3
<1>7. QED BY <1>6

\* The control that brings a queue a page is the only one of its kind there.
LEMMA PacketOnce ==
  ASSUME NEW prog \in Programs, NEW m \in Queues, NEW p \in PageIds,
         NEW i \in DOMAIN prog.code[m], NEW j \in DOMAIN prog.code[m],
         IsPacket(prog.code[m][i], p), IsPacket(prog.code[m][j], p)
  PROVE  i = j
<1>1. prog.code[m] \in Seq(Controls)
  BY ProgramsAssumption DEF ProgramType
<1>2. prog.code[m][i] \in Controls /\ prog.code[m][j] \in Controls
  BY <1>1
<1>3. \A c \in Controls : IsPacket(c, p) => c = [op |-> "packet", id |-> p]
  BY DEF Controls, IsPacket
<1>4. prog.code[m][i] = prog.code[m][j] /\ prog.code[m][i].op = "packet"
  BY <1>2, <1>3
<1>5. QED BY <1>4, OncePerQueueAssumption DEF OncePerQueue

\* A bank of the first missing page that is not past its packet stands before
\* it, and at nothing that belongs to another missing page.
LEMMA FirstIsClear ==
  ASSUME IInv, Valid(program), NEW p \in Missing,
         \A q \in Missing : ~Before(program, q, p),
         NEW m \in program.targets[p]
  PROVE  Clear(p, m)
<1>1. /\ program \in Programs /\ program \in ProgramType /\ TypeOK
      /\ QueuesLinked(program) /\ p \in PageIds
  BY ProgramsAssumption DEF IInv, TypeOK, Valid, Missing
<1>2. m \in MemQueues /\ m \in Queues
  BY <1>1, QueuesAssumption DEF ProgramType
<1>3. /\ program.code[m] \in Seq(Controls) /\ Len(program.code[m]) \in Nat
      /\ DOMAIN program.code[m] = 1 .. Len(program.code[m]) /\ pc[m] \in Nat \ {0}
  BY <1>1, <1>2 DEF ProgramType, TypeOK
<1>4. PICK j \in DOMAIN program.code[m] : IsPacket(program.code[m][j], p)
  BY <1>1, <1>2 DEF QueuesLinked
<1> SUFFICES ASSUME ~Issued(p, m)
             PROVE  /\ ~Done(m)
                    /\ \A q \in PageIds : IsPacket(Current(m), q) => q = p
                    /\ \A e \in PageEvents :
                          AtWait(m, e) => program.members[e] \cap Missing = {}
  BY DEF Clear
<1>5. pc[m] <= j
  BY <1>3, <1>4 DEF Issued
<1>6. ~Done(m) /\ pc[m] \in DOMAIN program.code[m]
  BY <1>3, <1>5 DEF Done
<1>7. ASSUME NEW q \in PageIds, IsPacket(Current(m), q), q # p PROVE FALSE
  <2>1. pc[m] # j
    BY <1>4, <1>7 DEF Current, IsPacket
  <2>2. pc[m] \in 1 .. j - 1
    BY <1>3, <1>5, <2>1
  <2>3. PacketEdge(program, q, p)
    BY <1>2, <1>4, <1>7, <2>2 DEF PacketEdge, Current
  <2>4. AllVectorsIn(q, landed)
    BY <2>3 DEF Before, Missing
  <2>5. m \in landed[q]
    BY <1>1, <1>2, <1>6, <1>7, <2>4 DEF QueuesLinked, Current, AllVectorsIn
  <2>6. PICK i \in DOMAIN program.code[m] : i < pc[m] /\ IsPacket(program.code[m][i], q)
    BY <2>5 DEF IInv, LandedIssued, Issued
  <2>7. i = pc[m]
    BY <1>1, <1>2, <1>6, <1>7, <2>6, PacketOnce DEF Current
  <2>8. QED BY <1>3, <2>6, <2>7
<1>8. ASSUME NEW e \in PageEvents, AtWait(m, e), NEW q \in program.members[e], q \in Missing
      PROVE  FALSE
  <2>1. IsWait(program.code[m][pc[m]], e)
    BY <1>8 DEF AtWait, Current
  <2>2. pc[m] # j
    BY <1>4, <2>1 DEF IsWait, IsPacket
  <2>3. pc[m] \in 1 .. j - 1
    BY <1>3, <1>5, <2>2
  <2>4. WaitEdge(program, q, p)
    BY <1>2, <1>4, <1>8, <2>1, <2>3 DEF WaitEdge
  <2>5. QED BY <1>8, <2>4 DEF Before
<1>9. QED BY <1>6, <1>7, <1>8

\* A loaded program stays as it was checked.
LEMMA LoadedIsValid == Spec => [](Valid(program))
<1>1. Init => Valid(program)
  BY DEF Init
<1>2. Valid(program) /\ [Next]_vars => Valid(program)'
  <2> SUFFICES ASSUME Valid(program), [Next]_vars PROVE Valid(program)'
    OBVIOUS
  <2>1. program' = program
    BY DEF Next, Step, vars
  <2>2. QED BY <2>1 DEF Valid, SyncPlanValid, QueuesLinked, TransportOrdered, ControlEdge,
         PacketEdge, WaitEdge, LaunchBefore, IsWait, IsPacket, Participants
<1>3. QED BY <1>1, <1>2, PTL DEF Spec

(***************************************************************************)
(* What validate_queue_transport_order accepts cannot block itself: in     *)
(* every reachable state with missing pages, one of them is first in the   *)
(* session's launch order, and each of its banks stands clear of packets   *)
(* of other pages and of WAITs for missing ones.  Since the graph has no   *)
(* edges between hemispheres, the pages have to share one.                 *)
(***************************************************************************)
THEOREM TransportsKeepMoving ==
  ASSUME \A prog \in Programs : SidesShared(prog)
  PROVE  Spec => []TransportsMove
<1>1. IInv /\ Valid(program) => TransportsMove
  <2> SUFFICES ASSUME IInv, Valid(program), Missing # {}
               PROVE  \E p \in Missing :
                          /\ \A q \in Missing : ~LaunchBefore(program, q, p)
                          /\ \A m \in program.targets[p] : Clear(p, m)
    BY DEF TransportsMove
  <2>1. Missing \in SUBSET PageIds /\ TransportOrdered(program) /\ SidesShared(program)
    BY DEF Missing, Valid, IInv, TypeOK
  <2>2. PICK p \in Missing : \A q \in Missing : ~Before(program, q, p)
    BY <2>1, FirstOfPages
  <2>3. \A q \in Missing : ~LaunchBefore(program, q, p)
    BY <2>1, <2>2 DEF Before, ControlEdge, SidesShared
  <2>4. \A m \in program.targets[p] : Clear(p, m)
    BY <2>2, FirstIsClear
  <2>5. QED BY <2>2, <2>3, <2>4
<1>2. QED BY <1>1, Invariant, LoadedIsValid, PTL
=============================================================================
