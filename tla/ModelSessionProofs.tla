-------------------------- MODULE ModelSessionProofs --------------------------
(***************************************************************************)
(* Proofs about ModelSession, for every package whose placements satisfy   *)
(* the assumptions of ModelSessionPlacement: first control, pager and      *)
(* pages, then the data, and last the refinement of ModelSemantics.        *)
(***************************************************************************)
EXTENDS ModelSessionPlacement, TLAPS

\* A lookahead is that of some invocation for the next one, and what it packs
\* are tensors.
PackedTensors(j) ==
    [i \in DOMAIN Inputs(j) |->
        IF i \in Transported(j) THEN TensorData(Inputs(j)[i].value) ELSE Missing]

AheadOf(j) == [for |-> j + 1, images |-> PackedTensors(j + 1), page |-> NextPage(j)]

Looking(j) == j \in Index /\ j < Count /\ Invocations[j].looksAhead

AheadInv == ahead = NoLookahead \/ \E j \in Index : Looking(j) /\ ahead = AheadOf(j)

\* Where an invocation is, and which page it has.
PlaceInv ==
    /\ phase = "next" => running /\ position = index
    /\ phase # "idle" => intact
    /\ phase \notin {"idle", "next"} => position + 1 = index /\ cursor \in Nat \ {0}
    /\ phase \in {"page", "arriving", "states"} => cursor = 1
    /\ phase = "arriving" => ready = NoPage
    /\ phase \in {"states", "inputs", "linking", "running", "computed"} =>
           PageOf(index) \in {ready, NoPage}
    /\ phase \in {"running", "computed"} => ahead.for \in {0, index + 1}

ControlInv == TypeOK /\ AheadInv /\ PlaceInv

-----------------------------------------------------------------------------
\* The elements of a sequence and their indices.
LEMMA Elements ==
    ASSUME NEW S, NEW s \in Seq(S)
    PROVE  \A i \in DOMAIN s : i \in Nat \ {0} /\ s[i] \in S
<1>1. DOMAIN s = 1 .. Len(s) /\ Len(s) \in Nat
  OBVIOUS
<1>2. \A i \in 1 .. Len(s) : s[i] \in S
  OBVIOUS
<1> QED
  BY <1>1, <1>2

\* Every invocation has inputs, outputs and states on slots.
LEMMA InvocationTypes ==
    ASSUME NEW j \in Index
    PROVE  /\ Invocations[j] \in InvocationType
           /\ PageOf(j) \in Pages \cup {NoPage}
           /\ \A i \in DOMAIN Inputs(j) :
                 /\ i \in Nat \ {0}
                 /\ Inputs(j)[i].value \in Tensors \cup Values /\ Inputs(j)[i].slot \in Slots
                 /\ Inputs(j)[i].kind \in {"plain", "paged", "prefetch"}
           /\ \A o \in DOMAIN Outputs(j) :
                 Outputs(j)[o].value \in Values /\ Outputs(j)[o].slot \in Slots
           /\ \A i \in DOMAIN StatesOf(j) :
                 StatesOf(j)[i].state \in States /\ StatesOf(j)[i].slot \in Slots
           /\ Invocations[j].looksAhead \in BOOLEAN
<1>1. Invocations[j] \in InvocationType
  BY InvocationsAssumption DEF Index, Count
<1>2. /\ Inputs(j) \in Seq([value : Tensors \cup Values, slot : Slots,
                          kind : {"plain", "paged", "prefetch"}, pre : BOOLEAN])
      /\ Outputs(j) \in Seq([value : Values, slot : Slots])
      /\ StatesOf(j) \in Seq([state : States, slot : Slots])
      /\ PageOf(j) \in Pages \cup {NoPage}
      /\ Invocations[j].looksAhead \in BOOLEAN
  BY <1>1 DEF InvocationType, PageOf, Inputs, Outputs, StatesOf
<1>3. \A i \in DOMAIN Inputs(j) :
          i \in Nat \ {0} /\ Inputs(j)[i] \in [value : Tensors \cup Values, slot : Slots,
                          kind : {"plain", "paged", "prefetch"}, pre : BOOLEAN]
  BY <1>2, Elements
<1>4. \A o \in DOMAIN Outputs(j) : Outputs(j)[o] \in [value : Values, slot : Slots]
  BY <1>2, Elements
<1>5. \A i \in DOMAIN StatesOf(j) : StatesOf(j)[i] \in [state : States, slot : Slots]
  BY <1>2, Elements
<1> QED
  BY <1>1, <1>2, <1>3, <1>4, <1>5

\* The number of invocations, and the numbers of slots and pages.
LEMMA Numbers ==
    /\ Count \in Nat /\ Index \subseteq Nat \ {0}
    /\ NoSlot \notin Slots /\ NoPage \notin Pages
    /\ Slots \subseteq Nat /\ Pages \subseteq Nat
    /\ MaxCalls \in Nat
BY NamesAssumption, InvocationsAssumption DEF Count, Index, NoSlot, NoPage

\* The data of a lookahead.
LEMMA NextAheadOf ==
    ASSUME ControlInv, index \in Index, LooksAhead
    PROVE  Looking(index) /\ NextAhead = AheadOf(index)
<1>1. Looking(index) /\ index + 1 \in Index
  BY Numbers DEF LooksAhead, Looking, Index
<1>2. Kept(index + 1) = {}
  BY <1>1, PackedBytesStay, Numbers DEF Looking, LooksAhead
<1>3. \A i \in Transported(index + 1) : Inputs(index + 1)[i].value \in Tensors
  BY <1>1, <1>2, PackedBytesStay DEF Transported, Kept
<1>4. \A i \in Transported(index + 1) :
          Bytes(Inputs(index + 1)[i].value) = TensorData(Inputs(index + 1)[i].value)
  BY <1>3, UniqueNames DEF Bytes
<1>5. ImagesOf(index + 1) = PackedTensors(index + 1)
  BY <1>4 DEF ImagesOf, PackedTensors
<1>6. PageAhead = NextPage(index)
  BY <1>1 DEF PageAhead, NextPage, LooksAhead
<1> QED
  BY <1>1, <1>5, <1>6 DEF NextAhead, AheadOf

\* What is recorded of inputs that came for the next invocation.
LEMMA KeptTypes ==
    ASSUME ControlInv, index \in Index, KeptForNext
    PROVE  /\ prefetched' \in [Values -> Slots \cup {NoSlot}]
           /\ prefetchedFor' \in 0 .. Count + 1
           /\ UNCHANGED device
<1> DEFINE kept == {i \in DOMAIN Inputs(index) : Inputs(index)[i].kind = "prefetch"}
           At(v) == \E i \in kept : Inputs(index)[i].value = v
           Of(v) == CHOOSE i \in kept : Inputs(index)[i].value = v
<1>1. prefetched' = [v \in Values |-> IF At(v) THEN Inputs(index)[Of(v)].slot ELSE prefetched[v]]
  BY DEF KeptForNext
<1>2. \A v \in Values : At(v) => Of(v) \in kept
  OBVIOUS
<1>3. \A v \in Values : At(v) => Inputs(index)[Of(v)].slot \in Slots
  BY <1>2, InvocationTypes
<1>4. prefetched' \in [Values -> Slots \cup {NoSlot}]
  <2> HIDE DEF At, Of
  <2> QED
    BY <1>1, <1>3 DEF ControlInv, TypeOK
<1>5. prefetchedFor' \in 0 .. Count + 1
  BY Numbers DEF KeptForNext, ControlInv, TypeOK, Index
<1> QED
  BY <1>4, <1>5 DEF KeptForNext

\* The members that forget everything.
LEMMA Emptied ==
    /\ NoneKept \in [Values -> Slots \cup {NoSlot}]
    /\ NoLookahead.for = 0 /\ NoLookahead.page = NoPage
    /\ 0 \in 0 .. Count /\ 0 \in 0 .. Count + 1
BY Numbers DEF NoneKept, NoLookahead

\* An upload that throws may leave the pager busy.
LEMMA UploadBroken ==
    ASSUME ControlInv, NEW slots, UploadThrows(slots)
    PROVE  /\ busy' \in BOOLEAN /\ (busy => busy')
           /\ UNCHANGED <<ready, inflight, hostVars, transferVars>> /\ Throw
<1>1. busy' = TRUE \/ busy' = busy
  BY DEF UploadThrows
<1>2. busy' \in BOOLEAN /\ (busy => busy')
  BY <1>1 DEF ControlInv, TypeOK
<1> QED
  BY <1>2 DEF UploadThrows

\* Every step keeps the types, the data of a lookahead and the place.
LEMMA ControlStep ==
    ASSUME ControlInv, [Next]_vars
    PROVE  ControlInv'
<1> USE Numbers DEF hostVars, deviceVars, pagerVars, transferVars, controlVars, ghostVars, Phases
<1>1. ASSUME Load  PROVE  ControlInv'
  <2>1. TypeOK'
    BY <1>1, InvocationTypes DEF Load, Call, Returned, DropPackage, NoneKept, NoLookahead, ControlInv, TypeOK, PlaceInv, AheadInputs
  <2>2. AheadInv' /\ PlaceInv'
    BY <1>1, InvocationTypes DEF Load, Call, Returned, DropPackage, NoneKept, NoLookahead, ControlInv, TypeOK, AheadInv, PlaceInv
  <2> QED
    BY <2>1, <2>2 DEF ControlInv
<1>2. ASSUME LoadFails  PROVE  ControlInv'
  <2>1. busy' \in BOOLEAN
    BY <1>2, Zenon DEF LoadFails, ControlInv, TypeOK
  <2>1a. Call /\ Returned /\ DropPackage /\ intact' = FALSE /\ loaded' = loaded
    BY <1>2, Zenon DEF LoadFails
  <2>1b. phase = "idle" /\ phase' = phase /\ running' = running /\ index' = index
    BY <2>1a DEF Call, Returned
  <2>1c. /\ overrides' \subseteq ExternalInputs
         /\ device' \in [Values -> Slots \cup {NoSlot}]
         /\ prefetched' \in [Values -> Slots \cup {NoSlot}]
         /\ prefetchedFor' \in 0 .. Count + 1
    BY <2>1a, Emptied DEF DropPackage
  <2>1d. /\ ready' \in Pages \cup {NoPage} /\ inflight' = NoPage
         /\ ahead'.for = 0 /\ ahead'.page = NoPage /\ aheadLanded' = {}
         /\ position' \in 0 .. Count /\ calls' \in 0 .. MaxCalls
    BY <2>1a, Emptied DEF DropPackage, Call, ControlInv, TypeOK
  <2>2. TypeOK'
    BY <2>1, <2>1a, <2>1b, <2>1c, <2>1d DEF ControlInv, TypeOK
  <2>3. AheadInv' /\ PlaceInv'
    BY <2>1a DEF Call, Returned, DropPackage, NoLookahead,
        ControlInv, TypeOK, AheadInv, PlaceInv
  <2> QED
    BY <2>2, <2>3 DEF ControlInv
<1>3. ASSUME ResetStates  PROVE  ControlInv'
  BY <1>3, InvocationTypes
      DEF ResetStates, Call, Returned, ControlInv, TypeOK, AheadInv, PlaceInv, AheadInputs
<1>4. ASSUME Run  PROVE  ControlInv'
  <2>1. TypeOK'
    BY <1>4, InvocationTypes DEF Run, Call, Usable, ForgetDevice, NoneKept, NoLookahead, ControlInv, TypeOK, PlaceInv, AheadInputs
  <2>2. AheadInv' /\ PlaceInv'
    BY <1>4, InvocationTypes DEF Run, Call, Usable, ForgetDevice, NoneKept, NoLookahead, ControlInv, TypeOK, AheadInv, PlaceInv
  <2> QED
    BY <2>1, <2>2 DEF ControlInv
<1>5. ASSUME RunWithoutIds  PROVE  ControlInv'
  <2>1. TypeOK'
    BY <1>5, InvocationTypes DEF RunWithoutIds, Call, Usable, ForgetDevice, NoneKept, NoLookahead, ControlInv, TypeOK, PlaceInv, AheadInputs
  <2>2. AheadInv' /\ PlaceInv'
    BY <1>5, InvocationTypes DEF RunWithoutIds, Call, Usable, ForgetDevice, NoneKept, NoLookahead, ControlInv, TypeOK, AheadInv, PlaceInv
  <2> QED
    BY <2>1, <2>2 DEF ControlInv
<1>6. ASSUME \E v \in ExternalInputs : \E n \in Choices[v] : SetInput(v, n)
      PROVE  ControlInv'
  <2>1. PICK v \in ExternalInputs : \E n \in Choices[v] : SetInput(v, n)
    BY <1>6
  <2>1a. PICK n : SetInput(v, n)
    BY <2>1
  <2>2. /\ overrides' \subseteq ExternalInputs
        /\ prefetched' \in [Values -> Slots \cup {NoSlot}]
    BY <2>1a DEF SetInput, ControlInv, TypeOK
  <2>3. TypeOK'
    BY <2>1a, <2>2 DEF SetInput, Call, Returned, ControlInv, TypeOK, AheadInputs
  <2>4. AheadInv' /\ PlaceInv'
    BY <2>1a DEF SetInput, Call, Returned, ControlInv, TypeOK, AheadInv, PlaceInv
  <2> QED
    BY <2>3, <2>4 DEF ControlInv
<1>7. ASSUME \E s \in States : \E n \in Choices[s] : SetState(s, n)
      PROVE  ControlInv'
  BY <1>7, InvocationTypes
      DEF SetState, Call, Returned, ControlInv, TypeOK, AheadInv, PlaceInv, AheadInputs
<1>8. ASSUME \E j \in Index : RunInvocation(j)
      PROVE  ControlInv'
  <2>1. PICK j \in Index : RunInvocation(j)
    BY <1>8
  <2>2. prefetched' \in [Values -> Slots \cup {NoSlot}]
    BY <2>1 DEF RunInvocation, Enter, NoneKept, ControlInv, TypeOK
  <2>3. j \in 1 .. Count /\ j - 1 \in 0 .. Count /\ j - 1 + 1 = j
    BY DEF Index
  <2>4. TypeOK'
    BY <2>1, <2>2, <2>3 DEF RunInvocation, Call, Usable, Enter, ControlInv, TypeOK, AheadInputs
  <2>5. AheadInv' /\ PlaceInv'
    BY <2>1, <2>3 DEF RunInvocation, Call, Usable, Enter, ControlInv, TypeOK, AheadInv, PlaceInv
  <2> QED
    BY <2>4, <2>5 DEF ControlInv
<1>9. ASSUME NextInvocation  PROVE  ControlInv'
  <2>1. TypeOK'
    BY <1>9, InvocationTypes DEF NextInvocation, Enter, Index, NoneKept, ControlInv, TypeOK, PlaceInv, AheadInputs
  <2>2. AheadInv' /\ PlaceInv'
    BY <1>9, InvocationTypes DEF NextInvocation, Enter, Index, NoneKept, ControlInv, TypeOK, AheadInv, PlaceInv
  <2> QED
    BY <2>1, <2>2 DEF ControlInv
<1>10. ASSUME FinishRun  PROVE  ControlInv'
  BY <1>10, InvocationTypes
      DEF FinishRun, ControlInv, TypeOK, AheadInv, PlaceInv, AheadInputs
<1>11. ASSUME KeepWeightPage  PROVE  ControlInv'
  BY <1>11, InvocationTypes
      DEF KeepWeightPage, PageIsHere, Go, ControlInv, TypeOK, AheadInv, PlaceInv, AheadInputs
<1>12. ASSUME StartWeightPage  PROVE  ControlInv'
  BY <1>12, InvocationTypes
      DEF StartWeightPage, PageIsHere, Go, ControlInv, TypeOK, AheadInv, PlaceInv, AheadInputs
<1>13. ASSUME AwaitWeightPage  PROVE  ControlInv'
  BY <1>13, InvocationTypes
      DEF AwaitWeightPage, PageIsHere, Go, ControlInv, TypeOK, AheadInv, PlaceInv, AheadInputs
<1>14. ASSUME RefuseWeightPage  PROVE  ControlInv'
  BY <1>14, InvocationTypes
      DEF RefuseWeightPage, Throw, ControlInv, TypeOK, AheadInv, PlaceInv, AheadInputs
<1>15. ASSUME WeightPageArrives  PROVE  ControlInv'
  BY <1>15, InvocationTypes
      DEF WeightPageArrives, Go, ControlInv, TypeOK, AheadInv, PlaceInv, AheadInputs
<1>16. ASSUME WeightPageTimesOut  PROVE  ControlInv'
  BY <1>16, InvocationTypes
      DEF WeightPageTimesOut, Throw, ControlInv, TypeOK, AheadInv, PlaceInv, AheadInputs
<1>17. ASSUME PageInStates  PROVE  ControlInv'
  BY <1>17, InvocationTypes
      DEF PageInStates, Upload, Go, ControlInv, TypeOK, AheadInv, PlaceInv, AheadInputs
<1>18. ASSUME NoStates  PROVE  ControlInv'
  BY <1>18, InvocationTypes
      DEF NoStates, Go, ControlInv, TypeOK, AheadInv, PlaceInv, AheadInputs
<1>19. ASSUME StatesThrow  PROVE  ControlInv'
  <2>1. busy' \in BOOLEAN /\ (busy => busy')
    BY <1>19, UploadBroken DEF StatesThrow
  <2>2. TypeOK'
    BY <1>19, <2>1 DEF StatesThrow, UploadThrows, Throw, ControlInv, TypeOK, PlaceInv, AheadInputs
  <2>3. AheadInv' /\ PlaceInv'
    BY <1>19 DEF StatesThrow, UploadThrows, Throw, ControlInv, TypeOK, AheadInv, PlaceInv
  <2> QED
    BY <2>2, <2>3 DEF ControlInv
<1>20. ASSUME SkipInput  PROVE  ControlInv'
  BY <1>20, InvocationTypes
      DEF SkipInput, AtInput, NextInput, Go, ControlInv, TypeOK, AheadInv, PlaceInv, AheadInputs
<1>21. ASSUME TakePrefetched  PROVE  ControlInv'
  BY <1>21, InvocationTypes
      DEF TakePrefetched, AtInput, NextInput, Go, Input, Prefetched, ControlInv, TypeOK, AheadInv, PlaceInv, AheadInputs
<1>22. ASSUME UploadInput  PROVE  ControlInv'
  BY <1>22, InvocationTypes
      DEF UploadInput, AtInput, NextInput, Go, Upload, ControlInv, TypeOK, AheadInv, PlaceInv, AheadInputs
<1>23. ASSUME UploadInputThrows  PROVE  ControlInv'
  <2>1. /\ busy' \in BOOLEAN /\ (busy => busy')
        /\ UNCHANGED <<ready, inflight, hostVars, deviceVars, transferVars>> /\ Throw
    <3>1. CASE UploadThrows({Input.slot}) /\ UNCHANGED deviceVars
      BY <3>1, UploadBroken
    <3>2. CASE UNCHANGED <<hostVars, pagerVars, transferVars, deviceVars>> /\ Throw
      BY <3>2 DEF ControlInv, TypeOK
    <3> QED
      BY <1>23, <3>1, <3>2 DEF UploadInputThrows
  <2>2. TypeOK'
    BY <2>1 DEF Throw, ControlInv, TypeOK, PlaceInv, AheadInputs
  <2>3. AheadInv' /\ PlaceInv'
    BY <2>1 DEF Throw, ControlInv, TypeOK, AheadInv, PlaceInv
  <2> QED
    BY <2>2, <2>3 DEF ControlInv
<1>24. ASSUME TakeFromDevice  PROVE  ControlInv'
  <2>1. TypeOK'
    BY <1>24, InvocationTypes DEF TakeFromDevice, AtInput, NextInput, Go, Input, ControlInv, TypeOK, PlaceInv, AheadInputs
  <2>2. AheadInv' /\ PlaceInv'
    BY <1>24, InvocationTypes DEF TakeFromDevice, AtInput, NextInput, Go, Input, ControlInv, TypeOK, AheadInv, PlaceInv
  <2> QED
    BY <2>1, <2>2 DEF ControlInv
<1>25. ASSUME RefuseInput  PROVE  ControlInv'
  BY <1>25, InvocationTypes
      DEF RefuseInput, AtInput, Throw, ControlInv, TypeOK, AheadInv, PlaceInv, AheadInputs
<1>26. ASSUME PreparePages  PROVE  ControlInv'
  BY <1>26, InvocationTypes
      DEF PreparePages, InputsReady, ForgetPrefetched, Go, NoneKept, NoLookahead, ControlInv, TypeOK, AheadInv, PlaceInv, AheadInputs
<1>27. ASSUME PreparePagesThrows  PROVE  ControlInv'
  <2>1. /\ busy' \in BOOLEAN /\ (busy => busy')
        /\ UNCHANGED <<ready, inflight, hostVars>> /\ Throw /\ ForgetPrefetched
        /\ ahead' = NoLookahead /\ aheadLanded' = {}
    <3>1. busy' = TRUE \/ busy' = busy
      BY <1>27 DEF PreparePagesThrows
    <3>2. busy' \in BOOLEAN /\ (busy => busy')
      BY <3>1 DEF ControlInv, TypeOK
    <3> QED
      BY <1>27, <3>2 DEF PreparePagesThrows
  <2>1a. phase = "inputs"
    BY <1>27 DEF PreparePagesThrows, InputsReady
  <2>2. TypeOK'
    BY <2>1, <2>1a, Emptied DEF Throw, ForgetPrefetched, ControlInv, TypeOK
  <2>3. AheadInv' /\ PlaceInv'
    BY <2>1 DEF Throw, ControlInv, TypeOK, AheadInv, PlaceInv
  <2> QED
    BY <2>2, <2>3 DEF ControlInv
<1>28. ASSUME LookAhead  PROVE  ControlInv'
  <2>1. phase = "linking" /\ index \in Index /\ LooksAhead
    BY <1>28 DEF LookAhead, CanLookAhead, ControlInv, TypeOK
  <2>2. Looking(index) /\ ahead' = AheadOf(index)
    BY <1>28, <2>1, NextAheadOf DEF LookAhead
  <2>3. /\ ahead'.for = index + 1 /\ ahead'.for \in Index
        /\ ahead'.page \in Pages \cup {NoPage}
    BY <2>1, <2>2, InvocationTypes DEF AheadOf, Looking, NextPage, Index
  <2>4. TypeOK'
    BY <1>28, <2>1, <2>3 DEF LookAhead, Go, ControlInv, TypeOK, PlaceInv
  <2>5. AheadInv' /\ PlaceInv'
    BY <1>28, <2>1, <2>2, <2>3 DEF LookAhead, Go, ControlInv, TypeOK, AheadInv, PlaceInv
  <2> QED
    BY <2>4, <2>5 DEF ControlInv
<1>29. ASSUME StayHere  PROVE  ControlInv'
  BY <1>29, InvocationTypes
      DEF StayHere, Go, NoLookahead, ControlInv, TypeOK, AheadInv, PlaceInv, AheadInputs
<1>30. ASSUME LinkThrows  PROVE  ControlInv'
  <2>1. phase = "linking" /\ index \in Index
    BY <1>30 DEF LinkThrows, ControlInv, TypeOK
  <2>2. ahead' = NoLookahead \/ (Looking(index) /\ ahead' = AheadOf(index))
    <3>1. CASE CanLookAhead
      <4>1. ahead' = NoLookahead \/ ahead' = NextAhead
        BY <1>30, <3>1, Zenon DEF LinkThrows
      <4>2. LooksAhead
        BY <3>1 DEF CanLookAhead
      <4>3. Looking(index) /\ NextAhead = AheadOf(index)
        BY <2>1, <4>2, NextAheadOf
      <4> QED
        BY <4>1, <4>3
    <3>2. CASE ~CanLookAhead
      <4>1. (IF CanLookAhead THEN {NextAhead} ELSE {}) = {}
        BY <3>2
      <4> QED
        BY <1>30, <4>1 DEF LinkThrows
    <3> QED
      BY <3>1, <3>2
  <2>3. ahead'.for \in {0} \cup Index /\ ahead'.page \in Pages \cup {NoPage}
    BY <2>1, <2>2, InvocationTypes DEF AheadOf, Looking, NextPage, Index, NoLookahead
  <2>4. TypeOK'
    BY <1>30, <2>1, <2>3 DEF LinkThrows, Throw, ControlInv, TypeOK, PlaceInv
  <2>5. AheadInv' /\ PlaceInv'
    BY <1>30, <2>1, <2>2 DEF LinkThrows, Throw, ControlInv, TypeOK, AheadInv, PlaceInv
  <2> QED
    BY <2>4, <2>5 DEF ControlInv
<1>31. ASSUME \E i \in AheadInputs : LandAhead(i)
      PROVE  ControlInv'
  BY <1>31, InvocationTypes
      DEF LandAhead, ControlInv, TypeOK, AheadInv, PlaceInv, AheadInputs
<1>32. ASSUME LandPageAhead  PROVE  ControlInv'
  BY <1>32, InvocationTypes
      DEF LandPageAhead, ControlInv, TypeOK, AheadInv, PlaceInv, AheadInputs
<1>33. ASSUME Execute  PROVE  ControlInv'
  BY <1>33, InvocationTypes
      DEF Execute, ControlInv, TypeOK, AheadInv, PlaceInv, AheadInputs
<1>34. ASSUME ExecutionThrows  PROVE  ControlInv'
  BY <1>34, InvocationTypes
      DEF ExecutionThrows, Throw, ControlInv, TypeOK, AheadInv, PlaceInv, AheadInputs
<1>35. ASSUME Settle  PROVE  ControlInv'
  <2>1. phase = "computed" /\ index \in Index /\ KeptForNext
    BY <1>35 DEF Settle, ControlInv, TypeOK
  <2>2. /\ prefetched' \in [Values -> Slots \cup {NoSlot}]
        /\ prefetchedFor' \in 0 .. Count + 1 /\ UNCHANGED device
    BY <2>1, KeptTypes
  <2>3. TypeOK'
    BY <1>35, <2>1, <2>2 DEF Settle, Go, ControlInv, TypeOK, PlaceInv, AheadInputs
  <2>4. AheadInv' /\ PlaceInv'
    BY <1>35, <2>1 DEF Settle, Go, ControlInv, TypeOK, AheadInv, PlaceInv
  <2> QED
    BY <2>3, <2>4 DEF ControlInv
<1>36. ASSUME SettleThrows  PROVE  ControlInv'
  <2>1. phase = "computed" /\ index \in Index /\ KeptForNext
    BY <1>36 DEF SettleThrows, ControlInv, TypeOK
  <2>2. /\ prefetched' \in [Values -> Slots \cup {NoSlot}]
        /\ prefetchedFor' \in 0 .. Count + 1 /\ UNCHANGED device
    BY <2>1, KeptTypes
  <2>3. TypeOK'
    BY <1>36, <2>1, <2>2 DEF SettleThrows, Throw, ControlInv, TypeOK, PlaceInv
  <2>4. AheadInv' /\ PlaceInv'
    BY <1>36, <2>1 DEF SettleThrows, Throw, ControlInv, TypeOK, AheadInv, PlaceInv
  <2> QED
    BY <2>3, <2>4 DEF ControlInv
<1>37. ASSUME PageOutStates  PROVE  ControlInv'
  BY <1>37, InvocationTypes
      DEF PageOutStates, ControlInv, TypeOK, AheadInv, PlaceInv, AheadInputs
<1>38. ASSUME DeliverOutput  PROVE  ControlInv'
  BY <1>38, InvocationTypes
      DEF DeliverOutput, ControlInv, TypeOK, AheadInv, PlaceInv, AheadInputs
<1>39. ASSUME EgressThrows  PROVE  ControlInv'
  BY <1>39, InvocationTypes
      DEF EgressThrows, Throw, ControlInv, TypeOK, AheadInv, PlaceInv, AheadInputs
<1>40. ASSUME FinishInvocation  PROVE  ControlInv'
  BY <1>40, InvocationTypes
      DEF FinishInvocation, ControlInv, TypeOK, AheadInv, PlaceInv, AheadInputs
<1>41. CASE UNCHANGED vars
  BY <1>41 DEF vars, ControlInv, TypeOK, AheadInv, PlaceInv, AheadInputs
<1> HIDE DEF hostVars, deviceVars, pagerVars, transferVars, controlVars, ghostVars, Phases
<1> QED
  BY <1>1, <1>2, <1>3, <1>4, <1>5, <1>6, <1>7, <1>8, <1>9, <1>10, <1>11, <1>12, <1>13, <1>14, <1>15, <1>16, <1>17, <1>18, <1>19, <1>20, <1>21, <1>22, <1>23, <1>24, <1>25, <1>26, <1>27, <1>28, <1>29, <1>30, <1>31, <1>32, <1>33, <1>34, <1>35, <1>36, <1>37, <1>38, <1>39, <1>40, <1>41
     DEF Next, Calls, Staging, Execution, Egress

\* The session starts empty.
LEMMA ControlInit == Init => ControlInv
<1> SUFFICES ASSUME Init PROVE ControlInv
  OBVIOUS
<1>1. ahead.for = 0 /\ ahead.page = NoPage /\ AheadInv
  BY DEF Init, NoLookahead, AheadInv
<1>2. AheadInputs = {}
  BY <1>1 DEF AheadInputs
<1>3. /\ device \in [Values -> Slots \cup {NoSlot}]
      /\ prefetched \in [Values -> Slots \cup {NoSlot}]
      /\ prefetchedFor \in 0 .. Count + 1
      /\ position \in 0 .. Count /\ calls \in 0 .. MaxCalls /\ index \in 0 .. Count
  BY Numbers, Emptied DEF Init
<1>4. TypeOK
  BY <1>1, <1>2, <1>3 DEF Init, TypeOK, Phases
<1>5. PlaceInv
  BY DEF Init, PlaceInv
<1> QED
  BY <1>1, <1>4, <1>5 DEF ControlInv

\* Types, lookahead data and place hold in every reachable state.
THEOREM ControlInvariant == Spec => []ControlInv
BY ControlInit, ControlStep, PTL DEF Spec


\* The session's types hold throughout (every operation of model_session.cpp).
THEOREM TypeCorrect == Spec => []TypeOK
<1>1. ControlInv => TypeOK
  BY DEF ControlInv
<1> QED
  BY <1>1, ControlInvariant, PTL

-----------------------------------------------------------------------------
\* What was prefetched came with the invocation before its consumer, and
\* belongs to the one that is under way.
PrefetchInv ==
    \A v \in Values : prefetched[v] # NoSlot =>
        /\ \E j \in Index : prefetchedFor = j + 1 /\ Kept(j) # {}
        /\ phase \in {"page", "arriving", "states", "inputs"} => prefetchedFor = index
        /\ phase \notin {"linking", "running", "computed"}

\* An input that nothing but the pager can bring.
Probe(i) ==
    /\ i \in DOMAIN Inputs(index)
    /\ Transfer(index, i) = "HostUpload" /\ Inputs(index)[i].kind = "plain"
    /\ index = 1 \/ Kept(index - 1) = {}

BusyInv ==
    /\ NoTransferUnderProgram
    /\ phase = "inputs" /\ StatesOf(index) # <<>> => ~busy
    /\ phase = "inputs" => \A i \in DOMAIN Inputs(index) : Probe(i) /\ i < cursor => ~busy

\* After the program only what it kept is prefetched.
LEMMA KeptPrefetch ==
    ASSUME ControlInv, PrefetchInv, phase = "computed", index \in Index, KeptForNext,
           phase' \in {"stateout", "idle"}
    PROVE  PrefetchInv'
<1>1. \A v \in Values : prefetched[v] = NoSlot
  BY DEF PrefetchInv
<1>2. \A v \in Values : prefetched'[v] # NoSlot => Kept(index) # {}
  BY <1>1 DEF KeptForNext, Kept
<1>3. Kept(index) # {} => prefetchedFor' = index + 1
  BY DEF KeptForNext, Kept
<1> QED
  BY <1>2, <1>3 DEF PrefetchInv

\* What is prefetched keeps its consumer.
LEMMA PrefetchStep ==
    ASSUME ControlInv, PrefetchInv, [Next]_vars
    PROVE  PrefetchInv'
<1> USE Numbers DEF hostVars, deviceVars, pagerVars, transferVars, controlVars, ghostVars
<1>1. ASSUME Load  PROVE  PrefetchInv'
  BY <1>1
      DEF Load, Call, Returned, DropPackage, PrefetchInv, NoneKept, ControlInv, TypeOK
<1>2. ASSUME LoadFails  PROVE  PrefetchInv'
  BY <1>2
      DEF LoadFails, Call, Returned, DropPackage, PrefetchInv, NoneKept, ControlInv, TypeOK
<1>3. ASSUME ResetStates  PROVE  PrefetchInv'
  BY <1>3
      DEF ResetStates, Call, Returned, PrefetchInv, NoneKept, ControlInv, TypeOK
<1>4. ASSUME Run  PROVE  PrefetchInv'
  BY <1>4
      DEF Run, Call, Usable, ForgetDevice, PrefetchInv, NoneKept, ControlInv, TypeOK
<1>5. ASSUME RunWithoutIds  PROVE  PrefetchInv'
  BY <1>5
      DEF RunWithoutIds, Call, Usable, ForgetDevice, PrefetchInv, NoneKept, ControlInv, TypeOK
<1>6. ASSUME \E v \in ExternalInputs : \E n \in Choices[v] : SetInput(v, n)
      PROVE  PrefetchInv'
  BY <1>6
      DEF SetInput, Call, Returned, PrefetchInv, NoneKept, ControlInv, TypeOK
<1>7. ASSUME \E s \in States : \E n \in Choices[s] : SetState(s, n)
      PROVE  PrefetchInv'
  BY <1>7
      DEF SetState, Call, Returned, PrefetchInv, NoneKept, ControlInv, TypeOK
<1>8. ASSUME \E j \in Index : RunInvocation(j)
      PROVE  PrefetchInv'
  BY <1>8
      DEF RunInvocation, Call, Usable, Enter, PrefetchInv, NoneKept, ControlInv, TypeOK
<1>9. ASSUME NextInvocation  PROVE  PrefetchInv'
  BY <1>9
      DEF NextInvocation, Enter, Index, PrefetchInv, NoneKept, ControlInv, TypeOK
<1>10. ASSUME FinishRun  PROVE  PrefetchInv'
  BY <1>10
      DEF FinishRun, PrefetchInv, NoneKept, ControlInv, TypeOK
<1>11. ASSUME KeepWeightPage  PROVE  PrefetchInv'
  BY <1>11
      DEF KeepWeightPage, PageIsHere, Go, PrefetchInv, NoneKept, ControlInv, TypeOK
<1>12. ASSUME StartWeightPage  PROVE  PrefetchInv'
  BY <1>12
      DEF StartWeightPage, PageIsHere, Go, PrefetchInv, NoneKept, ControlInv, TypeOK
<1>13. ASSUME AwaitWeightPage  PROVE  PrefetchInv'
  BY <1>13
      DEF AwaitWeightPage, PageIsHere, Go, PrefetchInv, NoneKept, ControlInv, TypeOK
<1>14. ASSUME RefuseWeightPage  PROVE  PrefetchInv'
  BY <1>14
      DEF RefuseWeightPage, Throw, PrefetchInv, NoneKept, ControlInv, TypeOK
<1>15. ASSUME WeightPageArrives  PROVE  PrefetchInv'
  BY <1>15
      DEF WeightPageArrives, Go, PrefetchInv, NoneKept, ControlInv, TypeOK
<1>16. ASSUME WeightPageTimesOut  PROVE  PrefetchInv'
  BY <1>16
      DEF WeightPageTimesOut, Throw, PrefetchInv, NoneKept, ControlInv, TypeOK
<1>17. ASSUME PageInStates  PROVE  PrefetchInv'
  BY <1>17
      DEF PageInStates, Upload, Go, PrefetchInv, NoneKept, ControlInv, TypeOK
<1>18. ASSUME NoStates  PROVE  PrefetchInv'
  BY <1>18
      DEF NoStates, Go, PrefetchInv, NoneKept, ControlInv, TypeOK
<1>19. ASSUME StatesThrow  PROVE  PrefetchInv'
  BY <1>19
      DEF StatesThrow, UploadThrows, Throw, PrefetchInv, NoneKept, ControlInv, TypeOK
<1>20. ASSUME SkipInput  PROVE  PrefetchInv'
  BY <1>20
      DEF SkipInput, AtInput, NextInput, Go, PrefetchInv, NoneKept, ControlInv, TypeOK
<1>21. ASSUME TakePrefetched  PROVE  PrefetchInv'
  BY <1>21
      DEF TakePrefetched, AtInput, NextInput, Go, Input, Prefetched, PrefetchInv, NoneKept, ControlInv, TypeOK
<1>22. ASSUME UploadInput  PROVE  PrefetchInv'
  BY <1>22
      DEF UploadInput, AtInput, NextInput, Go, Upload, PrefetchInv, NoneKept, ControlInv, TypeOK
<1>23. ASSUME UploadInputThrows  PROVE  PrefetchInv'
  BY <1>23
      DEF UploadInputThrows, AtInput, UploadThrows, Throw, PrefetchInv, NoneKept, ControlInv, TypeOK
<1>24. ASSUME TakeFromDevice  PROVE  PrefetchInv'
  BY <1>24
      DEF TakeFromDevice, AtInput, NextInput, Go, Input, PrefetchInv, NoneKept, ControlInv, TypeOK
<1>25. ASSUME RefuseInput  PROVE  PrefetchInv'
  BY <1>25
      DEF RefuseInput, AtInput, Throw, PrefetchInv, NoneKept, ControlInv, TypeOK
<1>26. ASSUME PreparePages  PROVE  PrefetchInv'
  BY <1>26
      DEF PreparePages, InputsReady, ForgetPrefetched, Go, NoneKept, NoLookahead, PrefetchInv, NoneKept, ControlInv, TypeOK
<1>27. ASSUME PreparePagesThrows  PROVE  PrefetchInv'
  BY <1>27
      DEF PreparePagesThrows, InputsReady, ForgetPrefetched, Throw, NoneKept, NoLookahead, PrefetchInv, NoneKept, ControlInv, TypeOK
<1>28. ASSUME LookAhead  PROVE  PrefetchInv'
  BY <1>28
      DEF LookAhead, Go, CanLookAhead, PrefetchInv, NoneKept, ControlInv, TypeOK
<1>29. ASSUME StayHere  PROVE  PrefetchInv'
  BY <1>29
      DEF StayHere, Go, NoLookahead, PrefetchInv, NoneKept, ControlInv, TypeOK
<1>30. ASSUME LinkThrows  PROVE  PrefetchInv'
  BY <1>30
      DEF LinkThrows, Throw, CanLookAhead, NoLookahead, PrefetchInv, NoneKept, ControlInv, TypeOK
<1>31. ASSUME \E i \in AheadInputs : LandAhead(i)
      PROVE  PrefetchInv'
  BY <1>31
      DEF LandAhead, PrefetchInv, NoneKept, ControlInv, TypeOK
<1>32. ASSUME LandPageAhead  PROVE  PrefetchInv'
  BY <1>32
      DEF LandPageAhead, PrefetchInv, NoneKept, ControlInv, TypeOK
<1>33. ASSUME Execute  PROVE  PrefetchInv'
  BY <1>33
      DEF Execute, PrefetchInv, NoneKept, ControlInv, TypeOK
<1>34. ASSUME ExecutionThrows  PROVE  PrefetchInv'
  BY <1>34
      DEF ExecutionThrows, Throw, PrefetchInv, NoneKept, ControlInv, TypeOK
<1>35. ASSUME Settle  PROVE  PrefetchInv'
  <2>1. phase = "computed" /\ index \in Index /\ KeptForNext /\ phase' \in {"stateout", "idle"}
    BY <1>35 DEF Settle, Go, Throw, ControlInv, TypeOK
  <2> QED
    BY <2>1, KeptPrefetch
<1>36. ASSUME SettleThrows  PROVE  PrefetchInv'
  <2>1. phase = "computed" /\ index \in Index /\ KeptForNext /\ phase' \in {"stateout", "idle"}
    BY <1>36 DEF SettleThrows, Go, Throw, ControlInv, TypeOK
  <2> QED
    BY <2>1, KeptPrefetch
<1>37. ASSUME PageOutStates  PROVE  PrefetchInv'
  BY <1>37
      DEF PageOutStates, PrefetchInv, NoneKept, ControlInv, TypeOK
<1>38. ASSUME DeliverOutput  PROVE  PrefetchInv'
  BY <1>38
      DEF DeliverOutput, PrefetchInv, NoneKept, ControlInv, TypeOK
<1>39. ASSUME EgressThrows  PROVE  PrefetchInv'
  BY <1>39
      DEF EgressThrows, Throw, PrefetchInv, NoneKept, ControlInv, TypeOK
<1>40. ASSUME FinishInvocation  PROVE  PrefetchInv'
  BY <1>40
      DEF FinishInvocation, PrefetchInv, NoneKept, ControlInv, TypeOK
<1>41. CASE UNCHANGED vars
  BY <1>41 DEF vars, PrefetchInv, NoneKept, ControlInv, TypeOK
<1> HIDE DEF hostVars, deviceVars, pagerVars, transferVars, controlVars, ghostVars
<1> QED
  BY <1>1, <1>2, <1>3, <1>4, <1>5, <1>6, <1>7, <1>8, <1>9, <1>10, <1>11, <1>12, <1>13, <1>14, <1>15, <1>16, <1>17, <1>18, <1>19, <1>20, <1>21, <1>22, <1>23, <1>24, <1>25, <1>26, <1>27, <1>28, <1>29, <1>30, <1>31, <1>32, <1>33, <1>34, <1>35, <1>36, <1>37, <1>38, <1>39, <1>40, <1>41
     DEF Next, Calls, Staging, Execution, Egress

\* The cursor moves past an input that is no probe, or the pager is free.
LEMMA Advance ==
    ASSUME ControlInv, BusyInv, index \in Index, cursor \in Nat, phase = "inputs",
           phase' = "inputs", index' = index, cursor' = cursor + 1, busy' = busy,
           Probe(cursor) => ~busy
    PROVE  BusyInv'
<1>1. \A i \in DOMAIN Inputs(index) : i \in Nat
  BY InvocationTypes
<1>2. ~busy => BusyInv'
  BY DEF BusyInv, NoTransferUnderProgram, Probe
<1>3. ASSUME NEW i \in DOMAIN Inputs(index), Probe(i), i < cursor + 1, busy
      PROVE  FALSE
  BY <1>1, <1>3 DEF BusyInv
<1>4. CASE busy
  <2>1. StatesOf(index) = <<>>
    BY <1>4 DEF BusyInv
  <2> QED
    BY <1>3, <1>4, <2>1 DEF BusyInv, NoTransferUnderProgram, Probe
<1> QED
  BY <1>2, <1>4

\* A cursor beyond the inputs has passed them all.
LEMMA PastTheEnd ==
    ASSUME NEW j \in Index, NEW c \in Nat \ {0}, c \notin DOMAIN Inputs(j)
    PROVE  \A i \in DOMAIN Inputs(j) : i < c
<1>1. Inputs(j) \in Seq([value : Tensors \cup Values, slot : Slots,
                        kind : {"plain", "paged", "prefetch"}, pre : BOOLEAN])
  BY InvocationTypes DEF InvocationType, Inputs
<1>2. DOMAIN Inputs(j) = 1 .. Len(Inputs(j)) /\ Len(Inputs(j)) \in Nat
  BY <1>1
<1> QED
  BY <1>2

\* A busy pager keeps the programs from running.
LEMMA BusyStep ==
    ASSUME ControlInv, PrefetchInv, BusyInv, [Next]_vars
    PROVE  BusyInv'
<1> USE Numbers DEF hostVars, deviceVars, pagerVars, transferVars, controlVars, ghostVars
<1>1. ASSUME Load  PROVE  BusyInv'
  BY <1>1
      DEF Load, Call, Returned, DropPackage, BusyInv, NoTransferUnderProgram, Probe
<1>2. ASSUME LoadFails  PROVE  BusyInv'
  BY <1>2
      DEF LoadFails, Call, Returned, DropPackage, BusyInv, NoTransferUnderProgram, Probe
<1>3. ASSUME ResetStates  PROVE  BusyInv'
  BY <1>3
      DEF ResetStates, Call, Returned, BusyInv, NoTransferUnderProgram, Probe
<1>4. ASSUME Run  PROVE  BusyInv'
  BY <1>4
      DEF Run, Call, Usable, ForgetDevice, BusyInv, NoTransferUnderProgram, Probe
<1>5. ASSUME RunWithoutIds  PROVE  BusyInv'
  BY <1>5
      DEF RunWithoutIds, Call, Usable, ForgetDevice, BusyInv, NoTransferUnderProgram, Probe
<1>6. ASSUME \E v \in ExternalInputs : \E n \in Choices[v] : SetInput(v, n)
      PROVE  BusyInv'
  BY <1>6
      DEF SetInput, Call, Returned, BusyInv, NoTransferUnderProgram, Probe
<1>7. ASSUME \E s \in States : \E n \in Choices[s] : SetState(s, n)
      PROVE  BusyInv'
  BY <1>7
      DEF SetState, Call, Returned, BusyInv, NoTransferUnderProgram, Probe
<1>8. ASSUME \E j \in Index : RunInvocation(j)
      PROVE  BusyInv'
  BY <1>8
      DEF RunInvocation, Call, Usable, Enter, BusyInv, NoTransferUnderProgram, Probe
<1>9. ASSUME NextInvocation  PROVE  BusyInv'
  BY <1>9
      DEF NextInvocation, Enter, Index, BusyInv, NoTransferUnderProgram, Probe
<1>10. ASSUME FinishRun  PROVE  BusyInv'
  BY <1>10
      DEF FinishRun, BusyInv, NoTransferUnderProgram, Probe
<1>11. ASSUME KeepWeightPage  PROVE  BusyInv'
  BY <1>11
      DEF KeepWeightPage, PageIsHere, Go, BusyInv, NoTransferUnderProgram, Probe
<1>12. ASSUME StartWeightPage  PROVE  BusyInv'
  BY <1>12
      DEF StartWeightPage, PageIsHere, Go, BusyInv, NoTransferUnderProgram, Probe
<1>13. ASSUME AwaitWeightPage  PROVE  BusyInv'
  BY <1>13
      DEF AwaitWeightPage, PageIsHere, Go, BusyInv, NoTransferUnderProgram, Probe
<1>14. ASSUME RefuseWeightPage  PROVE  BusyInv'
  BY <1>14
      DEF RefuseWeightPage, Throw, BusyInv, NoTransferUnderProgram, Probe
<1>15. ASSUME WeightPageArrives  PROVE  BusyInv'
  BY <1>15
      DEF WeightPageArrives, Go, BusyInv, NoTransferUnderProgram, Probe
<1>16. ASSUME WeightPageTimesOut  PROVE  BusyInv'
  BY <1>16
      DEF WeightPageTimesOut, Throw, BusyInv, NoTransferUnderProgram, Probe
<1>17. ASSUME PageInStates  PROVE  BusyInv'
  BY <1>17 DEF PageInStates, Upload, Go, BusyInv, NoTransferUnderProgram, Probe
<1>18. ASSUME NoStates  PROVE  BusyInv'
  <2>1. /\ phase = "states" /\ index \in Index /\ phase' = "inputs"
        /\ UNCHANGED <<index, cursor, busy>> /\ StatesOf(index) = <<>>
    BY <1>18 DEF NoStates, Go, ControlInv, TypeOK
  <2>2. cursor = 1
    BY <2>1 DEF ControlInv, PlaceInv
  <2>3. \A i \in DOMAIN Inputs(index) : ~(i < cursor)
    BY <2>1, <2>2, InvocationTypes
  <2> QED
    BY <2>1, <2>3 DEF BusyInv, NoTransferUnderProgram, Probe
<1>19. ASSUME StatesThrow  PROVE  BusyInv'
  BY <1>19
      DEF StatesThrow, UploadThrows, Throw, BusyInv, NoTransferUnderProgram, Probe
<1>20. ASSUME SkipInput  PROVE  BusyInv'
  <2>1. phase = "inputs" /\ cursor \in DOMAIN Inputs(index) /\ cursor' = cursor + 1
        /\ phase' = "inputs" /\ index' = index /\ cursor \in Nat /\ busy' = busy
    BY <1>20 DEF SkipInput, AtInput, NextInput, Go, ControlInv, PlaceInv
  <2>2. ASSUME Probe(cursor), busy  PROVE FALSE
    BY <1>20, <2>2 DEF SkipInput, Probe, Input
  <2> QED
    BY <2>1, <2>2, Advance DEF ControlInv, TypeOK
<1>21. ASSUME TakePrefetched  PROVE  BusyInv'
  <2>1. phase = "inputs" /\ cursor \in DOMAIN Inputs(index) /\ cursor' = cursor + 1
        /\ phase' = "inputs" /\ index' = index /\ cursor \in Nat /\ busy' = busy
    BY <1>21 DEF TakePrefetched, AtInput, NextInput, Go, ControlInv, PlaceInv
  <2>2. ASSUME Probe(cursor), busy  PROVE FALSE
    <3>1. PICK j \in Index : prefetchedFor = j + 1 /\ Kept(j) # {} /\ prefetchedFor = index
      BY <1>21, <2>1 DEF TakePrefetched, Prefetched, PrefetchInv
    <3> QED
      BY <2>2, <3>1 DEF Probe
  <2> QED
    BY <2>1, <2>2, Advance DEF ControlInv, TypeOK
<1>22. ASSUME UploadInput  PROVE  BusyInv'
  <2>1. phase = "inputs" /\ cursor \in DOMAIN Inputs(index) /\ cursor' = cursor + 1
        /\ phase' = "inputs" /\ index' = index /\ cursor \in Nat /\ busy' = busy
    BY <1>22 DEF UploadInput, AtInput, NextInput, Go, Upload, ControlInv, PlaceInv
  <2>2. ASSUME Probe(cursor), busy  PROVE FALSE
    BY <1>22, <2>2 DEF UploadInput, Upload
  <2> QED
    BY <2>1, <2>2, Advance DEF ControlInv, TypeOK
<1>23. ASSUME UploadInputThrows  PROVE  BusyInv'
  BY <1>23
      DEF UploadInputThrows, AtInput, UploadThrows, Throw, BusyInv, NoTransferUnderProgram, Probe
<1>24. ASSUME TakeFromDevice  PROVE  BusyInv'
  <2>1. phase = "inputs" /\ cursor \in DOMAIN Inputs(index) /\ cursor' = cursor + 1
        /\ phase' = "inputs" /\ index' = index /\ cursor \in Nat /\ busy' = busy
    BY <1>24 DEF TakeFromDevice, AtInput, NextInput, Go, ControlInv, PlaceInv
  <2>2. ASSUME Probe(cursor), busy  PROVE FALSE
    BY <1>24, <2>2 DEF TakeFromDevice, FromDevice, FromHost, Probe
  <2> QED
    BY <2>1, <2>2, Advance DEF ControlInv, TypeOK
<1>25. ASSUME RefuseInput  PROVE  BusyInv'
  BY <1>25
      DEF RefuseInput, AtInput, Throw, BusyInv, NoTransferUnderProgram, Probe
<1>26. ASSUME PreparePages  PROVE  BusyInv'
  <2>1. /\ phase = "inputs" /\ index \in Index /\ cursor \notin DOMAIN Inputs(index)
        /\ phase' = "linking" /\ busy' = busy /\ cursor \in Nat \ {0}
    BY <1>26 DEF PreparePages, InputsReady, Go, ControlInv, TypeOK, PlaceInv
  <2>2. \A i \in DOMAIN Inputs(index) : i < cursor
    BY <2>1, PastTheEnd
  <2>3. StatesOf(index) # <<>> \/ \E i \in DOMAIN Inputs(index) : Probe(i)
    BY <2>1, PagerIsUsed DEF Probe
  <2> QED
    BY <2>1, <2>2, <2>3 DEF BusyInv, NoTransferUnderProgram
<1>27. ASSUME PreparePagesThrows  PROVE  BusyInv'
  BY <1>27
      DEF PreparePagesThrows, InputsReady, ForgetPrefetched, Throw, NoneKept, NoLookahead, BusyInv, NoTransferUnderProgram, Probe
<1>28. ASSUME LookAhead  PROVE  BusyInv'
  BY <1>28
      DEF LookAhead, Go, CanLookAhead, BusyInv, NoTransferUnderProgram, Probe
<1>29. ASSUME StayHere  PROVE  BusyInv'
  BY <1>29
      DEF StayHere, Go, NoLookahead, BusyInv, NoTransferUnderProgram, Probe
<1>30. ASSUME LinkThrows  PROVE  BusyInv'
  BY <1>30
      DEF LinkThrows, Throw, CanLookAhead, NoLookahead, BusyInv, NoTransferUnderProgram, Probe
<1>31. ASSUME \E i \in AheadInputs : LandAhead(i)
      PROVE  BusyInv'
  BY <1>31
      DEF LandAhead, BusyInv, NoTransferUnderProgram, Probe
<1>32. ASSUME LandPageAhead  PROVE  BusyInv'
  BY <1>32
      DEF LandPageAhead, BusyInv, NoTransferUnderProgram, Probe
<1>33. ASSUME Execute  PROVE  BusyInv'
  BY <1>33
      DEF Execute, BusyInv, NoTransferUnderProgram, Probe
<1>34. ASSUME ExecutionThrows  PROVE  BusyInv'
  BY <1>34
      DEF ExecutionThrows, Throw, BusyInv, NoTransferUnderProgram, Probe
<1>35. ASSUME Settle  PROVE  BusyInv'
  BY <1>35
      DEF Settle, Go, BusyInv, NoTransferUnderProgram, Probe
<1>36. ASSUME SettleThrows  PROVE  BusyInv'
  BY <1>36
      DEF SettleThrows, Throw, BusyInv, NoTransferUnderProgram, Probe
<1>37. ASSUME PageOutStates  PROVE  BusyInv'
  BY <1>37
      DEF PageOutStates, BusyInv, NoTransferUnderProgram, Probe
<1>38. ASSUME DeliverOutput  PROVE  BusyInv'
  BY <1>38
      DEF DeliverOutput, BusyInv, NoTransferUnderProgram, Probe
<1>39. ASSUME EgressThrows  PROVE  BusyInv'
  BY <1>39
      DEF EgressThrows, Throw, BusyInv, NoTransferUnderProgram, Probe
<1>40. ASSUME FinishInvocation  PROVE  BusyInv'
  BY <1>40
      DEF FinishInvocation, BusyInv, NoTransferUnderProgram, Probe
<1>41. CASE UNCHANGED vars
  BY <1>41 DEF vars, BusyInv, NoTransferUnderProgram, Probe
<1> HIDE DEF hostVars, deviceVars, pagerVars, transferVars, controlVars, ghostVars
<1> QED
  BY <1>1, <1>2, <1>3, <1>4, <1>5, <1>6, <1>7, <1>8, <1>9, <1>10, <1>11, <1>12, <1>13, <1>14, <1>15, <1>16, <1>17, <1>18, <1>19, <1>20, <1>21, <1>22, <1>23, <1>24, <1>25, <1>26, <1>27, <1>28, <1>29, <1>30, <1>31, <1>32, <1>33, <1>34, <1>35, <1>36, <1>37, <1>38, <1>39, <1>40, <1>41
     DEF Next, Calls, Staging, Execution, Egress

\* No program runs while a standalone transfer that timed out is still in
\* flight: the states or an input of every invocation go through the pager,
\* which refuses (C2cWeightPager::enqueue, run_invocation).
THEOREM ProgramsRunAlone == Spec => []NoTransferUnderProgram
<1>1. Init => PrefetchInv /\ BusyInv
  BY DEF Init, PrefetchInv, BusyInv, NoneKept, NoTransferUnderProgram
<1>2. ControlInv /\ PrefetchInv /\ BusyInv /\ [Next]_vars => PrefetchInv' /\ BusyInv'
  BY PrefetchStep, BusyStep
<1>3. BusyInv => NoTransferUnderProgram
  BY DEF BusyInv
<1> QED
  BY <1>1, <1>2, <1>3, ControlInvariant, PTL DEF Spec


-----------------------------------------------------------------------------
\* Nothing but these rows changes.
Same(rows) == \A s \in Slots \ rows : sram'[s] = sram[s]

SramInv == sram = [s \in Slots |-> sram[s]]

\* The rows of bindings are slots, and those of a page.
LEMMA Places ==
    /\ \A j \in Index : \A set \in SUBSET DOMAIN Inputs(j) : SlotsOf(j, set) \subseteq Slots
    /\ \A j \in Index : OutputPlaces(j) \subseteq Slots /\ StatePlaces(j) \subseteq Slots
    /\ \A p \in Pages \cup {NoPage} : PageSlots(p) \subseteq Slots
    /\ PageSlots(NoPage) = {}
<1>1. \A j \in Index : \A set \in SUBSET DOMAIN Inputs(j) : SlotsOf(j, set) \subseteq Slots
  BY InvocationTypes DEF SlotsOf
<1>2. \A j \in Index : OutputPlaces(j) \subseteq Slots /\ StatePlaces(j) \subseteq Slots
  BY InvocationTypes DEF OutputPlaces, StatePlaces
<1>3. \A p \in Pages \cup {NoPage} : PageSlots(p) \subseteq Slots
  BY PagesAssumption DEF PageSlots
<1> QED
  BY <1>1, <1>2, <1>3 DEF PageSlots

\* What lands changes its rows only.
LEMMA LandedSame ==
    ASSUME NEW mem, NEW j, NEW set, NEW bytes, NEW s \in Slots, s \notin SlotsOf(j, set)
    PROVE  Landed(mem, j, set, bytes)[s] = mem[s]
BY DEF Landed, SlotsOf

\* A page that lands changes its rows only.
LEMMA PageLandedSame ==
    ASSUME NEW mem, NEW p, NEW s \in Slots
    PROVE  /\ s \notin PageSlots(p) => PageLanded(mem, p)[s] = mem[s]
           /\ s \in PageSlots(p) => PageLanded(mem, p)[s] = TensorData(PageImage[p][s])
BY DEF PageLanded

\* What an exception spoils.
LEMMA SpoiledSame ==
    ASSUME NEW mem, NEW rows, NEW s \in Slots, s \notin rows
    PROVE  Spoiled(mem, rows)[s] = mem[s]
BY DEF Spoiled

\* What a program leaves alone.
LEMMA ExecutedSame ==
    ASSUME NEW j \in Index, NEW mem, NEW s \in Slots,
           s \notin OutputPlaces(j) \cup StatePlaces(j) \cup Invocations[j].workspace
                       \cup Invocations[j].scratch
    PROVE  Executed(j, mem)[s] = mem[s]
<1>1. /\ ~ \E o \in DOMAIN Outputs(j) : Outputs(j)[o].slot = s
      /\ ~ \E i \in DOMAIN StatesOf(j) : StatesOf(j)[i].slot = s
  BY DEF OutputPlaces, StatePlaces
<1> QED
  BY <1>1 DEF Executed

\* The rows that each action of the session may change.
LEMMA Frames ==
    ASSUME SramInv
    PROVE  /\ PageInStates => Same(StatePlaces(index))
           /\ StatesThrow => Same(StatePlaces(index))
           /\ UploadInput => Same({Input.slot})
           /\ UploadInputThrows => Same({Input.slot})
           /\ TakeFromDevice => Same({Input.slot})
           /\ WeightPageArrives => Same(PageSlots(PageOf(index)))
           /\ PreparePages => Same(Invocations[index].constants \cup SlotsOf(index, ToLoad))
           /\ PreparePagesThrows => Same(Invocations[index].constants \cup SlotsOf(index, ToLoad))
           /\ ExecutionThrows => Same(Late(index) \cup SlotsOf(ahead.for, AheadInputs) \cup Unlike(sram, ahead.page))
           /\ \A i : LandAhead(i) => Same({Inputs(ahead.for)[i].slot})
           /\ LandPageAhead => Same(PageSlots(ahead.page))
           /\ index \in Index /\ Execute => Same(Late(index))
           /\ Settle => Same(SlotsOf(ahead.for, AheadInputs \ aheadLanded)
                              \cup IF 0 \in aheadLanded THEN {} ELSE PageSlots(ahead.page))
           /\ SettleThrows => Same(SlotsOf(ahead.for, AheadInputs \ aheadLanded)
                              \cup IF 0 \in aheadLanded THEN {} ELSE Unlike(sram, ahead.page))
<1>1. PageInStates => Same(StatePlaces(index))
  BY DEF Same, PageInStates, Upload, StatePlaces
<1>2. StatesThrow => Same(StatePlaces(index))
  BY DEF Same, StatesThrow, UploadThrows, Spoiled
<1>3. UploadInput => Same({Input.slot})
  BY DEF Same, UploadInput, Upload, SramInv
<1>4. UploadInputThrows => Same({Input.slot})
  BY DEF Same, UploadInputThrows, UploadThrows, Spoiled
<1>5. TakeFromDevice => Same({Input.slot})
  BY DEF Same, TakeFromDevice, SramInv
<1>6. WeightPageArrives => Same(PageSlots(PageOf(index)))
  BY DEF Same, WeightPageArrives, PageLanded
<1>7. PreparePages => Same(Invocations[index].constants \cup SlotsOf(index, ToLoad))
  BY DEF Same, PreparePages, Landed, SlotsOf, WithConstants
<1>8. PreparePagesThrows => Same(Invocations[index].constants \cup SlotsOf(index, ToLoad))
  BY DEF Same, PreparePagesThrows, Spoiled, SlotsOf, WithConstants
<1>9. ExecutionThrows => Same(Late(index) \cup SlotsOf(ahead.for, AheadInputs) \cup Unlike(sram, ahead.page))
  BY DEF Same, ExecutionThrows, Spoiled, Late
<1>10. \A i : LandAhead(i) => Same({Inputs(ahead.for)[i].slot})
  BY LandedSame DEF Same, LandAhead, SlotsOf
<1>11. LandPageAhead => Same(PageSlots(ahead.page))
  BY PageLandedSame DEF Same, LandPageAhead
<1>12. ASSUME index \in Index, Execute  PROVE  Same(Late(index))
  <2>1. ASSUME NEW s \in Slots \ Late(index)  PROVE  sram'[s] = sram[s]
    <3>1. Executed(index, Memory)[s] = Memory[s]
      BY <1>12, <2>1, ExecutedSame DEF Late
    <3>2. Memory[s] = sram[s]
      BY <2>1, LandedSame DEF Late, Memory
    <3> QED
      BY <1>12, <3>1, <3>2 DEF Execute
  <2> QED
    BY <2>1 DEF Same
<1>13. ASSUME Settle
      PROVE  Same(SlotsOf(ahead.for, AheadInputs \ aheadLanded)
                              \cup IF 0 \in aheadLanded THEN {} ELSE PageSlots(ahead.page))
  BY <1>13, LandedSame, PageLandedSame DEF Settle, Same
<1>14. ASSUME SettleThrows
      PROVE  Same(SlotsOf(ahead.for, AheadInputs \ aheadLanded)
                              \cup IF 0 \in aheadLanded THEN {} ELSE Unlike(sram, ahead.page))
  BY <1>14 DEF SettleThrows, Same, Spoiled
<1> QED
  BY <1>1, <1>2, <1>3, <1>4, <1>5, <1>6, <1>7, <1>8, <1>9, <1>10, <1>11, <1>12, <1>13, <1>14


\* The session writes rows of SRAM, never anything else.
LEMMA SramStep ==
    ASSUME SramInv, [Next]_vars
    PROVE  SramInv'
<1>1. CASE \E rows : sram' = [s \in Slots |-> rows[s]]
  BY <1>1 DEF SramInv
<1>2. CASE sram' = sram
  BY <1>2 DEF SramInv
<1>3. CASE \E s, x : sram' = [sram EXCEPT ![s] = x]
  BY <1>3 DEF SramInv
<1>4. CASE Calls \/ NextInvocation \/ FinishRun
  BY <1>1, <1>2, <1>4
     DEF Calls, Load, LoadFails, Spoiled, ResetStates, Run, RunWithoutIds, SetInput, SetState,
         RunInvocation, Enter, ForgetDevice, NextInvocation, FinishRun
<1>5. CASE Staging
  <2>1. ASSUME WeightPageArrives \/ WeightPageTimesOut \/ PageInStates  PROVE SramInv'
    BY <1>1, <2>1 DEF WeightPageArrives, WeightPageTimesOut, PageInStates, Upload, PageLanded, Spoiled
  <2>2. ASSUME NEW rows, UploadThrows(rows)  PROVE SramInv'
    BY <1>1, <1>2, <2>2 DEF UploadThrows, Spoiled
  <2>3. ASSUME StatesThrow \/ UploadInputThrows  PROVE SramInv'
    BY <1>2, <2>2, <2>3 DEF StatesThrow, UploadInputThrows
  <2>4. ASSUME UploadInput \/ TakeFromDevice  PROVE SramInv'
    BY <1>3, <2>4 DEF UploadInput, TakeFromDevice, Upload
  <2>5. ASSUME \/ KeepWeightPage \/ StartWeightPage \/ AwaitWeightPage \/ RefuseWeightPage
               \/ NoStates \/ SkipInput \/ TakePrefetched \/ RefuseInput
        PROVE  SramInv'
    BY <1>2, <2>5
       DEF KeepWeightPage, StartWeightPage, AwaitWeightPage, RefuseWeightPage, NoStates,
           SkipInput, TakePrefetched, RefuseInput
  <2> QED
    BY <1>5, <2>1, <2>3, <2>4, <2>5 DEF Staging
<1>6. CASE Execution
  BY <1>1, <1>2, <1>6
     DEF Execution, PreparePages, PreparePagesThrows, LookAhead, StayHere, LinkThrows, LandAhead,
         LandPageAhead, Execute, ExecutionThrows, Settle, SettleThrows,
         Landed, WithConstants, PageLanded, Spoiled, Executed
<1>7. CASE Egress
  BY <1>2, <1>7
     DEF Egress, PageOutStates, DeliverOutput, EgressThrows, FinishInvocation, transferVars
<1>8. CASE UNCHANGED vars
  BY <1>2, <1>8 DEF vars
<1> QED
  BY <1>4, <1>5, <1>6, <1>7, <1>8 DEF Next


-----------------------------------------------------------------------------
PageThere(p, mem) == \A s \in PageSlots(p) : mem[s] = TensorData(PageImage[p][s])

\* A page of the next invocation that has come stays until the program ends.
LandedInv ==
    phase \in {"running", "computed"} /\ 0 \in aheadLanded =>
        /\ PageThere(ahead.page, sram)
        /\ phase = "running" => ~HeldBack(index, PageSlots(ahead.page))

PagesInv == ReadyPageIsResident /\ LandedInv

\* The conjuncts of BindingsApart, each for itself.
LEMMA OneInputRow ==
    \A j \in Index : \A i, k \in DOMAIN Inputs(j) : Inputs(j)[i].slot = Inputs(j)[k].slot => i = k
  BY BindingsApart

LEMMA OneOutputRow ==
    \A j \in Index : \A o, k \in DOMAIN Outputs(j) :
        Outputs(j)[o].slot = Outputs(j)[k].slot => o = k
  BY BindingsApart

LEMMA OneStateRow ==
    \A j \in Index : \A i, k \in DOMAIN StatesOf(j) :
        StatesOf(j)[i].slot = StatesOf(j)[k].slot => i = k
  BY BindingsApart

LEMMA StatesApart ==
    \A j \in Index : StatePlaces(j) \cap (OutputPlaces(j) \cup Invocations[j].constants) = {}
  BY BindingsApart DEF Disjoint

LEMMA StatesOffPage ==
    \A j \in Index : (StatePlaces(j) \cup Invocations[j].constants) \cap PageSlots(PageOf(j)) = {}
  BY BindingsApart DEF Disjoint

LEMMA InputsOffStates ==
    \A j \in Index : \A i \in DOMAIN Inputs(j) :
        Inputs(j)[i].slot \notin StatePlaces(j) \cup Invocations[j].constants
<1> SUFFICES ASSUME NEW j \in Index, NEW i \in DOMAIN Inputs(j)
             PROVE  Inputs(j)[i].slot \notin StatePlaces(j) \cup Invocations[j].constants
  OBVIOUS
<1>1. Disjoint(SlotsOf(j, DOMAIN Inputs(j)), StatePlaces(j) \cup Invocations[j].constants)
  BY BindingsApart
<1>2. Inputs(j)[i].slot \in SlotsOf(j, DOMAIN Inputs(j))
  BY DEF SlotsOf
<1> QED
  BY <1>1, <1>2 DEF Disjoint

\* An input is in its page, and no other in the rows of a page.
LEMMA InputsAndPage ==
    \A j \in Index : \A i \in DOMAIN Inputs(j) :
        /\ Transfer(j, i) = "WeightPage" /\ i \notin Transported(j) =>
              /\ Inputs(j)[i].slot \in PageSlots(PageOf(j))
              /\ PageImage[PageOf(j)][Inputs(j)[i].slot] = Inputs(j)[i].value
        /\ Inputs(j)[i].slot \in PageSlots(PageOf(j)) =>
              Transfer(j, i) = "WeightPage" /\ i \notin Transported(j)
  BY BindingsApart

\* An input is not in the rows of others.
LEMMA RowOutside ==
    ASSUME NEW j \in Index, NEW i \in DOMAIN Inputs(j), NEW set,
           set \subseteq DOMAIN Inputs(j), i \notin set
    PROVE  Inputs(j)[i].slot \notin SlotsOf(j, set)
<1>1. \A k \in set : Inputs(j)[k].slot # Inputs(j)[i].slot
  BY OneInputRow
<1> QED
  BY <1>1 DEF SlotsOf

\* A page is not touched by an invocation that uses it or needs none.
LEMMA PageRows ==
    ASSUME NEW j \in Index, NEW p \in Pages, PageOf(j) \in {p, NoPage}
    PROVE  /\ Disjoint(PageSlots(p), Late(j))
           /\ Disjoint(PageSlots(p), StatePlaces(j))
           /\ Disjoint(PageSlots(p), Invocations[j].constants)
           /\ Disjoint(PageSlots(p), SlotsOf(j, Preloaded(j)))
           /\ Disjoint(PageSlots(p), SlotsOf(j, Uploaded(j)))
<1>1. /\ Disjoint(PageSlots(p), Early(j) \ PageSlots(PageOf(j)))
      /\ Disjoint(PageSlots(p), Late(j))
  BY PagesApart DEF Disjoint
<1>2. PageSlots(PageOf(j)) \cap (StatePlaces(j) \cup Invocations[j].constants) = {}
  BY StatesOffPage
<1>3. \A i \in Preloaded(j) \cup Uploaded(j) :
          i \in DOMAIN Inputs(j) /\ Inputs(j)[i].slot \notin PageSlots(PageOf(j))
  BY InputsAndPage DEF Preloaded, Uploaded, Transported, Transfer
<1>4. SlotsOf(j, Preloaded(j) \cup Uploaded(j)) \cap PageSlots(PageOf(j)) = {}
  BY <1>3 DEF SlotsOf
<1>5. /\ StatePlaces(j) \cup Invocations[j].constants \subseteq Early(j)
      /\ SlotsOf(j, Preloaded(j)) \subseteq Early(j) /\ SlotsOf(j, Uploaded(j)) \subseteq Early(j)
      /\ SlotsOf(j, Preloaded(j)) \subseteq SlotsOf(j, Preloaded(j) \cup Uploaded(j))
      /\ SlotsOf(j, Uploaded(j)) \subseteq SlotsOf(j, Preloaded(j) \cup Uploaded(j))
  BY DEF Early, EarlyBut, SlotsOf
<1> QED
  BY <1>1, <1>2, <1>4, <1>5 DEF Disjoint

\* A page is there as long as other rows change.
LEMMA PageStays ==
    ASSUME NEW p \in Pages \cup {NoPage}, NEW rows, Same(rows), Disjoint(PageSlots(p), rows),
           PageThere(p, sram)
    PROVE  PageThere(p, sram')
BY Places DEF Same, Disjoint, PageThere

\* The input at the cursor goes through the pager or comes from the device.
LEMMA UploadedInput ==
    ASSUME AtInput, Input.kind # "prefetch", FromHost \/ FromDevice
    PROVE  cursor \in Uploaded(index) /\ Input.slot \in SlotsOf(index, Uploaded(index))
<1>1. Input.value \notin Tensors
  BY DEF FromHost, FromDevice, Transfer, Input
<1> QED
  BY <1>1 DEF AtInput, Uploaded, SlotsOf, Input

\* The lookahead of the program that runs.
LEMMA AheadRows ==
    ASSUME ControlInv, phase \in {"running", "computed"}
    PROVE  /\ index \in Index
           /\ \/ ahead = NoLookahead /\ AheadInputs = {} /\ ahead.for = 0 /\ ahead.page = NoPage
              \/ /\ Looking(index) /\ ahead = AheadOf(index) /\ ahead.for = index + 1
                 /\ AheadInputs = Preloaded(index + 1) /\ ahead.page = NextPage(index)
                 /\ ahead.images = PackedTensors(index + 1) /\ index + 1 \in Index
                 /\ SlotsOf(ahead.for, AheadInputs) = NextInputs(index)
<1>1. index \in Index /\ ahead.for \in {0, index + 1}
  BY DEF ControlInv, TypeOK, PlaceInv
<1>2. CASE ahead = NoLookahead
  BY <1>1, <1>2 DEF NoLookahead, AheadInputs
<1>3. ASSUME NEW j \in Index, Looking(j), ahead = AheadOf(j)
      PROVE  j = index
  BY <1>1, <1>3, Numbers DEF AheadOf, Looking
<1>4. CASE Looking(index) /\ ahead = AheadOf(index)
  <2>1. /\ ahead.for = index + 1 /\ ahead.page = NextPage(index)
        /\ ahead.images = PackedTensors(index + 1) /\ index + 1 # 0 /\ index + 1 \in Index
    BY <1>1, <1>4, Numbers DEF AheadOf, Looking, Index
  <2> QED
    BY <1>1, <1>4, <2>1 DEF AheadInputs, NextInputs, Looking
<1> QED
  BY <1>1, <1>2, <1>3, <1>4 DEF ControlInv, AheadInv

\* What comes ahead leaves the page that is ready, and its own page, alone.
LEMMA AheadApart ==
    ASSUME ControlInv, phase \in {"running", "computed"}
    PROVE  /\ Disjoint(PageSlots(ahead.page), SlotsOf(ahead.for, AheadInputs))
           /\ ready # NoPage => Disjoint(PageSlots(ready), SlotsOf(ahead.for, AheadInputs))
           /\ ready \notin {NoPage, ahead.page} => Disjoint(PageSlots(ready), PageSlots(ahead.page))
<1>1. index \in Index /\ PageOf(index) \in {ready, NoPage} /\ ready \in Pages \cup {NoPage}
  BY DEF ControlInv, TypeOK, PlaceInv
<1>2. CASE AheadInputs = {} /\ ahead.page = NoPage
  BY <1>2, Places DEF SlotsOf, Disjoint
<1>3. CASE /\ ahead.page = NextPage(index)
           /\ SlotsOf(ahead.for, AheadInputs) = NextInputs(index)
  <2>1. /\ NextInputs(index) \subseteq Ahead(index)
        /\ PageSlots(NextPage(index)) \subseteq Ahead(index)
    BY DEF Ahead
  <2>2. ready # NoPage /\ ready # NextPage(index) => Disjoint(PageSlots(ready), Ahead(index))
    BY <1>1, PagesApart
  <2>3. Disjoint(PageSlots(NextPage(index)), NextInputs(index))
    <3>1. CASE NextPage(index) = NoPage
      BY <3>1, Places DEF Disjoint
    <3>2. CASE NextPage(index) # NoPage
      <4>1. NextPage(index) \in Pages
        BY <1>1, <3>2, InvocationTypes, Numbers DEF NextPage, Index
      <4> QED
        BY <1>1, <3>2, <4>1, PagesApart
    <3> QED
      BY <3>1, <3>2
  <2> QED
    BY <1>3, <2>1, <2>2, <2>3 DEF Disjoint
<1> QED
  BY <1>2, <1>3, AheadRows

\* The rows of the program and its page of the next invocation.
LEMMA HeldBackApart ==
    ASSUME NEW j \in Index, ~HeldBack(j, PageSlots(NextPage(j)))
    PROVE  Disjoint(PageSlots(NextPage(j)), Late(j))
<1>1. Disjoint(PageSlots(NextPage(j)), BoundSlots(j))
  BY DEF HeldBack, Disjoint
<1>2. Disjoint(PageSlots(NextPage(j)), Invocations[j].scratch)
  BY LookaheadApart DEF Ahead, Disjoint
<1>3. SlotsOf(j, Transported(j) \ Preloaded(j)) \subseteq SlotsOf(j, DOMAIN Inputs(j))
  BY DEF SlotsOf, Transported
<1>4. Late(j) \subseteq BoundSlots(j) \cup Invocations[j].scratch
  BY <1>3 DEF Late, BoundSlots
<1> QED
  BY <1>1, <1>2, <1>4 DEF Disjoint


\* The page that is ready stays when other rows change and nothing runs.
LEMMA PagesKept ==
    ASSUME ControlInv, PagesInv, NEW rows, Same(rows), ready' \in {ready, NoPage},
           ready # NoPage => Disjoint(PageSlots(ready), rows),
           phase' \in {"running", "computed"} => aheadLanded' = {}
    PROVE  PagesInv'
<1>1. PageThere(ready, sram) => ready = NoPage \/ PageThere(ready, sram')
  BY PageStays DEF ControlInv, TypeOK
<1>2. ready # NoPage => PageThere(ready, sram)
  BY DEF PagesInv, ReadyPageIsResident, PageThere
<1> QED
  BY <1>1, <1>2 DEF PagesInv, ReadyPageIsResident, LandedInv, PageThere

\* A page that is ready already is not spoiled by its own transfer.
LEMMA UnlikeApart ==
    ASSUME ControlInv, PagesInv, phase \in {"running", "computed"}, ready # NoPage
    PROVE  Disjoint(PageSlots(ready), Unlike(sram, ahead.page))
<1>1. CASE ready = ahead.page
  BY <1>1 DEF PagesInv, ReadyPageIsResident, Unlike, Disjoint
<1>2. CASE ready # ahead.page
  BY <1>2, AheadApart DEF Unlike, Disjoint
<1> QED
  BY <1>1, <1>2

\* The page that is ready, and the one that came ahead, stay in SRAM.
LEMMA PagesStep ==
    ASSUME ControlInv, SramInv, PagesInv, [Next]_vars
    PROVE  PagesInv'
<1> USE Numbers DEF hostVars, deviceVars, pagerVars, transferVars, controlVars, ghostVars
<1>1. ASSUME Load  PROVE  PagesInv'
  <2>1. ready' = NoPage /\ phase' = "idle"
    BY <1>1 DEF Load, Call, Returned, DropPackage
  <2> QED
    BY <2>1 DEF PagesInv, ReadyPageIsResident, LandedInv
<1>2. ASSUME LoadFails  PROVE  PagesInv'
  <2>1. ready' = NoPage /\ phase' = "idle"
    BY <1>2 DEF LoadFails, Call, Returned, DropPackage
  <2> QED
    BY <2>1 DEF PagesInv, ReadyPageIsResident, LandedInv
<1>3. ASSUME ResetStates  PROVE  PagesInv'
  <2>1. Same({}) /\ ready' \in {ready, NoPage}
        /\ (phase' \in {"running", "computed"} => aheadLanded' = {})
    BY <1>3 DEF ResetStates, Call, Returned, ControlInv, PlaceInv, Same
  <2> QED
    BY <2>1, PagesKept DEF Disjoint
<1>4. ASSUME Run  PROVE  PagesInv'
  <2>1. Same({}) /\ ready' \in {ready, NoPage}
        /\ (phase' \in {"running", "computed"} => aheadLanded' = {})
    BY <1>4 DEF Run, Call, Usable, ForgetDevice, ControlInv, PlaceInv, Same
  <2> QED
    BY <2>1, PagesKept DEF Disjoint
<1>5. ASSUME RunWithoutIds  PROVE  PagesInv'
  <2>1. Same({}) /\ ready' \in {ready, NoPage}
        /\ (phase' \in {"running", "computed"} => aheadLanded' = {})
    BY <1>5 DEF RunWithoutIds, Call, Usable, ForgetDevice, ControlInv, PlaceInv, Same
  <2> QED
    BY <2>1, PagesKept DEF Disjoint
<1>6. ASSUME \E v \in ExternalInputs : \E n \in Choices[v] : SetInput(v, n)
      PROVE  PagesInv'
  <2>1. Same({}) /\ ready' \in {ready, NoPage}
        /\ (phase' \in {"running", "computed"} => aheadLanded' = {})
    BY <1>6 DEF SetInput, Call, Returned, ControlInv, PlaceInv, Same
  <2> QED
    BY <2>1, PagesKept DEF Disjoint
<1>7. ASSUME \E s \in States : \E n \in Choices[s] : SetState(s, n)
      PROVE  PagesInv'
  <2>1. Same({}) /\ ready' \in {ready, NoPage}
        /\ (phase' \in {"running", "computed"} => aheadLanded' = {})
    BY <1>7 DEF SetState, Call, Returned, ControlInv, PlaceInv, Same
  <2> QED
    BY <2>1, PagesKept DEF Disjoint
<1>8. ASSUME \E j \in Index : RunInvocation(j)
      PROVE  PagesInv'
  <2>1. Same({}) /\ ready' \in {ready, NoPage}
        /\ (phase' \in {"running", "computed"} => aheadLanded' = {})
    BY <1>8 DEF RunInvocation, Call, Usable, Enter, ControlInv, PlaceInv, Same
  <2> QED
    BY <2>1, PagesKept DEF Disjoint
<1>9. ASSUME NextInvocation  PROVE  PagesInv'
  <2>1. Same({}) /\ ready' \in {ready, NoPage}
        /\ (phase' \in {"running", "computed"} => aheadLanded' = {})
    BY <1>9 DEF NextInvocation, Enter, Index, ControlInv, PlaceInv, Same
  <2> QED
    BY <2>1, PagesKept DEF Disjoint
<1>10. ASSUME FinishRun  PROVE  PagesInv'
  <2>1. Same({}) /\ ready' \in {ready, NoPage}
        /\ (phase' \in {"running", "computed"} => aheadLanded' = {})
    BY <1>10 DEF FinishRun, ControlInv, PlaceInv, Same
  <2> QED
    BY <2>1, PagesKept DEF Disjoint
<1>11. ASSUME KeepWeightPage  PROVE  PagesInv'
  <2>1. Same({}) /\ ready' \in {ready, NoPage}
        /\ (phase' \in {"running", "computed"} => aheadLanded' = {})
    BY <1>11 DEF KeepWeightPage, PageIsHere, Go, ControlInv, PlaceInv, Same
  <2> QED
    BY <2>1, PagesKept DEF Disjoint
<1>12. ASSUME StartWeightPage  PROVE  PagesInv'
  <2>1. Same({}) /\ ready' \in {ready, NoPage}
        /\ (phase' \in {"running", "computed"} => aheadLanded' = {})
    BY <1>12 DEF StartWeightPage, PageIsHere, Go, ControlInv, PlaceInv, Same
  <2> QED
    BY <2>1, PagesKept DEF Disjoint
<1>13. ASSUME AwaitWeightPage  PROVE  PagesInv'
  <2>1. Same({}) /\ ready' \in {ready, NoPage}
        /\ (phase' \in {"running", "computed"} => aheadLanded' = {})
    BY <1>13 DEF AwaitWeightPage, PageIsHere, Go, ControlInv, PlaceInv, Same
  <2> QED
    BY <2>1, PagesKept DEF Disjoint
<1>14. ASSUME RefuseWeightPage  PROVE  PagesInv'
  <2>1. Same({}) /\ ready' \in {ready, NoPage}
        /\ (phase' \in {"running", "computed"} => aheadLanded' = {})
    BY <1>14 DEF RefuseWeightPage, Throw, ControlInv, PlaceInv, Same
  <2> QED
    BY <2>1, PagesKept DEF Disjoint
<1>15. ASSUME WeightPageArrives  PROVE  PagesInv'
  <2>1. /\ sram' = PageLanded(sram, PageOf(index)) /\ ready' = PageOf(index)
        /\ phase' = "states" /\ index \in Index
    BY <1>15 DEF WeightPageArrives, Go, ControlInv, TypeOK
  <2>2. PageSlots(PageOf(index)) \subseteq Slots
    BY <2>1, Places, InvocationTypes
  <2>3. \A s \in PageSlots(PageOf(index)) : sram'[s] = TensorData(PageImage[PageOf(index)][s])
    BY <2>1, <2>2, PageLandedSame
  <2> QED
    BY <2>1, <2>3 DEF PagesInv, ReadyPageIsResident, LandedInv
<1>16. ASSUME WeightPageTimesOut  PROVE  PagesInv'
  <2>1. ready' = NoPage /\ phase' = "idle"
    BY <1>16 DEF WeightPageTimesOut, Throw, ControlInv, PlaceInv
  <2> QED
    BY <2>1 DEF PagesInv, ReadyPageIsResident, LandedInv
<1>17. ASSUME PageInStates  PROVE  PagesInv'
  <2>1. Same(StatePlaces(index)) /\ ready' = ready /\ phase' \in {"inputs", "idle"}
        /\ phase = "states" /\ index \in Index
    BY <1>17, Frames DEF PageInStates, Upload, UploadThrows, Go, Throw, ControlInv, TypeOK
  <2>2. ready # NoPage => Disjoint(PageSlots(ready), StatePlaces(index))
    BY <2>1, PageRows DEF ControlInv, TypeOK, PlaceInv
  <2> QED
    BY <2>1, <2>2, PagesKept
<1>18. ASSUME NoStates  PROVE  PagesInv'
  <2>1. Same({}) /\ ready' \in {ready, NoPage}
        /\ (phase' \in {"running", "computed"} => aheadLanded' = {})
    BY <1>18 DEF NoStates, Go, ControlInv, PlaceInv, Same
  <2> QED
    BY <2>1, PagesKept DEF Disjoint
<1>19. ASSUME StatesThrow  PROVE  PagesInv'
  <2>1. Same(StatePlaces(index)) /\ ready' = ready /\ phase' \in {"inputs", "idle"}
        /\ phase = "states" /\ index \in Index
    BY <1>19, Frames DEF StatesThrow, Upload, UploadThrows, Go, Throw, ControlInv, TypeOK
  <2>2. ready # NoPage => Disjoint(PageSlots(ready), StatePlaces(index))
    BY <2>1, PageRows DEF ControlInv, TypeOK, PlaceInv
  <2> QED
    BY <2>1, <2>2, PagesKept
<1>20. ASSUME SkipInput  PROVE  PagesInv'
  <2>1. Same({}) /\ ready' \in {ready, NoPage}
        /\ (phase' \in {"running", "computed"} => aheadLanded' = {})
    BY <1>20 DEF SkipInput, AtInput, NextInput, Go, ControlInv, PlaceInv, Same
  <2> QED
    BY <2>1, PagesKept DEF Disjoint
<1>21. ASSUME TakePrefetched  PROVE  PagesInv'
  <2>1. Same({}) /\ ready' \in {ready, NoPage}
        /\ (phase' \in {"running", "computed"} => aheadLanded' = {})
    BY <1>21 DEF TakePrefetched, AtInput, NextInput, Go, Input, Prefetched, ControlInv, PlaceInv, Same
  <2> QED
    BY <2>1, PagesKept DEF Disjoint
<1>22. ASSUME UploadInput  PROVE  PagesInv'
  <2>1. Same({Input.slot}) /\ ready' = ready /\ phase' \in {"inputs", "idle"}
        /\ phase = "inputs" /\ index \in Index
    BY <1>22, Frames DEF UploadInput, AtInput, NextInput, Upload, UploadThrows, Go, Throw, ControlInv, TypeOK
  <2>2. Input.slot \in SlotsOf(index, Uploaded(index))
    BY <1>22, UploadedInput DEF UploadInput
  <2>3. ready # NoPage => Disjoint(PageSlots(ready), SlotsOf(index, Uploaded(index)))
    BY <2>1, PageRows DEF ControlInv, TypeOK, PlaceInv
  <2>4. ready # NoPage => Disjoint(PageSlots(ready), {Input.slot})
    BY <2>2, <2>3 DEF Disjoint
  <2> QED
    BY <2>1, <2>4, PagesKept
<1>23. ASSUME UploadInputThrows  PROVE  PagesInv'
  <2>1. Same({Input.slot}) /\ ready' = ready /\ phase' \in {"inputs", "idle"}
        /\ phase = "inputs" /\ index \in Index
    BY <1>23, Frames DEF UploadInputThrows, AtInput, NextInput, Upload, UploadThrows, Go, Throw, ControlInv, TypeOK
  <2>2. Input.slot \in SlotsOf(index, Uploaded(index))
    BY <1>23, UploadedInput DEF UploadInputThrows
  <2>3. ready # NoPage => Disjoint(PageSlots(ready), SlotsOf(index, Uploaded(index)))
    BY <2>1, PageRows DEF ControlInv, TypeOK, PlaceInv
  <2>4. ready # NoPage => Disjoint(PageSlots(ready), {Input.slot})
    BY <2>2, <2>3 DEF Disjoint
  <2> QED
    BY <2>1, <2>4, PagesKept
<1>24. ASSUME TakeFromDevice  PROVE  PagesInv'
  <2>1. Same({Input.slot}) /\ ready' = ready /\ phase' \in {"inputs", "idle"}
        /\ phase = "inputs" /\ index \in Index
    BY <1>24, Frames DEF TakeFromDevice, AtInput, NextInput, Upload, UploadThrows, Go, Throw, ControlInv, TypeOK
  <2>2. Input.slot \in SlotsOf(index, Uploaded(index))
    BY <1>24, UploadedInput DEF TakeFromDevice
  <2>3. ready # NoPage => Disjoint(PageSlots(ready), SlotsOf(index, Uploaded(index)))
    BY <2>1, PageRows DEF ControlInv, TypeOK, PlaceInv
  <2>4. ready # NoPage => Disjoint(PageSlots(ready), {Input.slot})
    BY <2>2, <2>3 DEF Disjoint
  <2> QED
    BY <2>1, <2>4, PagesKept
<1>25. ASSUME RefuseInput  PROVE  PagesInv'
  <2>1. Same({}) /\ ready' \in {ready, NoPage}
        /\ (phase' \in {"running", "computed"} => aheadLanded' = {})
    BY <1>25 DEF RefuseInput, AtInput, Throw, ControlInv, PlaceInv, Same
  <2> QED
    BY <2>1, PagesKept DEF Disjoint
<1>26. ASSUME PreparePages  PROVE  PagesInv'
  <2>1. /\ Same(Invocations[index].constants \cup SlotsOf(index, ToLoad)) /\ ready' = ready
        /\ phase' \in {"linking", "idle"} /\ phase = "inputs" /\ index \in Index
    BY <1>26, Frames DEF PreparePages, InputsReady, Go, Throw, ControlInv, TypeOK
  <2>2. SlotsOf(index, ToLoad) \subseteq SlotsOf(index, Preloaded(index))
    BY DEF ToLoad, SlotsOf
  <2>3. ready # NoPage => /\ Disjoint(PageSlots(ready), Invocations[index].constants)
                          /\ Disjoint(PageSlots(ready), SlotsOf(index, Preloaded(index)))
    BY <2>1, PageRows DEF ControlInv, TypeOK, PlaceInv
  <2>4. ready # NoPage => Disjoint(PageSlots(ready), Invocations[index].constants
                                                         \cup SlotsOf(index, ToLoad))
    BY <2>2, <2>3 DEF Disjoint
  <2> QED
    BY <2>1, <2>4, PagesKept
<1>27. ASSUME PreparePagesThrows  PROVE  PagesInv'
  <2>1. /\ Same(Invocations[index].constants \cup SlotsOf(index, ToLoad)) /\ ready' = ready
        /\ phase' \in {"linking", "idle"} /\ phase = "inputs" /\ index \in Index
    BY <1>27, Frames DEF PreparePagesThrows, InputsReady, Go, Throw, ControlInv, TypeOK
  <2>2. SlotsOf(index, ToLoad) \subseteq SlotsOf(index, Preloaded(index))
    BY DEF ToLoad, SlotsOf
  <2>3. ready # NoPage => /\ Disjoint(PageSlots(ready), Invocations[index].constants)
                          /\ Disjoint(PageSlots(ready), SlotsOf(index, Preloaded(index)))
    BY <2>1, PageRows DEF ControlInv, TypeOK, PlaceInv
  <2>4. ready # NoPage => Disjoint(PageSlots(ready), Invocations[index].constants
                                                         \cup SlotsOf(index, ToLoad))
    BY <2>2, <2>3 DEF Disjoint
  <2> QED
    BY <2>1, <2>4, PagesKept
<1>28. ASSUME LookAhead  PROVE  PagesInv'
  <2>1. Same({}) /\ ready' \in {ready, NoPage}
        /\ (phase' \in {"running", "computed"} => aheadLanded' = {})
    BY <1>28 DEF LookAhead, Go, CanLookAhead, ControlInv, PlaceInv, Same
  <2> QED
    BY <2>1, PagesKept DEF Disjoint
<1>29. ASSUME StayHere  PROVE  PagesInv'
  <2>1. Same({}) /\ ready' \in {ready, NoPage}
        /\ (phase' \in {"running", "computed"} => aheadLanded' = {})
    BY <1>29 DEF StayHere, Go, NoLookahead, ControlInv, PlaceInv, Same
  <2> QED
    BY <2>1, PagesKept DEF Disjoint
<1>30. ASSUME LinkThrows  PROVE  PagesInv'
  <2>1. Same({}) /\ ready' \in {ready, NoPage}
        /\ (phase' \in {"running", "computed"} => aheadLanded' = {})
    BY <1>30 DEF LinkThrows, Throw, CanLookAhead, NoLookahead, ControlInv, PlaceInv, Same
  <2> QED
    BY <2>1, PagesKept DEF Disjoint
<1>31. ASSUME \E i \in AheadInputs : LandAhead(i)
      PROVE  PagesInv'
  <2>1. PICK i \in AheadInputs : LandAhead(i)
    BY <1>31
  <2>2. /\ Same({Inputs(ahead.for)[i].slot}) /\ phase = "running"
        /\ UNCHANGED <<phase, ready, ahead, index>> /\ aheadLanded' = aheadLanded \cup {i}
    BY <2>1, Frames DEF LandAhead
  <2>3. Inputs(ahead.for)[i].slot \in SlotsOf(ahead.for, AheadInputs) /\ i # 0
    BY <2>2, AheadRows, InvocationTypes DEF SlotsOf, Preloaded, Transported
  <2>4. PageThere(ready, sram) /\ ready # NoPage => PageThere(ready, sram')
    BY <2>2, <2>3, AheadApart, PageStays DEF Disjoint, ControlInv, TypeOK
  <2>5. PageThere(ahead.page, sram) => PageThere(ahead.page, sram')
    <3>1. ahead.page \in Pages \cup {NoPage}
      BY DEF ControlInv, TypeOK
    <3>2. Disjoint(PageSlots(ahead.page), {Inputs(ahead.for)[i].slot})
      BY <2>2, <2>3, AheadApart DEF Disjoint
    <3> QED
      BY <2>2, <3>1, <3>2, PageStays
  <2> QED
    BY <2>2, <2>3, <2>4, <2>5 DEF PagesInv, ReadyPageIsResident, LandedInv, PageThere
<1>32. ASSUME LandPageAhead  PROVE  PagesInv'
  <2>1. /\ Same(PageSlots(ahead.page)) /\ phase = "running" /\ sram' = PageLanded(sram, ahead.page)
        /\ UNCHANGED <<phase, ready, ahead, index>> /\ ~HeldBack(index, PageSlots(ahead.page))
    BY <1>32, Frames DEF LandPageAhead
  <2>2. PageThere(ahead.page, sram')
    <3>1. PageSlots(ahead.page) \subseteq Slots
      BY Places DEF ControlInv, TypeOK
    <3>2. \A s \in PageSlots(ahead.page) :
              PageLanded(sram, ahead.page)[s] = TensorData(PageImage[ahead.page][s])
      BY <3>1 DEF PageLanded
    <3>3. sram' = PageLanded(sram, ahead.page)
      BY <2>1
    <3> QED
      BY <3>2, <3>3 DEF PageThere
  <2>3. ready \notin {NoPage, ahead.page} /\ PageThere(ready, sram) => PageThere(ready, sram')
    BY <2>1, AheadApart, PageStays DEF ControlInv, TypeOK
  <2> QED
    BY <2>1, <2>2, <2>3 DEF PagesInv, ReadyPageIsResident, LandedInv, PageThere
<1>33. ASSUME Execute  PROVE  PagesInv'
  <2>1. /\ index \in Index /\ Same(Late(index)) /\ phase = "running" /\ phase' = "computed"
        /\ UNCHANGED <<ready, ahead, aheadLanded>>
    BY <1>33, Frames DEF Execute, ControlInv, TypeOK
  <2>2. ready # NoPage => Disjoint(PageSlots(ready), Late(index))
    BY <2>1, PageRows DEF ControlInv, TypeOK, PlaceInv
  <2>3. PageThere(ready, sram) /\ ready # NoPage => PageThere(ready, sram')
    BY <2>1, <2>2, PageStays DEF ControlInv, TypeOK
  <2>4. ASSUME 0 \in aheadLanded  PROVE  PageThere(ahead.page, sram')
    <3>1. PageThere(ahead.page, sram) /\ ~HeldBack(index, PageSlots(ahead.page))
      BY <2>1, <2>4 DEF PagesInv, LandedInv
    <3>2. ahead.page = NoPage \/ ahead.page = NextPage(index)
      BY <2>1, AheadRows
    <3>3. Disjoint(PageSlots(ahead.page), Late(index))
      BY <2>1, <3>1, <3>2, HeldBackApart, Places DEF Disjoint
    <3> QED
      BY <2>1, <3>1, <3>3, PageStays DEF ControlInv, TypeOK
  <2> QED
    BY <2>1, <2>3, <2>4 DEF PagesInv, ReadyPageIsResident, LandedInv, PageThere
<1>34. ASSUME ExecutionThrows  PROVE  PagesInv'
  <2>1. /\ index \in Index /\ phase = "running" /\ phase' = "idle" /\ ready' = ready
        /\ Same(Late(index) \cup SlotsOf(ahead.for, AheadInputs) \cup Unlike(sram, ahead.page))
    BY <1>34, Frames DEF ExecutionThrows, Throw, ControlInv, TypeOK
  <2>2. ready # NoPage => Disjoint(PageSlots(ready), Late(index))
    BY <2>1, PageRows DEF ControlInv, TypeOK, PlaceInv
  <2>3. ready # NoPage => Disjoint(PageSlots(ready), Unlike(sram, ahead.page))
    BY <2>1, UnlikeApart
  <2>4. ready # NoPage => Disjoint(PageSlots(ready), SlotsOf(ahead.for, AheadInputs))
    BY <2>1, AheadApart
  <2>5. ready # NoPage => Disjoint(PageSlots(ready),
                 Late(index) \cup SlotsOf(ahead.for, AheadInputs) \cup Unlike(sram, ahead.page))
    BY <2>2, <2>3, <2>4 DEF Disjoint
  <2> QED
    BY <2>1, <2>5, PagesKept
<1>35. ASSUME Settle  PROVE  PagesInv'
  <2> DEFINE rows == SlotsOf(ahead.for, AheadInputs \ aheadLanded)
                        \cup IF 0 \in aheadLanded THEN {} ELSE PageSlots(ahead.page)
  <2>1. /\ index \in Index /\ phase = "computed" /\ phase' = "stateout" /\ Same(rows)
        /\ ready' = IF ahead.page = NoPage THEN ready ELSE ahead.page
    BY <1>35, Frames DEF Settle, Go, ControlInv, TypeOK
  <2>2. SlotsOf(ahead.for, AheadInputs \ aheadLanded) \subseteq SlotsOf(ahead.for, AheadInputs)
    BY DEF SlotsOf
  <2>3. CASE ahead.page = NoPage
    <3>1. rows \subseteq SlotsOf(ahead.for, AheadInputs)
      BY <2>2, <2>3, Places
    <3>2. ready # NoPage => Disjoint(PageSlots(ready), rows)
      BY <2>1, <3>1, AheadApart DEF Disjoint
    <3> HIDE DEF rows
    <3> QED
      BY <2>1, <2>3, <3>2, PagesKept
  <2>4. CASE ahead.page # NoPage
    <3>1. PageThere(ahead.page, sram')
      <4>1. CASE 0 \in aheadLanded
        <5>1. Disjoint(PageSlots(ahead.page), rows)
          BY <2>1, <2>2, <4>1, AheadApart DEF Disjoint
        <5>2. PageThere(ahead.page, sram)
          BY <2>1, <4>1 DEF PagesInv, LandedInv
        <5> HIDE DEF rows
        <5> QED
          BY <2>1, <5>1, <5>2, PageStays DEF ControlInv, TypeOK
      <4>2. CASE 0 \notin aheadLanded
        <5>1. sram' = PageLanded(Landed(sram, ahead.for, AheadInputs \ aheadLanded, ahead.images),
                                 ahead.page)
          BY <1>35, <4>2 DEF Settle
        <5>2. PageSlots(ahead.page) \subseteq Slots
          BY Places DEF ControlInv, TypeOK
        <5> HIDE DEF rows
        <5> QED
          BY <5>1, <5>2, PageLandedSame DEF PageThere
      <4> QED
        BY <4>1, <4>2
    <3> QED
      BY <2>1, <2>4, <3>1 DEF PagesInv, ReadyPageIsResident, LandedInv, PageThere
  <2> QED
    BY <2>3, <2>4
<1>36. ASSUME SettleThrows  PROVE  PagesInv'
  <2> DEFINE rows == SlotsOf(ahead.for, AheadInputs \ aheadLanded)
                        \cup IF 0 \in aheadLanded THEN {} ELSE Unlike(sram, ahead.page)
  <2>1. index \in Index /\ phase = "computed" /\ phase' = "idle" /\ ready' = ready /\ Same(rows)
    BY <1>36, Frames DEF SettleThrows, Throw, ControlInv, TypeOK
  <2>2. rows \subseteq SlotsOf(ahead.for, AheadInputs) \cup Unlike(sram, ahead.page)
    BY DEF SlotsOf
  <2>3. ready # NoPage => Disjoint(PageSlots(ready), rows)
    BY <2>1, <2>2, UnlikeApart, AheadApart DEF Disjoint
  <2> HIDE DEF rows
  <2> QED
    BY <2>1, <2>3, PagesKept
<1>37. ASSUME PageOutStates  PROVE  PagesInv'
  <2>1. Same({}) /\ ready' \in {ready, NoPage}
        /\ (phase' \in {"running", "computed"} => aheadLanded' = {})
    BY <1>37 DEF PageOutStates, ControlInv, PlaceInv, Same
  <2> QED
    BY <2>1, PagesKept DEF Disjoint
<1>38. ASSUME DeliverOutput  PROVE  PagesInv'
  <2>1. Same({}) /\ ready' \in {ready, NoPage}
        /\ (phase' \in {"running", "computed"} => aheadLanded' = {})
    BY <1>38 DEF DeliverOutput, ControlInv, PlaceInv, Same
  <2> QED
    BY <2>1, PagesKept DEF Disjoint
<1>39. ASSUME EgressThrows  PROVE  PagesInv'
  <2>1. Same({}) /\ ready' \in {ready, NoPage}
        /\ (phase' \in {"running", "computed"} => aheadLanded' = {})
    BY <1>39 DEF EgressThrows, Throw, ControlInv, PlaceInv, Same
  <2> QED
    BY <2>1, PagesKept DEF Disjoint
<1>40. ASSUME FinishInvocation  PROVE  PagesInv'
  <2>1. Same({}) /\ ready' \in {ready, NoPage}
        /\ (phase' \in {"running", "computed"} => aheadLanded' = {})
    BY <1>40 DEF FinishInvocation, ControlInv, PlaceInv, Same
  <2> QED
    BY <2>1, PagesKept DEF Disjoint
<1>41. CASE UNCHANGED vars
  BY <1>41 DEF vars, PagesInv, ReadyPageIsResident, LandedInv, PageThere
<1> HIDE DEF hostVars, deviceVars, pagerVars, transferVars, controlVars, ghostVars
<1> QED
  BY <1>1, <1>2, <1>3, <1>4, <1>5, <1>6, <1>7, <1>8, <1>9, <1>10, <1>11, <1>12, <1>13, <1>14, <1>15, <1>16, <1>17, <1>18, <1>19, <1>20, <1>21, <1>22, <1>23, <1>24, <1>25, <1>26, <1>27, <1>28, <1>29, <1>30, <1>31, <1>32, <1>33, <1>34, <1>35, <1>36, <1>37, <1>38, <1>39, <1>40, <1>41
     DEF Next, Calls, Staging, Execution, Egress

\* The page that the session names ready is in SRAM, untouched by programs,
\* uploads and the transfers of later invocations (ready_weight_page_).
THEOREM ReadyPageStays == Spec => []ReadyPageIsResident
<1>1. Init => SramInv /\ PagesInv
  BY DEF Init, SramInv, PagesInv, ReadyPageIsResident, LandedInv
<1>2. ControlInv /\ SramInv /\ PagesInv /\ [Next]_vars => SramInv' /\ PagesInv'
  BY SramStep, PagesStep
<1>3. PagesInv => ReadyPageIsResident
  BY DEF PagesInv
<1> QED
  BY <1>1, <1>2, <1>3, ControlInvariant, PTL DEF Spec

-----------------------------------------------------------------------------
(***************************************************************************)
(* Proofs that the data of a session are right: whatever an invocation     *)
(* reads is current, its results stay until they are delivered, and the    *)
(* session implements ModelSemantics.                                      *)
(***************************************************************************)
Current(v) == Semantics!Current(v)

(***************************************************************************)
(* Tensors that were uploaded by load() are never written again.           *)
(***************************************************************************)
ResidentInv == intact => \A r \in Residents : sram[r[1]] = TensorData(r[2])

(***************************************************************************)
(* Inputs that came ahead wait in SRAM for their invocation.               *)
(***************************************************************************)
WaitingInv ==
    \A i \in aheadLanded \ {0} :
        /\ sram[Inputs(ahead.for)[i].slot] = ahead.images[i]
        /\ phase = "running" => ~HeldBack(index, {Inputs(ahead.for)[i].slot})

(***************************************************************************)
(* A prefetched input that its consumer will take is in its place.         *)
(***************************************************************************)
Awaited(v) ==
    /\ prefetched[v] # NoSlot /\ prefetchedFor \in Index
    /\ \E i \in DOMAIN Inputs(prefetchedFor) :
          /\ Inputs(prefetchedFor)[i].value = v
          /\ Inputs(prefetchedFor)[i].slot = prefetched[v]
          /\ Inputs(prefetchedFor)[i].kind # "prefetch"

PrefetchedInv ==
    \A v \in Values :
        /\ prefetched[v] # NoSlot => Producers(v) = {}
        /\ prefetched[v] # NoSlot /\ phase \in {"stateout", "outputs", "next"}
              => prefetchedFor = index + 1 \/ index = 0
        /\ Awaited(v) /\ ~(phase = "next" /\ index = 0)
              => sram[prefetched[v]] = values[v] /\ values[v] # Missing

(***************************************************************************)
(* A value on the device that a later invocation still consumes is what    *)
(* its producer made.                                                      *)
(***************************************************************************)
Made(v) ==
    \E a \in Producers(v) :
        \/ a <= position
        \/ /\ a = position + 1 /\ phase = "outputs"
           /\ \E o \in DOMAIN Outputs(a) : o < cursor /\ Outputs(a)[o].value = v
Live(v) ==
    /\ device[v] # NoSlot /\ v \notin overrides
    /\ Made(v) /\ \E b \in Consumers(v) : position < b

\* The inputs before the cursor are in place, and then all.
Passed(i) == phase = "inputs" => i < cursor

LiveInv ==
    \A v \in Values : Live(v) =>
        device[v] \in OutputSlots(v) /\ sram[device[v]] = value[v] /\ value[v] # Missing

ReleasedInv ==
    phase \in {"inputs", "linking", "running", "computed", "stateout", "outputs"} =>
        \A i \in Uploaded(index) :
            LET v == Inputs(index)[i].value IN
            Passed(i) /\ Producers(v) # {} /\ ReleasedAt(v, index)
                => device[v] = NoSlot \/ v \in overrides

DeviceInv == LiveInv /\ ReleasedInv

(***************************************************************************)
(* What the invocation has brought to its rows so far.                     *)
(***************************************************************************)
StagedInv ==
    /\ phase \in {"inputs", "linking", "running"} =>
          /\ \A i \in DOMAIN StatesOf(index) :
                sram[StatesOf(index)[i].slot] = backing[StatesOf(index)[i].state]
          /\ \A i \in Uploaded(index) : Passed(i) =>
                /\ sram[Inputs(index)[i].slot] = Current(Inputs(index)[i].value)
                /\ Current(Inputs(index)[i].value) # Missing
    /\ phase \in {"linking", "running"} =>
          /\ \A s \in Invocations[index].constants : sram[s] = ConstantData(index)
          /\ \A i \in Preloaded(index) : sram[Inputs(index)[i].slot] = images[i]
          /\ \A i \in Transported(index) :
                images[i] = Current(Inputs(index)[i].value) /\ images[i] # Missing
    /\ phase = "computed" =>
          \A i \in Kept(index) :
              /\ sram[Inputs(index)[i].slot] = values[Inputs(index)[i].value]
              /\ values[Inputs(index)[i].value] # Missing

(***************************************************************************)
(* What is not delivered yet.                                              *)
(***************************************************************************)
StateNames(j) == {StatesOf(j)[i].state : i \in DOMAIN StatesOf(j)}

ResultInv ==
    /\ result = [x \in Values \cup States |-> result[x]]
    /\ phase \notin {"computed", "stateout", "outputs"} => result = Semantics!NoResult
    /\ phase \in {"computed", "stateout"} =>
          \A x \in Values \cup States : result[x] # Missing <=> x \in Semantics!MadeBy(index)
    /\ phase = "outputs" =>
          \A x \in Values \cup States : result[x] # Missing <=>
              \E o \in DOMAIN Outputs(index) : o >= cursor /\ Outputs(index)[o].value = x
    /\ ResultsStay

\* Bytes belong to names of the package.
GhostInv == value = [v \in Values |-> value[v]] /\ values = [v \in Values |-> values[v]]

(***************************************************************************)
(* What the session is known to have, wherever its data have come to.      *)
(***************************************************************************)
DataInv ==
    /\ SramInv /\ PagesInv /\ PrefetchInv
    /\ ResidentInv /\ WaitingInv /\ PrefetchedInv /\ DeviceInv
    /\ StagedInv /\ ResultInv /\ GhostInv

-----------------------------------------------------------------------------
\* Rows that are written before the pages of an invocation are prepared.
Stage(j) ==
    StatePlaces(j) \cup PageSlots(PageOf(j)) \cup SlotsOf(j, Uploaded(j))

\* What comes through pages of an executable has rows of its own.
LEMMA StageApart ==
    ASSUME NEW j \in Index
    PROVE  /\ Stage(j) \subseteq Early(j)
           /\ Disjoint(SlotsOf(j, Preloaded(j)), Stage(j) \cup Invocations[j].constants)
<1>1. Stage(j) \subseteq Early(j)
  BY DEF Stage, Early, EarlyBut, SlotsOf
<1>2. \A i \in Preloaded(j) : i \in DOMAIN Inputs(j) /\ i \in Transported(j)
  BY DEF Preloaded, Transported
<1>3. \A i \in Preloaded(j) : i \notin Uploaded(j)
  BY <1>2, PackedBytesStay DEF Transported, Uploaded
<1>4. \A i \in Preloaded(j), k \in Uploaded(j) : Inputs(j)[i].slot # Inputs(j)[k].slot
  BY <1>2, <1>3, OneInputRow DEF Uploaded
<1>5. \A i \in Preloaded(j) : Inputs(j)[i].slot \notin PageSlots(PageOf(j))
  BY <1>2, InputsAndPage
<1>6. \A i \in Preloaded(j) :
          Inputs(j)[i].slot \notin StatePlaces(j) \cup Invocations[j].constants
  BY <1>2, InputsOffStates
<1> QED
  BY <1>1, <1>4, <1>5, <1>6 DEF Disjoint, Stage, SlotsOf

\* The staging of an invocation, action by action.
LEMMA StageFrames ==
    ASSUME ControlInv, SramInv,
           \/ PageInStates \/ StatesThrow \/ UploadInput \/ UploadInputThrows \/ TakeFromDevice
           \/ WeightPageArrives \/ WeightPageTimesOut
    PROVE  /\ index \in Index /\ Same(Stage(index)) /\ index' = index
           /\ UNCHANGED <<ahead, aheadLanded, hostVars, ghostVars>> \/ Throw
           /\ UNCHANGED <<ahead, aheadLanded, images, hostVars, intact, value>>
           /\ phase \in {"arriving", "states", "inputs"}
           /\ phase' \in {"states", "inputs", "idle"}
<1> USE DEF hostVars, transferVars, ghostVars
<1>1. ASSUME PageInStates
      PROVE  Same(Stage(index))
  BY <1>1, Frames DEF Same, Stage
<1>2. ASSUME StatesThrow
      PROVE  Same(Stage(index))
  BY <1>2, Frames DEF Same, Stage
<1>3. ASSUME UploadInput
      PROVE  Same(Stage(index))
  BY <1>3, Frames, UploadedInput DEF UploadInput, Same, Stage
<1>4. ASSUME UploadInputThrows
      PROVE  Same(Stage(index))
  BY <1>4, Frames, UploadedInput DEF UploadInputThrows, Same, Stage
<1>5. ASSUME TakeFromDevice
      PROVE  Same(Stage(index))
  BY <1>5, Frames, UploadedInput DEF TakeFromDevice, Same, Stage
<1>6. ASSUME WeightPageArrives
      PROVE  Same(Stage(index))
  BY <1>6, Frames DEF Same, Stage
<1>7. ASSUME WeightPageTimesOut
      PROVE  Same(Stage(index))
  BY <1>7, SpoiledSame DEF WeightPageTimesOut, Unlike, Same, Stage
<1>8. ASSUME PageInStates
      PROVE  /\ index \in Index /\ index' = index
             /\ UNCHANGED <<ahead, aheadLanded, hostVars, ghostVars>> \/ Throw
             /\ UNCHANGED <<ahead, aheadLanded, images, hostVars, intact, value>>
             /\ phase \in {"arriving", "states", "inputs"}
             /\ phase' \in {"states", "inputs", "idle"}
  BY <1>8 DEF PageInStates, Upload, Go, Throw, ControlInv, TypeOK
<1>9. ASSUME StatesThrow
      PROVE  /\ index \in Index /\ index' = index
             /\ UNCHANGED <<ahead, aheadLanded, hostVars, ghostVars>> \/ Throw
             /\ UNCHANGED <<ahead, aheadLanded, images, hostVars, intact, value>>
             /\ phase \in {"arriving", "states", "inputs"}
             /\ phase' \in {"states", "inputs", "idle"}
  BY <1>9 DEF StatesThrow, UploadThrows, Throw, ControlInv, TypeOK
<1>10. ASSUME UploadInput
      PROVE  /\ index \in Index /\ index' = index
             /\ UNCHANGED <<ahead, aheadLanded, hostVars, ghostVars>> \/ Throw
             /\ UNCHANGED <<ahead, aheadLanded, images, hostVars, intact, value>>
             /\ phase \in {"arriving", "states", "inputs"}
             /\ phase' \in {"states", "inputs", "idle"}
  BY <1>10 DEF UploadInput, AtInput, NextInput, Go, Upload, Throw, ControlInv, TypeOK
<1>11. ASSUME UploadInputThrows
      PROVE  /\ index \in Index /\ index' = index
             /\ UNCHANGED <<ahead, aheadLanded, hostVars, ghostVars>> \/ Throw
             /\ UNCHANGED <<ahead, aheadLanded, images, hostVars, intact, value>>
             /\ phase \in {"arriving", "states", "inputs"}
             /\ phase' \in {"states", "inputs", "idle"}
  BY <1>11 DEF UploadInputThrows, AtInput, UploadThrows, Throw, ControlInv, TypeOK
<1>12. ASSUME TakeFromDevice
      PROVE  /\ index \in Index /\ index' = index
             /\ UNCHANGED <<ahead, aheadLanded, hostVars, ghostVars>> \/ Throw
             /\ UNCHANGED <<ahead, aheadLanded, images, hostVars, intact, value>>
             /\ phase \in {"arriving", "states", "inputs"}
             /\ phase' \in {"states", "inputs", "idle"}
  BY <1>12 DEF TakeFromDevice, AtInput, NextInput, Go, Input, Throw, ControlInv, TypeOK
<1>13. ASSUME WeightPageArrives
      PROVE  /\ index \in Index /\ index' = index
             /\ UNCHANGED <<ahead, aheadLanded, hostVars, ghostVars>> \/ Throw
             /\ UNCHANGED <<ahead, aheadLanded, images, hostVars, intact, value>>
             /\ phase \in {"arriving", "states", "inputs"}
             /\ phase' \in {"states", "inputs", "idle"}
  BY <1>13 DEF WeightPageArrives, Go, Throw, ControlInv, TypeOK
<1>14. ASSUME WeightPageTimesOut
      PROVE  /\ index \in Index /\ index' = index
             /\ UNCHANGED <<ahead, aheadLanded, hostVars, ghostVars>> \/ Throw
             /\ UNCHANGED <<ahead, aheadLanded, images, hostVars, intact, value>>
             /\ phase \in {"arriving", "states", "inputs"}
             /\ phase' \in {"states", "inputs", "idle"}
  BY <1>14 DEF WeightPageTimesOut, Throw, ControlInv, TypeOK
<1> QED
  BY <1>1, <1>2, <1>3, <1>4, <1>5, <1>6, <1>7, <1>8, <1>9, <1>10, <1>11, <1>12, <1>13, <1>14

\* The transfers of the next invocation write its rows only.
LEMMA SettleFrames ==
    ASSUME ControlInv, SramInv, Settle \/ SettleThrows
    PROVE  index \in Index /\ intact' = intact /\ Same(Ahead(index)) /\ phase = "computed"
<1>1. index \in Index /\ intact' = intact /\ phase = "computed"
  BY DEF Settle, SettleThrows, hostVars, ControlInv, TypeOK
<1>2. SlotsOf(ahead.for, AheadInputs) \subseteq Ahead(index)
      /\ PageSlots(ahead.page) \subseteq Ahead(index)
  BY <1>1, AheadRows, Places DEF Ahead, SlotsOf
<1>3. SlotsOf(ahead.for, AheadInputs \ aheadLanded) \subseteq Ahead(index)
  BY <1>2 DEF SlotsOf
<1>4. Settle => Same(Ahead(index))
  BY <1>2, <1>3, Frames DEF Same
<1>5. SettleThrows => Same(Ahead(index))
  BY <1>2, <1>3, Frames DEF Same, Unlike
<1> QED
  BY <1>1, <1>4, <1>5

\* Every write of an invocation is in its rows.
LEMMA StepWrites ==
    ASSUME ControlInv, SramInv, [Next]_vars, ~Load, ~LoadFails
    PROVE  /\ intact' = intact
           /\ sram' = sram \/ (index \in Index /\ Same(Writes(index)))
<1> USE DEF hostVars, deviceVars, pagerVars, transferVars, controlVars, ghostVars
<1> DEFINE Goal == /\ intact' = intact
                   /\ sram' = sram \/ (index \in Index /\ Same(Writes(index)))
<1>0. \A rows : index \in Index /\ intact' = intact /\ Same(rows) /\ rows \subseteq Writes(index)
          => Goal
  BY DEF Same
<1>1. ASSUME ResetStates
      PROVE  Goal
  BY <1>1 DEF ResetStates, Call, Returned
<1>2. ASSUME Run
      PROVE  Goal
  BY <1>2 DEF Run, Call, Usable, ForgetDevice
<1>3. ASSUME RunWithoutIds
      PROVE  Goal
  BY <1>3 DEF RunWithoutIds, Call, Usable, ForgetDevice
<1>4. ASSUME \E v \in ExternalInputs : \E n \in Choices[v] : SetInput(v, n)
      PROVE  Goal
  BY <1>4 DEF SetInput, Call, Returned
<1>5. ASSUME \E s \in States : \E n \in Choices[s] : SetState(s, n)
      PROVE  Goal
  BY <1>5 DEF SetState, Call, Returned
<1>6. ASSUME \E j \in Index : RunInvocation(j)
      PROVE  Goal
  BY <1>6 DEF RunInvocation, Call, Usable, Enter
<1>7. ASSUME NextInvocation
      PROVE  Goal
  BY <1>7 DEF NextInvocation, Enter, Index
<1>8. ASSUME FinishRun
      PROVE  Goal
  BY <1>8 DEF FinishRun
<1>9. ASSUME KeepWeightPage
      PROVE  Goal
  BY <1>9 DEF KeepWeightPage, PageIsHere, Go
<1>10. ASSUME StartWeightPage
      PROVE  Goal
  BY <1>10 DEF StartWeightPage, PageIsHere, Go
<1>11. ASSUME AwaitWeightPage
      PROVE  Goal
  BY <1>11 DEF AwaitWeightPage, PageIsHere, Go
<1>12. ASSUME RefuseWeightPage
      PROVE  Goal
  BY <1>12 DEF RefuseWeightPage, Throw
<1>13. ASSUME NoStates
      PROVE  Goal
  BY <1>13 DEF NoStates, Go
<1>14. ASSUME SkipInput
      PROVE  Goal
  BY <1>14 DEF SkipInput, AtInput, NextInput, Go
<1>15. ASSUME TakePrefetched
      PROVE  Goal
  BY <1>15 DEF TakePrefetched, AtInput, NextInput, Go, Input, Prefetched
<1>16. ASSUME RefuseInput
      PROVE  Goal
  BY <1>16 DEF RefuseInput, AtInput, Throw
<1>17. ASSUME PreparePages
      PROVE  Goal
  <2>1. /\ index \in Index /\ intact' = intact
        /\ Same(Invocations[index].constants \cup SlotsOf(index, ToLoad))
    BY <1>17, Frames DEF PreparePages, InputsReady, ControlInv, TypeOK
  <2>2. Invocations[index].constants \cup SlotsOf(index, ToLoad) \subseteq Writes(index)
    BY DEF Writes, Early, EarlyBut, SlotsOf, ToLoad
  <2> QED
    BY <1>0, <2>1, <2>2
<1>18. ASSUME PreparePagesThrows
      PROVE  Goal
  <2>1. /\ index \in Index /\ intact' = intact
        /\ Same(Invocations[index].constants \cup SlotsOf(index, ToLoad))
    BY <1>18, Frames DEF PreparePagesThrows, InputsReady, ControlInv, TypeOK
  <2>2. Invocations[index].constants \cup SlotsOf(index, ToLoad) \subseteq Writes(index)
    BY DEF Writes, Early, EarlyBut, SlotsOf, ToLoad
  <2> QED
    BY <1>0, <2>1, <2>2
<1>19. ASSUME LookAhead
      PROVE  Goal
  BY <1>19 DEF LookAhead, Go, CanLookAhead
<1>20. ASSUME StayHere
      PROVE  Goal
  BY <1>20 DEF StayHere, Go, NoLookahead
<1>21. ASSUME LinkThrows
      PROVE  Goal
  BY <1>21 DEF LinkThrows, Throw, CanLookAhead, NoLookahead
<1>22. ASSUME NEW i \in AheadInputs, LandAhead(i)
      PROVE  Goal
  <2>1. index \in Index /\ phase = "running" /\ intact' = intact
        /\ Same({Inputs(ahead.for)[i].slot})
    BY <1>22, Frames DEF LandAhead, ControlInv, TypeOK
  <2>2. {Inputs(ahead.for)[i].slot} \subseteq Writes(index)
    BY <2>1, AheadRows DEF Writes, Ahead, SlotsOf
  <2> QED
    BY <1>0, <2>1, <2>2
<1>23. ASSUME LandPageAhead
      PROVE  Goal
  <2>1. index \in Index /\ phase = "running" /\ intact' = intact /\ Same(PageSlots(ahead.page))
    BY <1>23, Frames DEF LandPageAhead, ControlInv, TypeOK
  <2>2. PageSlots(ahead.page) \subseteq Writes(index)
    BY <2>1, AheadRows, Places DEF Writes, Ahead
  <2> QED
    BY <1>0, <2>1, <2>2
<1>24. ASSUME Execute
      PROVE  Goal
  <2>1. index \in Index /\ intact' = intact
    BY <1>24 DEF Execute, ControlInv, TypeOK
  <2>2. Same(Late(index)) /\ Late(index) \subseteq Writes(index)
    BY <1>24, <2>1, Frames DEF Writes
  <2> QED
    BY <1>0, <2>1, <2>2
<1>25. ASSUME ExecutionThrows
      PROVE  Goal
  <2>1. /\ index \in Index /\ phase = "running" /\ intact' = intact
        /\ Same(Late(index) \cup SlotsOf(ahead.for, AheadInputs) \cup Unlike(sram, ahead.page))
    BY <1>25, Frames DEF ExecutionThrows, ControlInv, TypeOK
  <2>2. SlotsOf(ahead.for, AheadInputs) \cup PageSlots(ahead.page) \subseteq Ahead(index)
    BY <2>1, AheadRows, Places DEF Ahead, SlotsOf
  <2>3. Late(index) \cup SlotsOf(ahead.for, AheadInputs) \cup Unlike(sram, ahead.page)
            \subseteq Writes(index)
    BY <2>2 DEF Writes, Unlike
  <2> QED
    BY <1>0, <2>1, <2>3
<1>26. ASSUME Settle
      PROVE  Goal
  <2>1. /\ index \in Index /\ intact' = intact /\ Same(Ahead(index))
    BY <1>26, SettleFrames
  <2> QED
    BY <1>0, <2>1 DEF Writes
<1>27. ASSUME SettleThrows
      PROVE  Goal
  <2>1. /\ index \in Index /\ intact' = intact /\ Same(Ahead(index))
    BY <1>27, SettleFrames
  <2> QED
    BY <1>0, <2>1 DEF Writes
<1>28. ASSUME PageOutStates
      PROVE  Goal
  BY <1>28 DEF PageOutStates
<1>29. ASSUME DeliverOutput
      PROVE  Goal
  BY <1>29 DEF DeliverOutput
<1>30. ASSUME EgressThrows
      PROVE  Goal
  BY <1>30 DEF EgressThrows, Throw
<1>31. ASSUME FinishInvocation
      PROVE  Goal
  BY <1>31 DEF FinishInvocation
<1>32. ASSUME \/ PageInStates \/ StatesThrow \/ UploadInput \/ UploadInputThrows
             \/ TakeFromDevice \/ WeightPageArrives \/ WeightPageTimesOut
      PROVE  Goal
  BY <1>0, <1>32, StageFrames, StageApart DEF Writes
<1>33. ASSUME UNCHANGED vars  PROVE  Goal
  BY <1>33 DEF vars
<1> HIDE DEF hostVars, deviceVars, pagerVars, transferVars, controlVars, ghostVars
<1> HIDE DEF Goal
<1>34. Goal
  BY <1>1, <1>2, <1>3, <1>4, <1>5, <1>6, <1>7, <1>8, <1>9, <1>10, <1>11, <1>12, <1>13, <1>14, <1>15, <1>16, <1>17, <1>18, <1>19, <1>20, <1>21, <1>22, <1>23, <1>24, <1>25, <1>26, <1>27, <1>28, <1>29, <1>30, <1>31, <1>32, <1>33
     DEF Next, Calls, Staging, Execution, Egress
<1> QED
  BY <1>34 DEF Goal

\* Residents stay as load() left them.
LEMMA ResidentStep ==
    ASSUME ControlInv, SramInv, ResidentInv, [Next]_vars
    PROVE  ResidentInv'
<1>1. \A r \in Residents : r[1] \in Slots
  BY InvocationTypes DEF Residents
<1>2. CASE Load
  <2>1. ASSUME NEW r \in Residents  PROVE  sram'[r[1]] = TensorData(r[2])
    <3>1. (CHOOSE q \in Residents : q[1] = r[1]) = r
      BY ResidentsApart
    <3>2. sram'[r[1]] = TensorData((CHOOSE q \in Residents : q[1] = r[1])[2])
      BY <1>1, <1>2 DEF Load
    <3> QED
      BY <3>1, <3>2
  <2> QED
    BY <2>1 DEF ResidentInv
<1>3. CASE LoadFails
  BY <1>3 DEF LoadFails, ResidentInv
<1>4. CASE ~Load /\ ~LoadFails
  <2>1. intact' = intact /\ (sram' = sram \/ (index \in Index /\ Same(Writes(index))))
    BY <1>4, StepWrites
  <2> QED
    BY <1>1, <2>1, ResidentsApart DEF Same, ResidentInv
<1> QED
  BY <1>2, <1>3, <1>4


-----------------------------------------------------------------------------
\* What lands is in its rows.
LEMMA LandedAt ==
    ASSUME NEW j \in Index, NEW set \in SUBSET DOMAIN Inputs(j), NEW mem, NEW bytes, NEW i \in set
    PROVE  Landed(mem, j, set, bytes)[Inputs(j)[i].slot] = bytes[i]
<1>1. (CHOOSE k \in set : Inputs(j)[k].slot = Inputs(j)[i].slot) = i
  BY OneInputRow
<1>2. Inputs(j)[i].slot \in Slots
  BY InvocationTypes
<1>3. \E k \in set : Inputs(j)[k].slot = Inputs(j)[i].slot
  OBVIOUS
<1> QED
  BY <1>1, <1>2, <1>3 DEF Landed

\* The row of an input that came ahead.
LEMMA WaitingRow ==
    ASSUME ControlInv, NEW i \in aheadLanded \ {0}
    PROVE  \E j \in Index :
               /\ Looking(j) /\ ahead = AheadOf(j) /\ ahead.for = j + 1 /\ j + 1 \in Index
               /\ i \in Preloaded(j + 1) /\ i \in DOMAIN Inputs(j + 1)
               /\ Inputs(ahead.for)[i].slot \in NextInputs(j)
               /\ Inputs(ahead.for)[i].slot \in SlotsOf(j + 1, Preloaded(j + 1))
               /\ Inputs(ahead.for)[i].slot \in Slots
<1>1. i \in AheadInputs
  BY DEF ControlInv, TypeOK
<1>2. ahead # NoLookahead
  BY <1>1 DEF AheadInputs, NoLookahead
<1>3. PICK j \in Index : Looking(j) /\ ahead = AheadOf(j)
  BY <1>2 DEF ControlInv, AheadInv
<1>4. ahead.for = j + 1 /\ j + 1 \in Index /\ j + 1 # 0
  BY <1>3, Numbers DEF AheadOf, Looking, Index
<1>5. i \in Preloaded(j + 1) /\ i \in DOMAIN Inputs(j + 1)
  BY <1>1, <1>4 DEF AheadInputs, Preloaded, Transported
<1>6. Inputs(ahead.for)[i].slot \in SlotsOf(j + 1, Preloaded(j + 1))
  BY <1>4, <1>5 DEF SlotsOf
<1>7. SlotsOf(j + 1, Preloaded(j + 1)) = NextInputs(j)
  BY <1>3 DEF NextInputs, Looking
<1>8. Inputs(ahead.for)[i].slot \in Slots
  BY <1>4, <1>5, InvocationTypes
<1> QED
  BY <1>3, <1>4, <1>5, <1>6, <1>7, <1>8

\* Staging an invocation leaves it alone.
LEMMA WaitingStaged ==
    ASSUME ControlInv, index \in Index, NEW i \in aheadLanded \ {0}
    PROVE  Inputs(ahead.for)[i].slot \in Slots \ Stage(index)
<1>1. PICK j \in Index :
          /\ Looking(j) /\ j + 1 \in Index
          /\ Inputs(ahead.for)[i].slot \in NextInputs(j)
          /\ Inputs(ahead.for)[i].slot \in SlotsOf(j + 1, Preloaded(j + 1))
          /\ Inputs(ahead.for)[i].slot \in Slots
  BY WaitingRow
<1>2. CASE index = j + 1
  BY <1>1, <1>2, StageApart DEF Disjoint
<1>3. CASE index # j + 1
  BY <1>1, <1>3, StageApart, WaitingApart DEF Disjoint
<1> QED
  BY <1>2, <1>3

\* A program leaves what came ahead of its end alone.
LEMMA WaitingExecuted ==
    ASSUME ControlInv, phase = "running", NEW i \in aheadLanded \ {0},
           ~HeldBack(index, {Inputs(ahead.for)[i].slot})
    PROVE  Inputs(ahead.for)[i].slot \in Slots \ Late(index)
<1>1. PICK j \in Index :
          /\ ahead.for = j + 1 /\ Inputs(ahead.for)[i].slot \in NextInputs(j)
          /\ Inputs(ahead.for)[i].slot \in Slots
  BY WaitingRow
<1>2. index \in Index /\ ahead.for \in {0, index + 1}
  BY DEF ControlInv, TypeOK, PlaceInv
<1>3. j = index
  BY <1>1, <1>2, Numbers
<1>4. Inputs(ahead.for)[i].slot \notin BoundSlots(index)
  BY DEF HeldBack
<1>5. (Late(index) \ Invocations[index].workspace) \cap NextInputs(index) = {}
  BY <1>2, WaitingApart DEF Disjoint
<1>6. Invocations[index].workspace \subseteq BoundSlots(index)
  BY DEF BoundSlots
<1> QED
  BY <1>1, <1>3, <1>4, <1>5, <1>6, <1>2, WaitingApart DEF Disjoint

\* What came ahead waits for its invocation.
LEMMA WaitingStep ==
    ASSUME ControlInv, SramInv, WaitingInv, [Next]_vars
    PROVE  WaitingInv'
<1> USE Numbers DEF hostVars, deviceVars, pagerVars, transferVars, controlVars, ghostVars
<1>1. ASSUME Load  PROVE  WaitingInv'
  <2>1. aheadLanded' = {} \/ (sram' = sram /\ phase' # "running" /\ UNCHANGED <<ahead, aheadLanded>>)
    BY <1>1 DEF Load, Call, Returned, DropPackage
  <2> QED
    BY <2>1 DEF WaitingInv
<1>2. ASSUME LoadFails  PROVE  WaitingInv'
  <2>1. aheadLanded' = {} \/ (sram' = sram /\ phase' # "running" /\ UNCHANGED <<ahead, aheadLanded>>)
    BY <1>2 DEF LoadFails, Call, Returned, DropPackage
  <2> QED
    BY <2>1 DEF WaitingInv
<1>3. ASSUME ResetStates  PROVE  WaitingInv'
  <2>1. aheadLanded' = {} \/ (sram' = sram /\ phase' # "running" /\ UNCHANGED <<ahead, aheadLanded>>)
    BY <1>3 DEF ResetStates, Call, Returned
  <2> QED
    BY <2>1 DEF WaitingInv
<1>4. ASSUME Run  PROVE  WaitingInv'
  <2>1. aheadLanded' = {} \/ (sram' = sram /\ phase' # "running" /\ UNCHANGED <<ahead, aheadLanded>>)
    BY <1>4 DEF Run, Call, Usable, ForgetDevice
  <2> QED
    BY <2>1 DEF WaitingInv
<1>5. ASSUME RunWithoutIds  PROVE  WaitingInv'
  <2>1. aheadLanded' = {} \/ (sram' = sram /\ phase' # "running" /\ UNCHANGED <<ahead, aheadLanded>>)
    BY <1>5 DEF RunWithoutIds, Call, Usable, ForgetDevice
  <2> QED
    BY <2>1 DEF WaitingInv
<1>6. ASSUME \E v \in ExternalInputs : \E n \in Choices[v] : SetInput(v, n)
      PROVE  WaitingInv'
  <2>1. aheadLanded' = {} \/ (sram' = sram /\ phase' # "running" /\ UNCHANGED <<ahead, aheadLanded>>)
    BY <1>6 DEF SetInput, Call, Returned
  <2> QED
    BY <2>1 DEF WaitingInv
<1>7. ASSUME \E s \in States : \E n \in Choices[s] : SetState(s, n)
      PROVE  WaitingInv'
  <2>1. aheadLanded' = {} \/ (sram' = sram /\ phase' # "running" /\ UNCHANGED <<ahead, aheadLanded>>)
    BY <1>7 DEF SetState, Call, Returned
  <2> QED
    BY <2>1 DEF WaitingInv
<1>8. ASSUME \E j \in Index : RunInvocation(j)
      PROVE  WaitingInv'
  <2>1. aheadLanded' = {} \/ (sram' = sram /\ phase' # "running" /\ UNCHANGED <<ahead, aheadLanded>>)
    BY <1>8 DEF RunInvocation, Call, Usable, Enter
  <2> QED
    BY <2>1 DEF WaitingInv
<1>9. ASSUME NextInvocation  PROVE  WaitingInv'
  <2>1. aheadLanded' = {} \/ (sram' = sram /\ phase' # "running" /\ UNCHANGED <<ahead, aheadLanded>>)
    BY <1>9 DEF NextInvocation, Enter, Index
  <2> QED
    BY <2>1 DEF WaitingInv
<1>10. ASSUME FinishRun  PROVE  WaitingInv'
  <2>1. aheadLanded' = {} \/ (sram' = sram /\ phase' # "running" /\ UNCHANGED <<ahead, aheadLanded>>)
    BY <1>10 DEF FinishRun
  <2> QED
    BY <2>1 DEF WaitingInv
<1>11. ASSUME KeepWeightPage  PROVE  WaitingInv'
  <2>1. aheadLanded' = {} \/ (sram' = sram /\ phase' # "running" /\ UNCHANGED <<ahead, aheadLanded>>)
    BY <1>11 DEF KeepWeightPage, PageIsHere, Go
  <2> QED
    BY <2>1 DEF WaitingInv
<1>12. ASSUME StartWeightPage  PROVE  WaitingInv'
  <2>1. aheadLanded' = {} \/ (sram' = sram /\ phase' # "running" /\ UNCHANGED <<ahead, aheadLanded>>)
    BY <1>12 DEF StartWeightPage, PageIsHere, Go
  <2> QED
    BY <2>1 DEF WaitingInv
<1>13. ASSUME AwaitWeightPage  PROVE  WaitingInv'
  <2>1. aheadLanded' = {} \/ (sram' = sram /\ phase' # "running" /\ UNCHANGED <<ahead, aheadLanded>>)
    BY <1>13 DEF AwaitWeightPage, PageIsHere, Go
  <2> QED
    BY <2>1 DEF WaitingInv
<1>14. ASSUME RefuseWeightPage  PROVE  WaitingInv'
  <2>1. aheadLanded' = {} \/ (sram' = sram /\ phase' # "running" /\ UNCHANGED <<ahead, aheadLanded>>)
    BY <1>14 DEF RefuseWeightPage, Throw
  <2> QED
    BY <2>1 DEF WaitingInv
<1>15. ASSUME WeightPageArrives  PROVE  WaitingInv'
  <2>1. /\ index \in Index /\ Same(Stage(index)) /\ UNCHANGED <<ahead, aheadLanded>>
        /\ phase' # "running"
    BY <1>15, StageFrames
  <2> QED
    BY <2>1, WaitingStaged DEF WaitingInv, Same
<1>16. ASSUME WeightPageTimesOut  PROVE  WaitingInv'
  <2>1. /\ index \in Index /\ Same(Stage(index)) /\ UNCHANGED <<ahead, aheadLanded>>
        /\ phase' # "running"
    BY <1>16, StageFrames
  <2> QED
    BY <2>1, WaitingStaged DEF WaitingInv, Same
<1>17. ASSUME PageInStates  PROVE  WaitingInv'
  <2>1. /\ index \in Index /\ Same(Stage(index)) /\ UNCHANGED <<ahead, aheadLanded>>
        /\ phase' # "running"
    BY <1>17, StageFrames
  <2> QED
    BY <2>1, WaitingStaged DEF WaitingInv, Same
<1>18. ASSUME NoStates  PROVE  WaitingInv'
  <2>1. aheadLanded' = {} \/ (sram' = sram /\ phase' # "running" /\ UNCHANGED <<ahead, aheadLanded>>)
    BY <1>18 DEF NoStates, Go
  <2> QED
    BY <2>1 DEF WaitingInv
<1>19. ASSUME StatesThrow  PROVE  WaitingInv'
  <2>1. /\ index \in Index /\ Same(Stage(index)) /\ UNCHANGED <<ahead, aheadLanded>>
        /\ phase' # "running"
    BY <1>19, StageFrames
  <2> QED
    BY <2>1, WaitingStaged DEF WaitingInv, Same
<1>20. ASSUME SkipInput  PROVE  WaitingInv'
  <2>1. aheadLanded' = {} \/ (sram' = sram /\ phase' # "running" /\ UNCHANGED <<ahead, aheadLanded>>)
    BY <1>20 DEF SkipInput, AtInput, NextInput, Go
  <2> QED
    BY <2>1 DEF WaitingInv
<1>21. ASSUME TakePrefetched  PROVE  WaitingInv'
  <2>1. aheadLanded' = {} \/ (sram' = sram /\ phase' # "running" /\ UNCHANGED <<ahead, aheadLanded>>)
    BY <1>21 DEF TakePrefetched, AtInput, NextInput, Go, Input, Prefetched
  <2> QED
    BY <2>1 DEF WaitingInv
<1>22. ASSUME UploadInput  PROVE  WaitingInv'
  <2>1. /\ index \in Index /\ Same(Stage(index)) /\ UNCHANGED <<ahead, aheadLanded>>
        /\ phase' # "running"
    BY <1>22, StageFrames
  <2> QED
    BY <2>1, WaitingStaged DEF WaitingInv, Same
<1>23. ASSUME UploadInputThrows  PROVE  WaitingInv'
  <2>1. /\ index \in Index /\ Same(Stage(index)) /\ UNCHANGED <<ahead, aheadLanded>>
        /\ phase' # "running"
    BY <1>23, StageFrames
  <2> QED
    BY <2>1, WaitingStaged DEF WaitingInv, Same
<1>24. ASSUME TakeFromDevice  PROVE  WaitingInv'
  <2>1. /\ index \in Index /\ Same(Stage(index)) /\ UNCHANGED <<ahead, aheadLanded>>
        /\ phase' # "running"
    BY <1>24, StageFrames
  <2> QED
    BY <2>1, WaitingStaged DEF WaitingInv, Same
<1>25. ASSUME RefuseInput  PROVE  WaitingInv'
  <2>1. aheadLanded' = {} \/ (sram' = sram /\ phase' # "running" /\ UNCHANGED <<ahead, aheadLanded>>)
    BY <1>25 DEF RefuseInput, AtInput, Throw
  <2> QED
    BY <2>1 DEF WaitingInv
<1>26. ASSUME PreparePages  PROVE  WaitingInv'
  <2>1. aheadLanded' = {} \/ (sram' = sram /\ phase' # "running" /\ UNCHANGED <<ahead, aheadLanded>>)
    BY <1>26 DEF PreparePages, InputsReady, ForgetPrefetched, Go, NoneKept, NoLookahead
  <2> QED
    BY <2>1 DEF WaitingInv
<1>27. ASSUME PreparePagesThrows  PROVE  WaitingInv'
  <2>1. aheadLanded' = {} \/ (sram' = sram /\ phase' # "running" /\ UNCHANGED <<ahead, aheadLanded>>)
    BY <1>27 DEF PreparePagesThrows, InputsReady, ForgetPrefetched, Throw, NoneKept, NoLookahead
  <2> QED
    BY <2>1 DEF WaitingInv
<1>28. ASSUME LookAhead  PROVE  WaitingInv'
  <2>1. aheadLanded' = {} \/ (sram' = sram /\ phase' # "running" /\ UNCHANGED <<ahead, aheadLanded>>)
    BY <1>28 DEF LookAhead, Go, CanLookAhead
  <2> QED
    BY <2>1 DEF WaitingInv
<1>29. ASSUME StayHere  PROVE  WaitingInv'
  <2>1. aheadLanded' = {} \/ (sram' = sram /\ phase' # "running" /\ UNCHANGED <<ahead, aheadLanded>>)
    BY <1>29 DEF StayHere, Go, NoLookahead
  <2> QED
    BY <2>1 DEF WaitingInv
<1>30. ASSUME LinkThrows  PROVE  WaitingInv'
  <2>1. aheadLanded' = {} \/ (sram' = sram /\ phase' # "running" /\ UNCHANGED <<ahead, aheadLanded>>)
    BY <1>30 DEF LinkThrows, Throw, CanLookAhead, NoLookahead
  <2> QED
    BY <2>1 DEF WaitingInv
<1>31. ASSUME \E i \in AheadInputs : LandAhead(i)
      PROVE  WaitingInv'
  <2>1. PICK k \in AheadInputs : LandAhead(k)
    BY <1>31
  <2>2. /\ phase = "running" /\ ~HeldBack(index, {Inputs(ahead.for)[k].slot})
        /\ sram' = Landed(sram, ahead.for, {k}, ahead.images)
        /\ aheadLanded' = aheadLanded \cup {k} /\ UNCHANGED <<ahead, index>>
    BY <2>1 DEF LandAhead
  <2>3. ahead.for \in Index /\ k \in DOMAIN Inputs(ahead.for)
    BY <2>2, AheadRows DEF Preloaded, Transported
  <2>4. sram'[Inputs(ahead.for)[k].slot] = ahead.images[k]
    BY <2>2, <2>3, LandedAt
  <2>5. ASSUME NEW i \in aheadLanded \ {0}, i # k
        PROVE  sram'[Inputs(ahead.for)[i].slot] = sram[Inputs(ahead.for)[i].slot]
    <3>1. i \in DOMAIN Inputs(ahead.for) /\ Inputs(ahead.for)[i].slot \in Slots
      BY WaitingRow
    <3>2. Inputs(ahead.for)[i].slot \notin SlotsOf(ahead.for, {k})
      BY <2>3, <2>5, <3>1, RowOutside
    <3>3. Landed(sram, ahead.for, {k}, ahead.images)[Inputs(ahead.for)[i].slot]
              = sram[Inputs(ahead.for)[i].slot]
      BY <3>1, <3>2 DEF Landed, SlotsOf
    <3> QED
      BY <2>2, <3>3
  <2> QED
    BY <2>2, <2>4, <2>5 DEF WaitingInv
<1>32. ASSUME LandPageAhead  PROVE  WaitingInv'
  <2>1. /\ phase = "running" /\ Same(PageSlots(ahead.page)) /\ UNCHANGED <<phase, index, ahead>>
        /\ aheadLanded' = aheadLanded \cup {0}
    BY <1>32, Frames DEF LandPageAhead
  <2>2. Disjoint(PageSlots(ahead.page), SlotsOf(ahead.for, AheadInputs))
    BY <2>1, AheadApart
  <2>3. \A i \in aheadLanded \ {0} :
            /\ Inputs(ahead.for)[i].slot \in Slots
            /\ Inputs(ahead.for)[i].slot \in SlotsOf(ahead.for, AheadInputs)
    BY WaitingRow DEF SlotsOf, ControlInv, TypeOK
  <2> QED
    BY <2>1, <2>2, <2>3 DEF WaitingInv, Same, Disjoint
<1>33. ASSUME Execute  PROVE  WaitingInv'
  <2>1. /\ phase = "running" /\ phase' = "computed" /\ UNCHANGED <<ahead, aheadLanded>>
        /\ Same(Late(index))
    BY <1>33, Frames DEF Execute, ControlInv, TypeOK
  <2>2. \A i \in aheadLanded \ {0} : Inputs(ahead.for)[i].slot \in Slots \ Late(index)
    BY <2>1, WaitingExecuted DEF WaitingInv
  <2> QED
    BY <2>1, <2>2 DEF WaitingInv, Same
<1>34. ASSUME ExecutionThrows  PROVE  WaitingInv'
  <2>1. aheadLanded' = {} \/ (sram' = sram /\ phase' # "running" /\ UNCHANGED <<ahead, aheadLanded>>)
    BY <1>34 DEF ExecutionThrows, Throw
  <2> QED
    BY <2>1 DEF WaitingInv
<1>35. ASSUME Settle  PROVE  WaitingInv'
  <2> DEFINE late == AheadInputs \ aheadLanded
             mem == Landed(sram, ahead.for, late, ahead.images)
  <2>1. /\ phase = "computed" /\ phase' = "stateout" /\ UNCHANGED ahead
        /\ sram' = IF 0 \in aheadLanded THEN mem ELSE PageLanded(mem, ahead.page)
        /\ aheadLanded' = IF ahead.for = 0 THEN {} ELSE AheadInputs \cup {0}
    BY <1>35 DEF Settle, Go
  <2>2. CASE ahead.for = 0
    BY <2>1, <2>2 DEF WaitingInv
  <2>3. CASE ahead.for # 0
    <3>1. ahead.for \in Index /\ AheadInputs \subseteq DOMAIN Inputs(ahead.for)
      BY <2>1, <2>3, AheadRows DEF Preloaded, Transported
    <3>2. ASSUME NEW i \in AheadInputs  PROVE  mem[Inputs(ahead.for)[i].slot] = ahead.images[i]
      <4>1. CASE i \in late
        <5>1. late \in SUBSET DOMAIN Inputs(ahead.for) /\ Inputs(ahead.for)[i].slot \in Slots
          BY <3>1, InvocationTypes
        <5> HIDE DEF late
        <5>2. (CHOOSE k \in late : Inputs(ahead.for)[k].slot = Inputs(ahead.for)[i].slot) = i
          BY <3>1, <4>1, <5>1, OneInputRow
        <5> QED
          BY <4>1, <5>1, <5>2 DEF Landed
      <4>2. CASE i \in aheadLanded
        <5>1. i \in aheadLanded \ {0} /\ Inputs(ahead.for)[i].slot \in Slots
          BY <3>1, <4>2, InvocationTypes
        <5>2. Inputs(ahead.for)[i].slot \notin SlotsOf(ahead.for, late)
          BY <3>1, <4>2, RowOutside
        <5>3. sram[Inputs(ahead.for)[i].slot] = ahead.images[i]
          BY <5>1 DEF WaitingInv
        <5> HIDE DEF late
        <5> QED
          BY <5>1, <5>2, <5>3 DEF Landed, SlotsOf
      <4> QED
        BY <4>1, <4>2
    <3>3. ASSUME NEW i \in AheadInputs
          PROVE  PageLanded(mem, ahead.page)[Inputs(ahead.for)[i].slot]
                     = mem[Inputs(ahead.for)[i].slot]
      <4>1. Inputs(ahead.for)[i].slot \notin PageSlots(ahead.page)
        BY <2>1, AheadApart DEF Disjoint, SlotsOf
      <4>2. Inputs(ahead.for)[i].slot \in Slots
        BY <3>1, InvocationTypes
      <4> HIDE DEF mem, late
      <4>3. \A s \in Slots : s \notin PageSlots(ahead.page) =>
                PageLanded(mem, ahead.page)[s] = mem[s]
        BY PageLandedSame, Zenon
      <4> QED
        BY <4>1, <4>2, <4>3, Zenon
    <3> HIDE DEF mem, late
    <3> QED
      BY <2>1, <2>3, <3>2, <3>3 DEF WaitingInv
  <2> QED
    BY <2>2, <2>3
<1>36. ASSUME SettleThrows  PROVE  WaitingInv'
  <2>1. aheadLanded' = {} \/ (sram' = sram /\ phase' # "running" /\ UNCHANGED <<ahead, aheadLanded>>)
    BY <1>36 DEF SettleThrows, Throw
  <2> QED
    BY <2>1 DEF WaitingInv
<1>37. ASSUME PageOutStates  PROVE  WaitingInv'
  <2>1. aheadLanded' = {} \/ (sram' = sram /\ phase' # "running" /\ UNCHANGED <<ahead, aheadLanded>>)
    BY <1>37 DEF PageOutStates
  <2> QED
    BY <2>1 DEF WaitingInv
<1>38. ASSUME DeliverOutput  PROVE  WaitingInv'
  <2>1. aheadLanded' = {} \/ (sram' = sram /\ phase' # "running" /\ UNCHANGED <<ahead, aheadLanded>>)
    BY <1>38 DEF DeliverOutput
  <2> QED
    BY <2>1 DEF WaitingInv
<1>39. ASSUME EgressThrows  PROVE  WaitingInv'
  <2>1. aheadLanded' = {} \/ (sram' = sram /\ phase' # "running" /\ UNCHANGED <<ahead, aheadLanded>>)
    BY <1>39 DEF EgressThrows, Throw
  <2> QED
    BY <2>1 DEF WaitingInv
<1>40. ASSUME FinishInvocation  PROVE  WaitingInv'
  <2>1. aheadLanded' = {} \/ (sram' = sram /\ phase' # "running" /\ UNCHANGED <<ahead, aheadLanded>>)
    BY <1>40 DEF FinishInvocation
  <2> QED
    BY <2>1 DEF WaitingInv
<1>41. CASE UNCHANGED vars
  BY <1>41 DEF vars, WaitingInv
<1> HIDE DEF hostVars, deviceVars, pagerVars, transferVars, controlVars, ghostVars
<1> QED
  BY <1>1, <1>2, <1>3, <1>4, <1>5, <1>6, <1>7, <1>8, <1>9, <1>10, <1>11, <1>12, <1>13, <1>14, <1>15, <1>16, <1>17, <1>18, <1>19, <1>20, <1>21, <1>22, <1>23, <1>24, <1>25, <1>26, <1>27, <1>28, <1>29, <1>30, <1>31, <1>32, <1>33, <1>34, <1>35, <1>36, <1>37, <1>38, <1>39, <1>40, <1>41
     DEF Next, Calls, Staging, Execution, Egress


-----------------------------------------------------------------------------
\* The session and its semantics have the same contents.
LEMMA SameData ==
    /\ Semantics!Missing = Missing
    /\ \A t : Semantics!TensorData(t) = TensorData(t)
    /\ \A v, n : Semantics!HostData(v, n) = HostData(v, n)
    /\ \A s : Semantics!ZeroState(s) = ZeroState(s)
    /\ \A v, b : Semantics!HostOp(v, b) = HostOp(v, b)
    /\ \A x, j, b : Semantics!Computed(x, j, b) = Computed(x, j, b)
BY DEF Semantics!Missing, Semantics!TensorData, Semantics!HostData, Semantics!ZeroState,
       Semantics!HostOp, Semantics!Computed, Semantics!Content,
       Missing, TensorData, HostData, ZeroState, HostOp, Computed, Content

\* The bytes of a name.
LEMMA CurrentOf ==
    /\ \A v \in Tensors : Current(v) = TensorData(v) /\ TensorData(v) # Missing /\ Bytes(v) = TensorData(v)
    /\ \A v \in Values : Current(v) = IF v \in overrides \/ Producers(v) = {} THEN values[v] ELSE value[v]
    /\ \A v \in Values : Bytes(v) = values[v]
<1>1. \A v \in Values : Semantics!Produced(v) <=> Producers(v) # {}
  BY DEF Semantics!Produced, Semantics!Produces, Semantics!Count, Producers, Index, Count, Outputs
<1>2. \A v \in Tensors : TensorData(v) # Missing
  BY UniqueNames DEF TensorData, Missing, Content
<1>3. \A v \in Tensors : Current(v) = TensorData(v) /\ Bytes(v) = TensorData(v)
  <2>1. \A v \in Tensors : v \notin Values
    BY UniqueNames
  <2>2. \A v \in Tensors : Current(v) = TensorData(v)
    BY SameData DEF Current, Semantics!Current
  <2>3. \A v \in Tensors : Bytes(v) = TensorData(v)
    BY <2>1 DEF Bytes
  <2> QED
    BY <2>2, <2>3
<1>4. \A v \in Values :
          Current(v) = IF v \in overrides \/ Producers(v) = {} THEN values[v] ELSE value[v]
  BY <1>1, UniqueNames DEF Current, Semantics!Current
<1>5. \A v \in Values : Bytes(v) = values[v]
  BY UniqueNames DEF Bytes
<1> QED
  BY <1>2, <1>3, <1>4, <1>5

\* A name keeps its bytes when the host and the device keep theirs.
LEMMA CurrentStays ==
    ASSUME UNCHANGED <<values, overrides, value>>, NEW v
    PROVE  Current(v)' = Current(v)
BY DEF Current, Semantics!Current, Semantics!Produced, Semantics!Produces, Semantics!Count

\* What an invocation moves through pages of its executable.
LEMMA TransportedBytes ==
    ASSUME NEW j \in Index, NEW i \in Transported(j)
    PROVE  LET v == Inputs(j)[i].value IN
           \/ v \in Tensors /\ i \notin Kept(j)
           \/ v \in Values /\ Producers(v) = {} /\ i \in Kept(j)
BY PackedBytesStay DEF Transported, Kept

\* An uploaded input is a value, and its row is no other's.
LEMMA UploadedRows ==
    ASSUME NEW j \in Index, NEW i \in Uploaded(j)
    PROVE  /\ i \in DOMAIN Inputs(j) /\ i \in Nat \ {0} /\ Inputs(j)[i].value \in Values
           /\ Inputs(j)[i].slot \in Slots
           /\ Inputs(j)[i].slot \notin StatePlaces(j) \cup Invocations[j].constants
           /\ Inputs(j)[i].slot \notin SlotsOf(j, Preloaded(j))
           /\ \A k \in DOMAIN Inputs(j) : k # i => Inputs(j)[k].slot # Inputs(j)[i].slot
<1>1. /\ i \in DOMAIN Inputs(j) /\ i \in Nat \ {0} /\ Inputs(j)[i].value \in Values
      /\ Inputs(j)[i].slot \in Slots
  BY InvocationTypes DEF Uploaded
<1>2. Inputs(j)[i].slot \in SlotsOf(j, Uploaded(j)) /\ Inputs(j)[i].slot \in SlotsOf(j, DOMAIN Inputs(j))
  BY <1>1 DEF SlotsOf
<1>3. Inputs(j)[i].slot \notin StatePlaces(j) \cup Invocations[j].constants
  BY <1>1, InputsOffStates
<1>4. Inputs(j)[i].slot \notin SlotsOf(j, Preloaded(j))
  BY <1>2, StageApart DEF Disjoint, Stage
<1> QED
  BY <1>1, <1>3, <1>4, OneInputRow

\* The rows of a state, and those of a constant.
LEMMA StateRows ==
    ASSUME NEW j \in Index
    PROVE  /\ Invocations[j].constants \subseteq Slots
           /\ \A i \in DOMAIN StatesOf(j) :
                 /\ StatesOf(j)[i].slot \in Slots /\ StatesOf(j)[i].slot \in StatePlaces(j)
                 /\ StatesOf(j)[i].slot \notin SlotsOf(j, DOMAIN Inputs(j)) \cup Invocations[j].constants
<1>1. Invocations[j].constants \subseteq Slots
  BY InvocationTypes DEF InvocationType
<1>2. \A i \in DOMAIN StatesOf(j) : StatesOf(j)[i].slot \in Slots /\ StatesOf(j)[i].slot \in StatePlaces(j)
  BY InvocationTypes DEF StatePlaces
<1>3. \A i \in DOMAIN StatesOf(j) : StatesOf(j)[i].slot \notin SlotsOf(j, DOMAIN Inputs(j))
  BY <1>2, InputsOffStates DEF SlotsOf
<1> QED
  BY <1>1, <1>2, <1>3, StatesApart

\* Nothing is staged when no invocation is.
LEMMA NotStaged ==
    ASSUME phase' \notin {"inputs", "linking", "running", "computed"}
    PROVE  StagedInv'
BY DEF StagedInv

\* The next input is in its place.
LEMMA StagedInput ==
    ASSUME ControlInv, StagedInv, index \in Index, AtInput, NextInput,
           UNCHANGED <<values, overrides, value, backing>>,
           \A i \in DOMAIN StatesOf(index) :
               sram'[StatesOf(index)[i].slot] = sram[StatesOf(index)[i].slot],
           \A i \in Uploaded(index) : i # cursor =>
               sram'[Inputs(index)[i].slot] = sram[Inputs(index)[i].slot],
           cursor \in Uploaded(index) =>
               /\ sram'[Input.slot] = Current(Input.value)
               /\ Current(Input.value) # Missing
    PROVE  StagedInv'
<1>1. /\ phase = "inputs" /\ phase' = "inputs" /\ index' = index /\ cursor' = cursor + 1
      /\ cursor \in Nat
  BY DEF AtInput, NextInput, Go, ControlInv, PlaceInv
<1>2. ASSUME NEW i \in Uploaded(index), i < cursor + 1
      PROVE  /\ sram'[Inputs(index)[i].slot] = Current(Inputs(index)[i].value)'
             /\ Current(Inputs(index)[i].value)' # Missing
  <2>1. Current(Inputs(index)[i].value)' = Current(Inputs(index)[i].value)
    BY <1>1, CurrentStays
  <2>2. i < cursor \/ i = cursor
    BY <1>1, <1>2, UploadedRows
  <2> QED
    BY <1>1, <2>1, <2>2 DEF StagedInv, Passed, Input
<1>3. \A i \in DOMAIN StatesOf(index) :
          sram'[StatesOf(index)[i].slot] = backing'[StatesOf(index)[i].state]
  BY <1>1 DEF StagedInv
<1> QED
  BY <1>1, <1>2, <1>3 DEF StagedInv, Passed


\* A value that is taken from the device is live.
LEMMA TakenIsLive ==
    ASSUME ControlInv, DeviceInv, index \in Index, AtInput, FromDevice,
           Input.value \in Values, device[Input.value] # NoSlot
    PROVE  /\ Producers(Input.value) # {} /\ Input.value \notin overrides
           /\ device[Input.value] \in OutputSlots(Input.value)
           /\ sram[device[Input.value]] = value[Input.value] /\ value[Input.value] # Missing
<1> DEFINE v == Input.value
<1>1. Producers(v) # {} /\ v \notin overrides
  BY DEF FromDevice, FromHost, Transfer, Input
<1>2. index \in Consumers(v) /\ position + 1 = index /\ position \in Nat
  BY Numbers DEF AtInput, Input, Consumers, ControlInv, TypeOK, PlaceInv
<1>3. PICK a \in Producers(v) : TRUE
  BY <1>1
<1>4. a \in Index /\ a < index
  BY <1>2, <1>3, ProducersAssumption DEF Producers
<1>5. a <= position /\ position < index
  BY <1>2, <1>4, Numbers
<1>6. Live(v)
  BY <1>1, <1>2, <1>3, <1>5 DEF Live, Made
<1> QED
  BY <1>1, <1>6 DEF DeviceInv, LiveInv

\* A prefetched input at the cursor is the one that was awaited.
LEMMA TakenIsAwaited ==
    ASSUME ControlInv, PrefetchInv, PrefetchedInv, index \in Index, AtInput,
           Input.kind # "prefetch", Prefetched, prefetched[Input.value] = Input.slot
    PROVE  /\ sram[Input.slot] = Current(Input.value) /\ Current(Input.value) # Missing
<1>1. Input.value \in Values /\ prefetched[Input.value] # NoSlot /\ phase = "inputs"
  BY DEF Prefetched, AtInput
<1>2. prefetchedFor = index
  BY <1>1 DEF PrefetchInv
<1>3. Awaited(Input.value)
  BY <1>1, <1>2 DEF Awaited, AtInput, Input
<1>4. sram[Input.slot] = values[Input.value] /\ values[Input.value] # Missing
  BY <1>1, <1>3 DEF PrefetchedInv
<1>5. Producers(Input.value) = {}
  BY <1>1 DEF PrefetchedInv
<1> QED
  BY <1>1, <1>4, <1>5, CurrentOf

\* What the pages of an invocation carry.
LEMMA PackedNow ==
    ASSUME ControlInv, index \in Index, ahead.for = index \/ ImagesReady(index),
           NEW i \in Transported(index)
    PROVE  BytesNow[i] = Current(Inputs(index)[i].value) /\ BytesNow[i] # Missing
<1> DEFINE v == Inputs(index)[i].value
<1>0. i \in DOMAIN Inputs(index)
  BY DEF Transported
<1>1. CASE ahead.for = index
  <2>1. ahead # NoLookahead
    BY <1>1, Numbers DEF NoLookahead
  <2>2. PICK j \in Index : Looking(j) /\ ahead = AheadOf(j)
    BY <2>1 DEF ControlInv, AheadInv
  <2>3. ahead.for = j + 1 /\ ahead.images = PackedTensors(j + 1)
    BY <2>2 DEF AheadOf
  <2>4. index = j + 1 /\ index > 1 /\ index - 1 = j
    BY <1>1, <2>2, <2>3, Numbers
  <2>5. Kept(index) = {}
    BY <2>2, <2>4, PackedBytesStay DEF Looking
  <2>6. v \in Tensors
    BY <2>5, TransportedBytes
  <2>7. BytesNow[i] = TensorData(v)
    BY <1>0, <1>1, <2>3, <2>4 DEF BytesNow, PackedTensors
  <2> QED
    BY <2>6, <2>7, CurrentOf
<1>2. CASE ahead.for # index
  <2>1. BytesNow[i] = Bytes(v) /\ Bytes(v) # Missing
    BY <1>0, <1>2 DEF BytesNow, ImagesOf, ImagesReady
  <2> QED
    BY <2>1, TransportedBytes, CurrentOf
<1> QED
  BY <1>1, <1>2

\* What the program finds in the rows of what it keeps.
LEMMA KeptThere ==
    ASSUME ControlInv, StagedInv, phase = "running", NEW i \in Kept(index)
    PROVE  /\ Executed(index, Memory)[Inputs(index)[i].slot] = values[Inputs(index)[i].value]
           /\ values[Inputs(index)[i].value] # Missing
<1> DEFINE row == Inputs(index)[i].slot
<1>1. index \in Index /\ i \in DOMAIN Inputs(index) /\ i \in Transported(index)
  BY DEF ControlInv, TypeOK, Kept, Transported
<1>2. row \in Slots
  BY <1>1, InvocationTypes
<1>3. row \in SlotsOf(index, Kept(index))
  BY DEF SlotsOf
<1>4. Executed(index, Memory)[row] = Memory[row]
  BY <1>1, <1>2, <1>3, WaitingApart, ExecutedSame DEF Disjoint
<1>5. images[i] = Current(Inputs(index)[i].value) /\ images[i] # Missing
  BY <1>1 DEF StagedInv
<1>6. Memory[row] = images[i]
  <2>1. CASE i \in Preloaded(index)
    <3>1. row \notin SlotsOf(index, Transported(index) \ Preloaded(index))
      BY <1>1, <2>1, RowOutside DEF Transported
    <3>2. Memory[row] = sram[row]
      BY <1>2, <3>1, LandedSame DEF Memory
    <3> QED
      BY <2>1, <3>2 DEF StagedInv
  <2>2. CASE i \notin Preloaded(index)
    <3>1. Transported(index) \ Preloaded(index) \in SUBSET DOMAIN Inputs(index)
      BY DEF Transported
    <3> QED
      BY <1>1, <2>2, <3>1, LandedAt DEF Memory
  <2> QED
    BY <2>1, <2>2
<1>7. Current(Inputs(index)[i].value) = values[Inputs(index)[i].value]
  BY <1>1, TransportedBytes, CurrentOf, UniqueNames
<1> QED
  BY <1>4, <1>5, <1>6, <1>7

\* What is staged stays while rows without a binding change.
LEMMA StagedRuns ==
    ASSUME StagedInv, index \in Index, phase \in {"linking", "running"}, phase' = "running",
           UNCHANGED <<index, values, overrides, value, backing, images>>,
           NEW rows, Same(rows), Disjoint(rows, BoundSlots(index))
    PROVE  StagedInv'
<1>1. \A s \in BoundSlots(index) \cap Slots : sram'[s] = sram[s]
  BY DEF Same, Disjoint
<1>2. \A i \in DOMAIN StatesOf(index) : StatesOf(index)[i].slot \in BoundSlots(index) \cap Slots
  BY StateRows DEF BoundSlots
<1>3. \A i \in DOMAIN Inputs(index) : Inputs(index)[i].slot \in BoundSlots(index) \cap Slots
  BY InvocationTypes DEF BoundSlots, SlotsOf
<1>4. Invocations[index].constants \subseteq BoundSlots(index) \cap Slots
  BY StateRows DEF BoundSlots
<1>5. /\ Preloaded(index) \subseteq DOMAIN Inputs(index) /\ Uploaded(index) \subseteq DOMAIN Inputs(index)
      /\ \A i \in Uploaded(index) : Passed(i) /\ Passed(i)'
  BY DEF Preloaded, Transported, Uploaded, Passed
<1>6. \A i \in DOMAIN Inputs(index) :
          Current(Inputs(index)[i].value)' = Current(Inputs(index)[i].value)
  BY CurrentStays
<1>7. Transported(index) \subseteq DOMAIN Inputs(index)
  BY DEF Transported
<1> QED
  BY <1>1, <1>2, <1>3, <1>4, <1>5, <1>6, <1>7 DEF StagedInv

\* What an invocation has staged stays until its program ends.
LEMMA StagedStep ==
    ASSUME ControlInv, SramInv, PrefetchInv, WaitingInv, PrefetchedInv, DeviceInv, StagedInv,
           [Next]_vars
    PROVE  StagedInv'
<1> USE Numbers DEF hostVars, deviceVars, pagerVars, transferVars, controlVars, ghostVars
<1>1. ASSUME Load  PROVE  StagedInv'
  BY <1>1, NotStaged DEF Load, Call, Returned, DropPackage
<1>2. ASSUME LoadFails  PROVE  StagedInv'
  BY <1>2, NotStaged DEF LoadFails, Call, Returned, DropPackage
<1>3. ASSUME ResetStates  PROVE  StagedInv'
  BY <1>3, NotStaged DEF ResetStates, Call, Returned
<1>4. ASSUME Run  PROVE  StagedInv'
  BY <1>4, NotStaged DEF Run, Call, Usable, ForgetDevice
<1>5. ASSUME RunWithoutIds  PROVE  StagedInv'
  BY <1>5, NotStaged DEF RunWithoutIds, Call, Usable, ForgetDevice
<1>6. ASSUME \E v \in ExternalInputs : \E n \in Choices[v] : SetInput(v, n)
      PROVE  StagedInv'
  BY <1>6, NotStaged DEF SetInput, Call, Returned
<1>7. ASSUME \E s \in States : \E n \in Choices[s] : SetState(s, n)
      PROVE  StagedInv'
  BY <1>7, NotStaged DEF SetState, Call, Returned
<1>8. ASSUME \E j \in Index : RunInvocation(j)
      PROVE  StagedInv'
  BY <1>8, NotStaged DEF RunInvocation, Call, Usable, Enter
<1>9. ASSUME NextInvocation  PROVE  StagedInv'
  BY <1>9, NotStaged DEF NextInvocation, Enter, Index
<1>10. ASSUME FinishRun  PROVE  StagedInv'
  BY <1>10, NotStaged DEF FinishRun
<1>11. ASSUME KeepWeightPage  PROVE  StagedInv'
  BY <1>11, NotStaged DEF KeepWeightPage, PageIsHere, Go
<1>12. ASSUME StartWeightPage  PROVE  StagedInv'
  BY <1>12, NotStaged DEF StartWeightPage, PageIsHere, Go
<1>13. ASSUME AwaitWeightPage  PROVE  StagedInv'
  BY <1>13, NotStaged DEF AwaitWeightPage, PageIsHere, Go
<1>14. ASSUME RefuseWeightPage  PROVE  StagedInv'
  BY <1>14, NotStaged DEF RefuseWeightPage, Throw
<1>15. ASSUME WeightPageArrives  PROVE  StagedInv'
  BY <1>15, NotStaged DEF WeightPageArrives, Go
<1>16. ASSUME WeightPageTimesOut  PROVE  StagedInv'
  BY <1>16, NotStaged DEF WeightPageTimesOut, Throw
<1>17. ASSUME PageInStates  PROVE  StagedInv'
  <2>1. /\ index \in Index /\ phase = "states" /\ phase' = "inputs" /\ cursor = 1
        /\ UNCHANGED <<index, cursor, backing>>
    BY <1>17 DEF PageInStates, Upload, Go, ControlInv, TypeOK, PlaceInv
  <2>2. ASSUME NEW i \in DOMAIN StatesOf(index)
        PROVE  sram'[StatesOf(index)[i].slot] = backing[StatesOf(index)[i].state]
    <3>1. (CHOOSE k \in DOMAIN StatesOf(index) : StatesOf(index)[k].slot = StatesOf(index)[i].slot) = i
      BY <2>1, OneStateRow
    <3>2. StatesOf(index)[i].slot \in Slots
      BY <2>1, StateRows
    <3> QED
      BY <1>17, <3>1, <3>2 DEF PageInStates, Upload
  <2>3. \A i \in Uploaded(index) : ~(i < 1)
    BY <2>1, UploadedRows
  <2> QED
    BY <2>1, <2>2, <2>3 DEF StagedInv, Passed
<1>18. ASSUME NoStates  PROVE  StagedInv'
  <2>1. /\ index \in Index /\ phase = "states" /\ phase' = "inputs" /\ cursor = 1
        /\ UNCHANGED <<index, cursor>> /\ DOMAIN StatesOf(index) = {}
    BY <1>18 DEF NoStates, Go, ControlInv, TypeOK, PlaceInv
  <2>2. \A i \in Uploaded(index) : ~(i < 1)
    BY <2>1, UploadedRows
  <2> QED
    BY <2>1, <2>2 DEF StagedInv, Passed
<1>19. ASSUME StatesThrow  PROVE  StagedInv'
  BY <1>19, NotStaged DEF StatesThrow, UploadThrows, Throw
<1>20. ASSUME SkipInput  PROVE  StagedInv'
  <2>1. /\ index \in Index /\ AtInput /\ NextInput
        /\ UNCHANGED <<sram, values, overrides, value, backing>>
    BY <1>20 DEF SkipInput, AtInput, NextInput, Go, ControlInv, TypeOK
  <2>2. cursor \notin Uploaded(index)
    BY <1>20 DEF SkipInput, Input, Transfer, Uploaded
  <2> QED
    BY <2>1, <2>2, StagedInput
<1>21. ASSUME TakePrefetched  PROVE  StagedInv'
  <2>1. /\ index \in Index /\ AtInput /\ NextInput
        /\ UNCHANGED <<sram, values, overrides, value, backing>>
    BY <1>21 DEF TakePrefetched, AtInput, NextInput, Go, ControlInv, TypeOK
  <2>2. sram[Input.slot] = Current(Input.value) /\ Current(Input.value) # Missing
    BY <1>21, <2>1, TakenIsAwaited DEF TakePrefetched
  <2> QED
    BY <2>1, <2>2, StagedInput
<1>22. ASSUME UploadInput  PROVE  StagedInv'
  <2>1. /\ index \in Index /\ AtInput /\ NextInput
        /\ UNCHANGED <<values, overrides, value, backing>>
        /\ sram' = [sram EXCEPT ![Input.slot] = Bytes(Input.value)] /\ Bytes(Input.value) # Missing
    BY <1>22 DEF UploadInput, Upload, AtInput, NextInput, Go, ControlInv, TypeOK
  <2>2. cursor \in Uploaded(index)
    BY <1>22, UploadedInput DEF UploadInput
  <2>3. Bytes(Input.value) = Current(Input.value)
    <3>1. Input.value \in overrides \/ Producers(Input.value) = {}
      BY <1>22 DEF UploadInput, FromHost, Transfer, Input
    <3> QED
      BY <2>1, <2>2, <3>1, UploadedRows, CurrentOf DEF Input
  <2>4. /\ sram'[Input.slot] = Bytes(Input.value)
        /\ \A s \in Slots : s # Input.slot => sram'[s] = sram[s]
    BY <2>1, <2>2, UploadedRows DEF SramInv, Input
  <2>5. Input.slot = Inputs(index)[cursor].slot /\ cursor \in DOMAIN Inputs(index)
    BY <2>1 DEF Input, AtInput
  <2>6. \A i \in DOMAIN StatesOf(index) :
            sram'[StatesOf(index)[i].slot] = sram[StatesOf(index)[i].slot]
    BY <2>1, <2>4, <2>5, StateRows DEF SlotsOf
  <2>7. \A i \in Uploaded(index) : i # cursor =>
            sram'[Inputs(index)[i].slot] = sram[Inputs(index)[i].slot]
    BY <2>1, <2>4, <2>5, UploadedRows
  <2> QED
    BY <2>1, <2>3, <2>4, <2>6, <2>7, StagedInput
<1>23. ASSUME UploadInputThrows  PROVE  StagedInv'
  BY <1>23, NotStaged DEF UploadInputThrows, AtInput, UploadThrows, Throw
<1>24. ASSUME TakeFromDevice  PROVE  StagedInv'
  <2>1. /\ index \in Index /\ AtInput /\ NextInput /\ FromDevice /\ device[Input.value] # NoSlot
        /\ UNCHANGED <<values, overrides, value, backing>>
        /\ sram' = [sram EXCEPT ![Input.slot] = sram[device[Input.value]]]
    BY <1>24 DEF TakeFromDevice, AtInput, NextInput, Go, ControlInv, TypeOK
  <2>2. cursor \in Uploaded(index)
    BY <1>24, UploadedInput DEF TakeFromDevice
  <2>3. Input.value \in Values
    BY <2>1, <2>2, UploadedRows DEF Input
  <2>4. sram[device[Input.value]] = Current(Input.value) /\ Current(Input.value) # Missing
    BY <2>1, <2>3, TakenIsLive, CurrentOf
  <2>5. /\ sram'[Input.slot] = sram[device[Input.value]]
        /\ \A s \in Slots : s # Input.slot => sram'[s] = sram[s]
    BY <2>1, <2>2, UploadedRows DEF SramInv, Input
  <2> QED
    BY <2>1, <2>2, <2>4, <2>5, StagedInput, UploadedRows, StateRows DEF Input
<1>25. ASSUME RefuseInput  PROVE  StagedInv'
  BY <1>25, NotStaged DEF RefuseInput, AtInput, Throw
<1>26. ASSUME PreparePages  PROVE  StagedInv'
  <2> DEFINE mem == WithConstants(sram)
  <2>1. /\ index \in Index /\ phase = "inputs" /\ phase' = "linking" /\ index' = index
        /\ UNCHANGED <<values, overrides, value, backing>>
        /\ images' = BytesNow /\ sram' = Landed(mem, index, ToLoad, BytesNow)
        /\ ahead.for = index \/ ImagesReady(index)
    BY <1>26 DEF PreparePages, InputsReady, Go, ControlInv, TypeOK
  <2>2. \A i \in Uploaded(index) : Passed(i)
    <3>1. cursor \in Nat \ {0} /\ cursor \notin DOMAIN Inputs(index)
      BY <1>26, <2>1 DEF PreparePages, InputsReady, ControlInv, PlaceInv
    <3> QED
      BY <2>1, <3>1, PastTheEnd DEF Passed, Uploaded
  <2>3. \A s \in Slots :
            /\ s \notin Invocations[index].constants => mem[s] = sram[s]
            /\ s \in Invocations[index].constants => mem[s] = ConstantData(index)
    BY DEF WithConstants
  <2>4. ToLoad \in SUBSET DOMAIN Inputs(index) /\ SlotsOf(index, ToLoad) \subseteq SlotsOf(index, Preloaded(index))
        /\ ToLoad \subseteq Preloaded(index)
    BY DEF ToLoad, Preloaded, Transported, SlotsOf
  <2> HIDE DEF mem
  <2>5. \A s \in Slots : s \notin SlotsOf(index, ToLoad) => sram'[s] = mem[s]
    BY <2>1 DEF Landed, SlotsOf
  <2>5a. ASSUME NEW s \in Slots,
                s \notin SlotsOf(index, ToLoad), s \notin Invocations[index].constants
         PROVE  sram'[s] = sram[s]
    <3>1. sram'[s] = mem[s]
      BY <2>5, <2>5a
    <3>2. mem[s] = sram[s]
      BY <2>3, <2>5a
    <3> QED
      BY <3>1, <3>2
  <2>6. \A i \in DOMAIN StatesOf(index) :
            sram'[StatesOf(index)[i].slot] = sram[StatesOf(index)[i].slot]
    <3>1. SlotsOf(index, ToLoad) \subseteq SlotsOf(index, DOMAIN Inputs(index))
      BY <2>4 DEF SlotsOf
    <3>2. \A i \in DOMAIN StatesOf(index) :
              /\ StatesOf(index)[i].slot \in Slots
              /\ StatesOf(index)[i].slot \notin SlotsOf(index, ToLoad) \cup Invocations[index].constants
      BY <2>1, <3>1, StateRows
    <3> QED
      BY <2>5a, <3>2
  <2>7. \A i \in Uploaded(index) : sram'[Inputs(index)[i].slot] = sram[Inputs(index)[i].slot]
    <3>1. \A i \in Uploaded(index) :
              /\ Inputs(index)[i].slot \in Slots
              /\ Inputs(index)[i].slot \notin SlotsOf(index, ToLoad) \cup Invocations[index].constants
      BY <2>1, <2>4, UploadedRows
    <3> QED
      BY <2>5a, <3>1
  <2>8. \A s \in Invocations[index].constants : sram'[s] = ConstantData(index)
    BY <2>1, <2>3, <2>4, <2>5, StateRows, StageApart DEF Disjoint
  <2>9. ASSUME NEW i \in Preloaded(index)  PROVE  sram'[Inputs(index)[i].slot] = images'[i]
    <3>0. i \in DOMAIN Inputs(index) /\ Inputs(index)[i].slot \in Slots /\ i # 0
      BY <2>1, InvocationTypes DEF Preloaded, Transported
    <3>1. CASE i \in ToLoad
      BY <2>1, <2>4, <3>1, LandedAt
    <3>2. CASE i \notin ToLoad
      <4>1. ahead.for = index /\ i \in aheadLanded \ {0} /\ BytesNow = ahead.images
        BY <3>0, <3>2 DEF ToLoad, CameAhead, BytesNow
      <4>2. sram[Inputs(index)[i].slot] = ahead.images[i]
        BY <4>1 DEF WaitingInv
      <4>3. Inputs(index)[i].slot \notin SlotsOf(index, ToLoad)
        BY <2>1, <2>4, <3>0, <3>2, RowOutside
      <4>4. Inputs(index)[i].slot \notin Invocations[index].constants
        BY <2>1, StageApart DEF Disjoint, SlotsOf
      <4>5. sram'[Inputs(index)[i].slot] = sram[Inputs(index)[i].slot]
        BY <2>5a, <3>0, <4>3, <4>4
      <4>6. images'[i] = ahead.images[i]
        BY <2>1, <4>1
      <4> QED
        BY <4>2, <4>5, <4>6
    <3> QED
      BY <3>1, <3>2
  <2>10. \A i \in Transported(index) :
             images'[i] = Current(Inputs(index)[i].value) /\ images'[i] # Missing
    BY <2>1, PackedNow
  <2>11. \A i \in Uploaded(index) \cup Transported(index) :
             Current(Inputs(index)[i].value)' = Current(Inputs(index)[i].value)
    BY <2>1, CurrentStays
  <2>12. \A i \in DOMAIN StatesOf(index) :
             sram'[StatesOf(index)[i].slot] = backing'[StatesOf(index)[i].state]
    BY <2>1, <2>6 DEF StagedInv
  <2>13. \A i \in Uploaded(index) :
             /\ sram'[Inputs(index)[i].slot] = Current(Inputs(index)[i].value)
             /\ Current(Inputs(index)[i].value) # Missing
    BY <2>1, <2>2, <2>7 DEF StagedInv
  <2>14. index' = index /\ phase' = "linking"
    BY <2>1
  <2> QED
    BY <2>8, <2>9, <2>10, <2>11, <2>12, <2>13, <2>14 DEF StagedInv
<1>27. ASSUME PreparePagesThrows  PROVE  StagedInv'
  BY <1>27, NotStaged DEF PreparePagesThrows, InputsReady, ForgetPrefetched, Throw, NoneKept, NoLookahead
<1>28. ASSUME LookAhead  PROVE  StagedInv'
  <2>1. /\ index \in Index /\ phase = "linking" /\ phase' = "running"
        /\ UNCHANGED <<index, values, overrides, value, backing, sram, images>>
    BY <1>28 DEF LookAhead, Go, ControlInv, TypeOK
  <2>2. Same({}) /\ Disjoint({}, BoundSlots(index))
    BY <2>1 DEF Same, Disjoint
  <2> QED
    BY <2>1, <2>2, StagedRuns
<1>29. ASSUME StayHere  PROVE  StagedInv'
  <2>1. /\ index \in Index /\ phase = "linking" /\ phase' = "running"
        /\ UNCHANGED <<index, values, overrides, value, backing, sram, images>>
    BY <1>29 DEF StayHere, Go, ControlInv, TypeOK
  <2>2. Same({}) /\ Disjoint({}, BoundSlots(index))
    BY <2>1 DEF Same, Disjoint
  <2> QED
    BY <2>1, <2>2, StagedRuns
<1>30. ASSUME LinkThrows  PROVE  StagedInv'
  BY <1>30, NotStaged DEF LinkThrows, Throw, CanLookAhead, NoLookahead
<1>31. ASSUME \E i \in AheadInputs : LandAhead(i)
      PROVE  StagedInv'
  <2>1. PICK k \in AheadInputs : LandAhead(k)
    BY <1>31
  <2>2. /\ phase = "running" /\ phase' = "running" /\ index \in Index
        /\ UNCHANGED <<index, values, overrides, value, backing, images>>
        /\ Same({Inputs(ahead.for)[k].slot})
        /\ Disjoint({Inputs(ahead.for)[k].slot}, BoundSlots(index))
    BY <2>1, Frames DEF LandAhead, HeldBack, Disjoint, ControlInv, TypeOK
  <2> QED
    BY <2>2, StagedRuns
<1>32. ASSUME LandPageAhead  PROVE  StagedInv'
  <2>1. /\ phase = "running" /\ phase' = "running" /\ index \in Index
        /\ UNCHANGED <<index, values, overrides, value, backing, images>>
        /\ Same(PageSlots(ahead.page)) /\ Disjoint(PageSlots(ahead.page), BoundSlots(index))
    BY <1>32, Frames DEF LandPageAhead, HeldBack, Disjoint, ControlInv, TypeOK
  <2> QED
    BY <2>1, StagedRuns
<1>33. ASSUME Execute  PROVE  StagedInv'
  <2>1. /\ phase = "running" /\ phase' = "computed" /\ UNCHANGED <<index, values>>
        /\ sram' = Executed(index, Memory)
    BY <1>33 DEF Execute
  <2>2. \A i \in Kept(index) :
            /\ sram'[Inputs(index)[i].slot] = values[Inputs(index)[i].value]
            /\ values[Inputs(index)[i].value] # Missing
    BY <2>1, KeptThere
  <2> QED
    BY <2>1, <2>2 DEF StagedInv
<1>34. ASSUME ExecutionThrows  PROVE  StagedInv'
  BY <1>34, NotStaged DEF ExecutionThrows, Throw
<1>35. ASSUME Settle  PROVE  StagedInv'
  BY <1>35, NotStaged DEF Settle, Go
<1>36. ASSUME SettleThrows  PROVE  StagedInv'
  BY <1>36, NotStaged DEF SettleThrows, Throw
<1>37. ASSUME PageOutStates  PROVE  StagedInv'
  BY <1>37, NotStaged DEF PageOutStates
<1>38. ASSUME DeliverOutput  PROVE  StagedInv'
  BY <1>38, NotStaged DEF DeliverOutput
<1>39. ASSUME EgressThrows  PROVE  StagedInv'
  BY <1>39, NotStaged DEF EgressThrows, Throw
<1>40. ASSUME FinishInvocation  PROVE  StagedInv'
  BY <1>40, NotStaged DEF FinishInvocation
<1>41. CASE UNCHANGED vars
  BY CurrentStays, <1>41 DEF vars, StagedInv, Passed, Current, Semantics!Current
<1> HIDE DEF hostVars, deviceVars, pagerVars, transferVars, controlVars, ghostVars
<1> QED
  BY <1>1, <1>2, <1>3, <1>4, <1>5, <1>6, <1>7, <1>8, <1>9, <1>10, <1>11, <1>12, <1>13, <1>14, <1>15, <1>16, <1>17, <1>18, <1>19, <1>20, <1>21, <1>22, <1>23, <1>24, <1>25, <1>26, <1>27, <1>28, <1>29, <1>30, <1>31, <1>32, <1>33, <1>34, <1>35, <1>36, <1>37, <1>38, <1>39, <1>40, <1>41
     DEF Next, Calls, Staging, Execution, Egress


-----------------------------------------------------------------------------
\* A program finds the bytes of its inputs in their rows.
LEMMA ReadInput ==
    ASSUME ControlInv, PagesInv, ResidentInv, StagedInv, phase = "running", NEW i \in Taken(index)
    PROVE  /\ Memory[Inputs(index)[i].slot] = Current(Inputs(index)[i].value)
           /\ Current(Inputs(index)[i].value) # Missing
<1> DEFINE row == Inputs(index)[i].slot
           v == Inputs(index)[i].value
           inside == Transported(index) \ Preloaded(index)
<1>1. index \in Index /\ i \in DOMAIN Inputs(index) /\ Inputs(index)[i].kind # "prefetch"
  BY DEF ControlInv, TypeOK, Taken
<1>2. row \in Slots /\ v \in Tensors \cup Values
  BY <1>1, InvocationTypes
<1>3. inside \in SUBSET DOMAIN Inputs(index)
  BY DEF Transported
<1>4. CASE i \in Transported(index)
  <2>1. images[i] = Current(v) /\ images[i] # Missing
    BY <1>4 DEF StagedInv
  <2>2. CASE i \in Preloaded(index)
    <3>1. row \notin SlotsOf(index, inside)
      BY <1>1, <1>3, <2>2, RowOutside
    <3>2. Memory[row] = sram[row]
      BY <1>2, <3>1, LandedSame DEF Memory
    <3> QED
      BY <2>1, <2>2, <3>2 DEF StagedInv
  <2>3. CASE i \notin Preloaded(index)
    <3>1. Memory[row] = images[i]
      BY <1>1, <1>3, <1>4, <2>3, LandedAt DEF Memory
    <3> QED
      BY <2>1, <3>1
  <2> QED
    BY <2>2, <2>3
<1>5. CASE i \notin Transported(index)
  <2>1. Memory[row] = sram[row]
    <3>1. row \notin SlotsOf(index, inside)
      BY <1>1, <1>3, <1>5, RowOutside
    <3> QED
      BY <1>2, <3>1, LandedSame DEF Memory
  <2>2. CASE v \in Values
    <3>1. i \in Uploaded(index)
      BY <1>1, <2>2, UniqueNames DEF Uploaded
    <3> QED
      BY <2>1, <3>1 DEF StagedInv, Passed
  <2>3. CASE v \in Tensors
    <3>1. CASE Transfer(index, i) = "WeightPage"
      <4>1. row \in PageSlots(PageOf(index)) /\ PageImage[PageOf(index)][row] = v
        BY <1>1, <1>5, <3>1, InputsAndPage
      <4>2. PageOf(index) = ready /\ ready # NoPage
        BY <4>1, Places DEF ControlInv, PlaceInv
      <4>3. sram[row] = TensorData(v)
        BY <4>1, <4>2 DEF PagesInv, ReadyPageIsResident
      <4> QED
        BY <2>1, <2>3, <4>3, CurrentOf
    <3>2. CASE Transfer(index, i) = "Resident"
      <4>1. <<row, v>> \in Residents
        BY <1>1, <3>2 DEF Residents
      <4>2. intact
        BY DEF ControlInv, PlaceInv
      <4>3. sram[row] = TensorData(v)
        BY <4>1, <4>2 DEF ResidentInv
      <4> QED
        BY <2>1, <2>3, <4>3, CurrentOf
    <3>3. Transfer(index, i) \in {"WeightPage", "Resident"}
      BY <2>3 DEF Transfer
    <3> QED
      BY <3>1, <3>2, <3>3
  <2> QED
    BY <1>2, <2>2, <2>3
<1> QED
  BY <1>4, <1>5

\* A program finds the states in their rows.
LEMMA ReadState ==
    ASSUME ControlInv, StagedInv, phase = "running", NEW i \in DOMAIN StatesOf(index)
    PROVE  Memory[StatesOf(index)[i].slot] = backing[StatesOf(index)[i].state]
<1> DEFINE inside == Transported(index) \ Preloaded(index)
<1>1. index \in Index
  BY DEF ControlInv, TypeOK
<1>2. SlotsOf(index, inside) \subseteq SlotsOf(index, DOMAIN Inputs(index))
  BY DEF SlotsOf, Transported
<1>3. StatesOf(index)[i].slot \in Slots /\ StatesOf(index)[i].slot \notin SlotsOf(index, inside)
  BY <1>1, <1>2, StateRows
<1>4. Memory[StatesOf(index)[i].slot] = sram[StatesOf(index)[i].slot]
  BY <1>3, LandedSame DEF Memory
<1> QED
  BY <1>4 DEF StagedInv

\* So it reads what the semantics reads.
LEMMA ReadData ==
    ASSUME ControlInv, PagesInv, ResidentInv, StagedInv, phase = "running"
    PROVE  /\ ReadsAreCurrent
           /\ Read(index, Memory) = Semantics!DataOf(index)
           /\ \A i \in Semantics!Taken(index) : Current(Invocations[index].inputs[i].value) # Missing
<1>1. Semantics!Taken(index) = Taken(index)
  BY DEF Semantics!Taken, Taken, Inputs
<1>2. \A i \in Taken(index) :
          /\ Memory[Inputs(index)[i].slot] = Semantics!Current(Invocations[index].inputs[i].value)
          /\ Current(Invocations[index].inputs[i].value) # Missing
  BY ReadInput DEF Current, Inputs
<1>3. [i \in Taken(index) |-> Memory[Inputs(index)[i].slot]]
          = [i \in Semantics!Taken(index) |-> Semantics!Current(Invocations[index].inputs[i].value)]
  BY <1>1, <1>2
<1>4. [i \in DOMAIN StatesOf(index) |-> Memory[StatesOf(index)[i].slot]]
          = [i \in DOMAIN Invocations[index].states |-> backing[Invocations[index].states[i].state]]
  BY ReadState DEF StatesOf
<1>5. Read(index, Memory) = Semantics!DataOf(index)
  BY <1>3, <1>4 DEF Read, Semantics!DataOf
<1>6. \A s \in Invocations[index].constants : sram[s] = ConstantData(index)
  BY DEF StagedInv
<1> QED
  BY <1>1, <1>2, <1>5, <1>6 DEF ReadsAreCurrent


-----------------------------------------------------------------------------
OutputNames(j) == {Outputs(j)[o].value : o \in DOMAIN Outputs(j)}

\* The names of results.
LEMMA Names ==
    ASSUME NEW j \in Index
    PROVE  /\ Semantics!MadeBy(j) = OutputNames(j) \cup StateNames(j)
           /\ OutputNames(j) \subseteq Values /\ StateNames(j) \subseteq States
           /\ \A x \in Values \cup States : \A data : Computed(x, j, data) # Missing
<1>1. Semantics!MadeBy(j) = OutputNames(j) \cup StateNames(j)
  BY DEF Semantics!MadeBy, OutputNames, StateNames, Outputs, StatesOf
<1>2. OutputNames(j) \subseteq Values /\ StateNames(j) \subseteq States
  BY InvocationTypes DEF OutputNames, StateNames
<1>3. \A x \in Values \cup States : \A data : Computed(x, j, data) # Missing
  BY UniqueNames DEF Computed, Missing, Content
<1> QED
  BY <1>1, <1>2, <1>3

\* A cursor beyond the outputs has passed them all.
LEMMA PastTheOutputs ==
    ASSUME NEW j \in Index
    PROVE  /\ \A o \in DOMAIN Outputs(j) : o \in Nat \ {0}
           /\ \A c \in Nat \ {0} : c \notin DOMAIN Outputs(j) => \A o \in DOMAIN Outputs(j) : o < c
<1>1. Outputs(j) \in Seq([value : Values, slot : Slots])
  BY InvocationTypes DEF InvocationType, Outputs
<1>2. DOMAIN Outputs(j) = 1 .. Len(Outputs(j)) /\ Len(Outputs(j)) \in Nat
  BY <1>1
<1> QED
  BY <1>2

\* What the program leaves in the rows of its results.
LEMMA ExecutedResults ==
    ASSUME NEW j \in Index, NEW mem
    PROVE  /\ \A o \in DOMAIN Outputs(j) :
                 Executed(j, mem)[Outputs(j)[o].slot] = Computed(Outputs(j)[o].value, j, Read(j, mem))
           /\ \A i \in DOMAIN StatesOf(j) :
                 Executed(j, mem)[StatesOf(j)[i].slot] = Computed(StatesOf(j)[i].state, j, Read(j, mem))
<1>1. ASSUME NEW o \in DOMAIN Outputs(j)
      PROVE  Executed(j, mem)[Outputs(j)[o].slot] = Computed(Outputs(j)[o].value, j, Read(j, mem))
  <2>1. (CHOOSE k \in DOMAIN Outputs(j) : Outputs(j)[k].slot = Outputs(j)[o].slot) = o
    BY OneOutputRow
  <2>2. Outputs(j)[o].slot \in Slots /\ Outputs(j)[o].slot \in OutputPlaces(j)
    BY InvocationTypes DEF OutputPlaces
  <2> QED
    BY <2>1, <2>2 DEF Executed
<1>2. ASSUME NEW i \in DOMAIN StatesOf(j)
      PROVE  Executed(j, mem)[StatesOf(j)[i].slot] = Computed(StatesOf(j)[i].state, j, Read(j, mem))
  <2>1. (CHOOSE k \in DOMAIN StatesOf(j) : StatesOf(j)[k].slot = StatesOf(j)[i].slot) = i
    BY OneStateRow
  <2>2. StatesOf(j)[i].slot \in Slots /\ StatesOf(j)[i].slot \notin OutputPlaces(j)
        /\ StatesOf(j)[i].slot \in StatePlaces(j)
    BY StateRows, StatesApart
  <2>3. ~ \E o \in DOMAIN Outputs(j) : Outputs(j)[o].slot = StatesOf(j)[i].slot
    BY <2>2 DEF OutputPlaces
  <2> QED
    BY <2>1, <2>2, <2>3 DEF Executed
<1> QED
  BY <1>1, <1>2

\* No results are kept outside of the end of an invocation.
LEMMA NoResults ==
    ASSUME phase' \notin {"computed", "stateout", "outputs"}, result' = Semantics!NoResult
    PROVE  ResultInv'
BY DEF ResultInv, ResultsStay, Semantics!NoResult

\* Results wait in their rows until they are delivered.
LEMMA ResultStep ==
    ASSUME ControlInv, SramInv, PagesInv, ResidentInv, StagedInv, ResultInv, [Next]_vars
    PROVE  ResultInv'
<1> USE Numbers DEF hostVars, deviceVars, pagerVars, transferVars, controlVars, ghostVars
<1>1. ASSUME Load  PROVE  ResultInv'
  BY <1>1, NoResults DEF Load, Call, Returned, DropPackage, Throw, ResultInv
<1>2. ASSUME LoadFails  PROVE  ResultInv'
  BY <1>2, NoResults DEF LoadFails, Call, Returned, DropPackage, Throw, ResultInv
<1>3. ASSUME ResetStates  PROVE  ResultInv'
  BY <1>3, NoResults DEF ResetStates, Call, Returned, Throw, ResultInv
<1>4. ASSUME Run  PROVE  ResultInv'
  BY <1>4, NoResults DEF Run, Call, Usable, ForgetDevice, Throw, ResultInv
<1>5. ASSUME RunWithoutIds  PROVE  ResultInv'
  BY <1>5, NoResults DEF RunWithoutIds, Call, Usable, ForgetDevice, Throw, ResultInv
<1>6. ASSUME \E v \in ExternalInputs : \E n \in Choices[v] : SetInput(v, n)
      PROVE  ResultInv'
  <2>1. phase = "idle" /\ phase' \in {"idle", "page"} /\ result' = result
    BY <1>6 DEF SetInput, Call, Returned
  <2> QED
    BY <2>1, NoResults DEF ResultInv
<1>7. ASSUME \E s \in States : \E n \in Choices[s] : SetState(s, n)
      PROVE  ResultInv'
  <2>1. phase = "idle" /\ phase' \in {"idle", "page"} /\ result' = result
    BY <1>7 DEF SetState, Call, Returned
  <2> QED
    BY <2>1, NoResults DEF ResultInv
<1>8. ASSUME \E j \in Index : RunInvocation(j)
      PROVE  ResultInv'
  <2>1. phase = "idle" /\ phase' \in {"idle", "page"} /\ result' = result
    BY <1>8 DEF RunInvocation, Call, Usable, Enter
  <2> QED
    BY <2>1, NoResults DEF ResultInv
<1>9. ASSUME NextInvocation  PROVE  ResultInv'
  BY <1>9, NoResults DEF NextInvocation, Enter, Index, Throw, ResultInv
<1>10. ASSUME FinishRun  PROVE  ResultInv'
  BY <1>10, NoResults DEF FinishRun, Throw, ResultInv
<1>11. ASSUME KeepWeightPage  PROVE  ResultInv'
  BY <1>11, NoResults DEF KeepWeightPage, PageIsHere, Go, Throw, ResultInv
<1>12. ASSUME StartWeightPage  PROVE  ResultInv'
  BY <1>12, NoResults DEF StartWeightPage, PageIsHere, Go, Throw, ResultInv
<1>13. ASSUME AwaitWeightPage  PROVE  ResultInv'
  BY <1>13, NoResults DEF AwaitWeightPage, PageIsHere, Go, Throw, ResultInv
<1>14. ASSUME RefuseWeightPage  PROVE  ResultInv'
  BY <1>14, NoResults DEF RefuseWeightPage, Throw, ResultInv
<1>15. ASSUME WeightPageArrives  PROVE  ResultInv'
  <2>1. /\ phase' \notin {"computed", "stateout", "outputs"}
        /\ result' = Semantics!NoResult
    BY <1>15, StageFrames DEF Throw, ResultInv
  <2> QED
    BY <2>1, NoResults
<1>16. ASSUME WeightPageTimesOut  PROVE  ResultInv'
  <2>1. /\ phase' \notin {"computed", "stateout", "outputs"}
        /\ result' = Semantics!NoResult
    BY <1>16, StageFrames DEF Throw, ResultInv
  <2> QED
    BY <2>1, NoResults
<1>17. ASSUME PageInStates  PROVE  ResultInv'
  <2>1. /\ phase' \notin {"computed", "stateout", "outputs"}
        /\ result' = Semantics!NoResult
    BY <1>17, StageFrames DEF Throw, ResultInv
  <2> QED
    BY <2>1, NoResults
<1>18. ASSUME NoStates  PROVE  ResultInv'
  BY <1>18, NoResults DEF NoStates, Go, Throw, ResultInv
<1>19. ASSUME StatesThrow  PROVE  ResultInv'
  <2>1. /\ phase' \notin {"computed", "stateout", "outputs"}
        /\ result' = Semantics!NoResult
    BY <1>19, StageFrames DEF Throw, ResultInv
  <2> QED
    BY <2>1, NoResults
<1>20. ASSUME SkipInput  PROVE  ResultInv'
  BY <1>20, NoResults DEF SkipInput, AtInput, NextInput, Go, Throw, ResultInv
<1>21. ASSUME TakePrefetched  PROVE  ResultInv'
  BY <1>21, NoResults DEF TakePrefetched, AtInput, NextInput, Go, Input, Prefetched, Throw, ResultInv
<1>22. ASSUME UploadInput  PROVE  ResultInv'
  <2>1. /\ phase' \notin {"computed", "stateout", "outputs"}
        /\ result' = Semantics!NoResult
    BY <1>22, StageFrames DEF Throw, ResultInv
  <2> QED
    BY <2>1, NoResults
<1>23. ASSUME UploadInputThrows  PROVE  ResultInv'
  <2>1. /\ phase' \notin {"computed", "stateout", "outputs"}
        /\ result' = Semantics!NoResult
    BY <1>23, StageFrames DEF Throw, ResultInv
  <2> QED
    BY <2>1, NoResults
<1>24. ASSUME TakeFromDevice  PROVE  ResultInv'
  <2>1. /\ phase' \notin {"computed", "stateout", "outputs"}
        /\ result' = Semantics!NoResult
    BY <1>24, StageFrames DEF Throw, ResultInv
  <2> QED
    BY <2>1, NoResults
<1>25. ASSUME RefuseInput  PROVE  ResultInv'
  BY <1>25, NoResults DEF RefuseInput, AtInput, Throw, ResultInv
<1>26. ASSUME PreparePages  PROVE  ResultInv'
  BY <1>26, NoResults DEF PreparePages, InputsReady, ForgetPrefetched, Go, NoneKept, NoLookahead, Throw, ResultInv
<1>27. ASSUME PreparePagesThrows  PROVE  ResultInv'
  BY <1>27, NoResults DEF PreparePagesThrows, InputsReady, ForgetPrefetched, Throw, NoneKept, NoLookahead, ResultInv
<1>28. ASSUME LookAhead  PROVE  ResultInv'
  BY <1>28, NoResults DEF LookAhead, Go, CanLookAhead, Throw, ResultInv
<1>29. ASSUME StayHere  PROVE  ResultInv'
  BY <1>29, NoResults DEF StayHere, Go, NoLookahead, Throw, ResultInv
<1>30. ASSUME LinkThrows  PROVE  ResultInv'
  BY <1>30, NoResults DEF LinkThrows, Throw, CanLookAhead, NoLookahead, ResultInv
<1>31. ASSUME \E i \in AheadInputs : LandAhead(i)
      PROVE  ResultInv'
  BY <1>31, NoResults DEF LandAhead, Throw, ResultInv
<1>32. ASSUME LandPageAhead  PROVE  ResultInv'
  BY <1>32, NoResults DEF LandPageAhead, Throw, ResultInv
<1>33. ASSUME Execute  PROVE  ResultInv'
  <2>1. /\ index \in Index /\ phase = "running" /\ phase' = "computed" /\ index' = index
        /\ sram' = Executed(index, Memory) /\ result' = Semantics!ResultOf(index)
    BY <1>33 DEF Execute, ControlInv, TypeOK
  <2>2. \A x \in Values \cup States :
            result'[x] = IF x \in Semantics!MadeBy(index)
                         THEN Computed(x, index, Read(index, Memory)) ELSE Missing
    BY <2>1, ReadData, SameData DEF Semantics!ResultOf
  <2>3. result' = [x \in Values \cup States |-> result'[x]]
    BY <2>1 DEF Semantics!ResultOf
  <2>4. \A x \in Values \cup States : result'[x] # Missing <=> x \in Semantics!MadeBy(index)
    BY <2>1, <2>2, Names
  <2>5. ASSUME NEW k \in DOMAIN Outputs(index)
        PROVE  sram'[Outputs(index)[k].slot] = result'[Outputs(index)[k].value]
    <3>1. Outputs(index)[k].value \in OutputNames(index)
      BY DEF OutputNames
    <3> QED
      BY <2>1, <2>2, <3>1, ExecutedResults, Names
  <2>6. ASSUME NEW i \in DOMAIN StatesOf(index)
        PROVE  sram'[StatesOf(index)[i].slot] = result'[StatesOf(index)[i].state]
    <3>1. StatesOf(index)[i].state \in StateNames(index)
      BY DEF StateNames
    <3> QED
      BY <2>1, <2>2, <3>1, ExecutedResults, Names
  <2> QED
    BY <2>1, <2>3, <2>4, <2>5, <2>6 DEF ResultInv, ResultsStay
<1>34. ASSUME ExecutionThrows  PROVE  ResultInv'
  BY <1>34, NoResults DEF ExecutionThrows, Throw, ResultInv
<1>35. ASSUME Settle  PROVE  ResultInv'
  <2>1. /\ index \in Index /\ phase = "computed" /\ phase' = "stateout" /\ index' = index
        /\ result' = result /\ Same(Ahead(index))
    BY <1>35, SettleFrames DEF Settle, Go
  <2>2. \A k \in DOMAIN Outputs(index) : sram'[Outputs(index)[k].slot] = sram[Outputs(index)[k].slot]
    <3>1. \A k \in DOMAIN Outputs(index) :
              Outputs(index)[k].slot \in Slots /\ Outputs(index)[k].slot \in OutputPlaces(index)
      BY <2>1, InvocationTypes DEF OutputPlaces
    <3>2. Disjoint(Ahead(index), OutputPlaces(index))
      BY <2>1, LookaheadApart DEF Disjoint
    <3> QED
      BY <2>1, <3>1, <3>2 DEF Same, Disjoint
  <2>3. \A i \in DOMAIN StatesOf(index) : sram'[StatesOf(index)[i].slot] = sram[StatesOf(index)[i].slot]
    BY <2>1, StateRows, LookaheadApart DEF Same, Disjoint
  <2> QED
    BY <2>1, <2>2, <2>3 DEF ResultInv, ResultsStay
<1>36. ASSUME SettleThrows  PROVE  ResultInv'
  BY <1>36, NoResults DEF SettleThrows, Throw, ResultInv
<1>37. ASSUME PageOutStates  PROVE  ResultInv'
  <2>1. /\ index \in Index /\ phase = "stateout" /\ phase' = "outputs" /\ index' = index /\ cursor' = 1
        /\ result' = [x \in Values \cup States |-> IF x \in States THEN Missing ELSE result[x]]
        /\ sram' = sram
    BY <1>37 DEF PageOutStates, ControlInv, TypeOK
  <2>2. \A x \in Values \cup States : result'[x] # Missing <=> x \in OutputNames(index)
    BY <2>1, Names, UniqueNames DEF ResultInv
  <2>3. \A x \in Values \cup States : x \in OutputNames(index) <=>
            \E k \in DOMAIN Outputs(index) : k >= 1 /\ Outputs(index)[k].value = x
    BY <2>1, PastTheOutputs DEF OutputNames
  <2>4. \A x \in Values \cup States : result'[x] = Missing \/ result'[x] = result[x]
    BY <2>1
  <2>5. result' = [x \in Values \cup States |-> result'[x]]
    BY <2>1
  <2>6. /\ \A k \in DOMAIN Outputs(index) : Outputs(index)[k].value \in Values
        /\ \A i \in DOMAIN StatesOf(index) : StatesOf(index)[i].state \in States
    BY <2>1, InvocationTypes
  <2>7. ResultsStay'
    BY <2>1, <2>4, <2>6 DEF ResultInv, ResultsStay
  <2> QED
    BY <2>1, <2>2, <2>3, <2>5, <2>7 DEF ResultInv
<1>38. ASSUME DeliverOutput  PROVE  ResultInv'
  <2> DEFINE v == Outputs(index)[cursor].value
  <2>1. /\ index \in Index /\ phase = "outputs" /\ phase' = "outputs" /\ index' = index
        /\ cursor \in DOMAIN Outputs(index) /\ cursor' = cursor + 1
        /\ result' = [result EXCEPT ![v] = Missing] /\ sram' = sram
    BY <1>38 DEF DeliverOutput, ControlInv, TypeOK
  <2>2. v \in Values /\ cursor \in Nat
    BY <2>1, InvocationTypes, PastTheOutputs
  <2>3. \A x \in Values \cup States : result'[x] = IF x = v THEN Missing ELSE result[x]
    BY <2>1 DEF ResultInv
  <2>4. result' = [x \in Values \cup States |-> result'[x]]
    BY <2>1 DEF ResultInv
  <2>5. \A k \in DOMAIN Outputs(index) : Outputs(index)[k].value = v => k = cursor
    BY <2>1, ProducersAssumption
  <2>6. \A k \in DOMAIN Outputs(index) : k \in Nat
    BY <2>1, PastTheOutputs
  <2>7. ASSUME NEW x \in Values \cup States
        PROVE  result'[x] # Missing <=>
                   \E k \in DOMAIN Outputs(index) : k >= cursor + 1 /\ Outputs(index)[k].value = x
    <3>1. CASE x = v
      BY <2>2, <2>3, <2>5, <2>6, <3>1
    <3>2. CASE x # v
      <4>1. result[x] # Missing <=>
                \E k \in DOMAIN Outputs(index) : k >= cursor /\ Outputs(index)[k].value = x
        BY <2>1 DEF ResultInv
      <4>2. \A k \in DOMAIN Outputs(index) :
                Outputs(index)[k].value = x => (k >= cursor <=> k >= cursor + 1)
        BY <2>2, <2>6, <3>2
      <4> QED
        BY <2>3, <3>2, <4>1, <4>2
    <3> QED
      BY <3>1, <3>2
  <2>8. /\ \A k \in DOMAIN Outputs(index) : Outputs(index)[k].value \in Values
        /\ \A i \in DOMAIN StatesOf(index) : StatesOf(index)[i].state \in States
    BY <2>1, InvocationTypes
  <2>9. ResultsStay'
    BY <2>1, <2>3, <2>8 DEF ResultInv, ResultsStay
  <2> HIDE DEF v
  <2> QED
    BY <2>1, <2>4, <2>7, <2>9 DEF ResultInv
<1>39. ASSUME EgressThrows  PROVE  ResultInv'
  BY <1>39, NoResults DEF EgressThrows, Throw, ResultInv
<1>40. ASSUME FinishInvocation  PROVE  ResultInv'
  <2>1. /\ index \in Index /\ phase = "outputs" /\ phase' \in {"next", "idle"} /\ result' = result
        /\ cursor \notin DOMAIN Outputs(index) /\ cursor \in Nat \ {0}
    BY <1>40 DEF FinishInvocation, ControlInv, TypeOK, PlaceInv
  <2>2. \A k \in DOMAIN Outputs(index) : k \in Nat /\ ~(k >= cursor)
    BY <2>1, PastTheOutputs
  <2>3. \A x \in Values \cup States : result[x] = Missing
    BY <2>1, <2>2 DEF ResultInv
  <2>4. result = [x \in Values \cup States |-> Semantics!Missing]
    BY <2>3, SameData DEF ResultInv
  <2> QED
    BY <2>1, <2>4, NoResults DEF Semantics!NoResult
<1>41. CASE UNCHANGED vars
  BY <1>41 DEF vars, ResultInv, ResultsStay
<1> HIDE DEF hostVars, deviceVars, pagerVars, transferVars, controlVars, ghostVars
<1> QED
  BY <1>1, <1>2, <1>3, <1>4, <1>5, <1>6, <1>7, <1>8, <1>9, <1>10, <1>11, <1>12, <1>13, <1>14, <1>15, <1>16, <1>17, <1>18, <1>19, <1>20, <1>21, <1>22, <1>23, <1>24, <1>25, <1>26, <1>27, <1>28, <1>29, <1>30, <1>31, <1>32, <1>33, <1>34, <1>35, <1>36, <1>37, <1>38, <1>39, <1>40, <1>41
     DEF Next, Calls, Staging, Execution, Egress


-----------------------------------------------------------------------------
\* Where a live value was made, and who is still to read it.
LEMMA LiveSpan ==
    ASSUME ControlInv, index \in Index, NEW v \in Values, Live(v),
           phase \notin {"idle", "next", "outputs"}
    PROVE  /\ \A s \in OutputSlots(v) : s \in Slots /\ s \notin EarlyBut(index, {v})
           /\ (\E b \in Consumers(v) : index < b) =>
                  \A s \in OutputSlots(v) : s \notin Late(index) \cup Ahead(index)
<1>1. position + 1 = index /\ position \in Nat /\ index \in Nat
  BY Numbers DEF ControlInv, TypeOK, PlaceInv
<1>2. PICK a \in Producers(v) : a <= position
  BY DEF Live, Made
<1>3. PICK b \in Consumers(v) : position < b
  BY DEF Live
<1>4. Consumers(v) \subseteq Nat /\ Producers(v) \subseteq Nat
  BY Numbers DEF Consumers, Producers
<1>5. index \in a + 1 .. b
  BY <1>1, <1>2, <1>3, <1>4
<1>6. \A s \in OutputSlots(v) : s \in Slots
  BY InvocationTypes DEF OutputSlots, Producers
<1>7. ASSUME NEW c \in Consumers(v), index < c
      PROVE  \A s \in OutputSlots(v) : s \notin Late(index) \cup Ahead(index)
  <2>1. index \in a + 1 .. c - 1 /\ index \in a .. c - 1
    BY <1>1, <1>2, <1>4, <1>7
  <2> QED
    BY <1>2, <1>7, <2>1, ValuesApart
<1>8. \A s \in OutputSlots(v) : s \notin EarlyBut(index, {v})
  BY <1>2, <1>3, <1>5, ValuesApart
<1> QED
  BY <1>6, <1>7, <1>8

\* Once the inputs are in place, a live value has a later consumer.
LEMMA LiveLater ==
    ASSUME ControlInv, DeviceInv, index \in Index, NEW v \in Values, Live(v),
           phase \in {"linking", "running", "computed", "stateout"}
    PROVE  \E b \in Consumers(v) : index < b
<1>1. position + 1 = index /\ position \in Nat
  BY Numbers DEF ControlInv, TypeOK, PlaceInv
<1>2. PICK b \in Consumers(v) : position < b
  BY DEF Live
<1>3. Consumers(v) \subseteq Nat /\ Producers(v) # {}
  BY Numbers DEF Consumers, Live, Made
<1>4. SUFFICES ASSUME b = index, \A k \in Consumers(v) : k <= index
               PROVE  FALSE
  BY <1>1, <1>2, <1>3
<1>5. PICK i \in DOMAIN Inputs(index) : Inputs(index)[i].value = v
  BY <1>2, <1>4 DEF Consumers
<1>6. v \notin Tensors
  BY UniqueNames
<1>7. i \in Uploaded(index)
  BY <1>3, <1>5, <1>6, PackedBytesStay DEF Uploaded, Kept
<1>8. ReleasedAt(v, index)
  BY <1>4 DEF ReleasedAt
<1>9. Passed(i)
  BY DEF Passed
<1> QED
  BY <1>3, <1>5, <1>7, <1>8, <1>9 DEF DeviceInv, ReleasedInv, Live

\* Live values stay while other rows change.
LEMMA LiveStays ==
    ASSUME LiveInv, UNCHANGED <<device, overrides, value>>, position' = position,
           phase' # "outputs" \/ cursor' = 1, NEW rows, Same(rows),
           \A v \in Values : Live(v) => device[v] \in Slots \ rows
    PROVE  LiveInv'
<1>1. ASSUME NEW v \in Values, Live(v)'  PROVE  Live(v)
  <2>1. PICK a \in Producers(v) :
            \/ a <= position
            \/ /\ phase' = "outputs"
               /\ \E k \in DOMAIN Outputs(a) : k < 1 /\ Outputs(a)[k].value = v
    BY <1>1 DEF Live, Made
  <2>2. a \in Index
    BY DEF Producers
  <2>3. \A k \in DOMAIN Outputs(a) : ~(k < 1)
    BY <2>2, PastTheOutputs
  <2> QED
    BY <1>1, <2>1, <2>3 DEF Live, Made
<1> QED
  BY <1>1 DEF LiveInv, Same

\* An invocation begins with the values that its caller left live.
LEMMA LiveEntered ==
    ASSUME ControlInv, LiveInv, NEW j \in Index, Enter(j), phase \in {"idle", "next"},
           j = position + 1 \/ MayInvoke(j)
    PROVE  LiveInv'
<1>1. j \in Nat \ {0} /\ position' = j - 1 /\ phase' = "page" /\ UNCHANGED <<device, overrides, value, sram>>
  BY Numbers DEF Enter, hostVars, ghostVars
<1>2. ASSUME NEW v \in Values, Live(v)'  PROVE  Live(v)
  <2>1. PICK a \in Producers(v), b \in Consumers(v) : a <= j - 1 /\ j - 1 < b
    BY <1>1, <1>2 DEF Live, Made
  <2>2. a \in Nat \ {0} /\ b \in Nat
    BY Numbers DEF Producers, Consumers
  <2>3. device[v] # NoSlot /\ v \notin overrides
    BY <1>1, <1>2 DEF Live
  <2>4. j # 1 /\ a < j /\ b >= j
    BY <1>1, <2>1, <2>2
  <2>5. j = position + 1
    BY <2>1, <2>3, <2>4 DEF MayInvoke
  <2>6. position = j - 1
    BY <1>1, <2>5, Numbers DEF ControlInv, TypeOK
  <2> QED
    BY <2>1, <2>3, <2>6 DEF Live, Made
<1> QED
  BY <1>1, <1>2 DEF LiveInv


\* No input is released twice.
LEMMA ReleasedStays ==
    ASSUME ReleasedInv, phase \in {"inputs", "linking", "running", "computed", "stateout", "outputs"},
           index' = index, UNCHANGED <<device, overrides>>,
           \A i \in Uploaded(index) : Passed(i)' => Passed(i)
    PROVE  ReleasedInv'
BY DEF ReleasedInv

\* Nothing is released before the inputs or after the invocation.
LEMMA NotReleased ==
    ASSUME phase' \notin {"inputs", "linking", "running", "computed", "stateout", "outputs"}
    PROVE  ReleasedInv'
BY DEF ReleasedInv

\* The next input is released, or its value was never on the device.
LEMMA ReleasedInput ==
    ASSUME ControlInv, ReleasedInv, index \in Index, AtInput, NextInput, overrides' = overrides,
           \A v \in Values : device'[v] \in {device[v], NoSlot},
           cursor \in Uploaded(index) =>
               \/ Producers(Input.value) = {} \/ Input.value \in overrides
               \/ ~ReleasedAt(Input.value, index) \/ device'[Input.value] = NoSlot
    PROVE  ReleasedInv'
<1>1. /\ phase = "inputs" /\ phase' = "inputs" /\ index' = index /\ cursor' = cursor + 1
      /\ cursor \in Nat
  BY DEF AtInput, NextInput, Go, ControlInv, PlaceInv
<1>2. ASSUME NEW i \in Uploaded(index), i < cursor + 1
      PROVE  LET v == Inputs(index)[i].value IN
             Producers(v) # {} /\ ReleasedAt(v, index) => device'[v] = NoSlot \/ v \in overrides
  <2>1. i < cursor \/ i = cursor
    BY <1>1, <1>2, UploadedRows
  <2>2. Inputs(index)[i].value \in Values
    BY UploadedRows
  <2>3. CASE i < cursor
    BY <1>1, <2>2, <2>3 DEF ReleasedInv, Passed
  <2>4. CASE i = cursor
    BY <2>2, <2>4 DEF Input
  <2> QED
    BY <2>1, <2>3, <2>4
<1> QED
  BY <1>1, <1>2 DEF ReleasedInv, Passed, ReleasedAt, Producers

\* Staging touches no live value.
LEMMA LiveStaged ==
    ASSUME ControlInv, LiveInv, index \in Index, phase \in {"page", "arriving", "states", "inputs"},
           UNCHANGED <<device, overrides, value>>, position' = position, phase' # "outputs",
           NEW rows, Same(rows),
           \A v \in Values : Live(v) => rows \subseteq EarlyBut(index, {v})
    PROVE  LiveInv'
<1>1. \A v \in Values : Live(v) => device[v] \in Slots \ rows
  BY LiveSpan DEF LiveInv
<1> QED
  BY <1>1, LiveStays

\* The program and its transports touch no live value.
LEMMA LiveRuns ==
    ASSUME ControlInv, DeviceInv, index \in Index,
           phase \in {"linking", "running", "computed", "stateout"},
           UNCHANGED <<device, overrides, value>>, position' = position,
           phase' # "outputs" \/ cursor' = 1,
           NEW rows, Same(rows), rows \subseteq Late(index) \cup Ahead(index)
    PROVE  LiveInv'
<1>1. \A v \in Values : Live(v) => device[v] \in Slots \ rows
  BY LiveSpan, LiveLater DEF DeviceInv, LiveInv
<1> QED
  BY <1>1, LiveStays DEF DeviceInv

\* A live value stays in its rows until its last consumer has taken it.
LEMMA DeviceStep ==
    ASSUME ControlInv, SramInv, PrefetchedInv, DeviceInv, ResultInv, GhostInv, [Next]_vars
    PROVE  DeviceInv'
<1> USE Numbers DEF hostVars, deviceVars, pagerVars, transferVars, controlVars, ghostVars
<1>1. ASSUME Load  PROVE  DeviceInv'
  <2>1. phase' \in {"idle", "next"} /\ \A v \in Values : device'[v] = NoSlot
    BY <1>1 DEF Load, Call, Returned, DropPackage, NoneKept
  <2>2. LiveInv'
    BY <2>1 DEF LiveInv, Live
  <2> QED
    BY <2>1, <2>2, NotReleased DEF DeviceInv
<1>2. ASSUME LoadFails  PROVE  DeviceInv'
  <2>1. phase' \in {"idle", "next"} /\ \A v \in Values : device'[v] = NoSlot
    BY <1>2 DEF LoadFails, Call, Returned, DropPackage, NoneKept
  <2>2. LiveInv'
    BY <2>1 DEF LiveInv, Live
  <2> QED
    BY <2>1, <2>2, NotReleased DEF DeviceInv
<1>3. ASSUME ResetStates  PROVE  DeviceInv'
  <2>1. /\ phase \in {"idle", "next"} /\ phase' = "idle" /\ position' = position
        /\ UNCHANGED <<device, overrides, value, sram>>
    BY <1>3 DEF ResetStates, Call, Returned
  <2>2. LiveInv'
    BY <2>1 DEF DeviceInv, LiveInv, Live, Made
  <2> QED
    BY <2>1, <2>2, NotReleased DEF DeviceInv
<1>4. ASSUME Run  PROVE  DeviceInv'
  <2>1. phase' \in {"idle", "next"} /\ \A v \in Values : device'[v] = NoSlot
    BY <1>4 DEF Run, Call, Usable, ForgetDevice, NoneKept
  <2>2. LiveInv'
    BY <2>1 DEF LiveInv, Live
  <2> QED
    BY <2>1, <2>2, NotReleased DEF DeviceInv
<1>5. ASSUME RunWithoutIds  PROVE  DeviceInv'
  <2>1. phase' \in {"idle", "next"} /\ \A v \in Values : device'[v] = NoSlot
    BY <1>5 DEF RunWithoutIds, Call, Usable, ForgetDevice, NoneKept
  <2>2. LiveInv'
    BY <2>1 DEF LiveInv, Live
  <2> QED
    BY <2>1, <2>2, NotReleased DEF DeviceInv
<1>6. ASSUME \E v \in ExternalInputs : \E n \in Choices[v] : SetInput(v, n)
      PROVE  DeviceInv'
  <2>1. /\ phase = "idle" /\ phase' = "idle" /\ position' = position /\ overrides \subseteq overrides'
        /\ UNCHANGED <<device, value, sram>>
    BY <1>6 DEF SetInput, Call, Returned
  <2>2. LiveInv'
    BY <2>1 DEF DeviceInv, LiveInv, Live, Made
  <2> QED
    BY <2>1, <2>2, NotReleased DEF DeviceInv
<1>7. ASSUME \E s \in States : \E n \in Choices[s] : SetState(s, n)
      PROVE  DeviceInv'
  <2>1. /\ phase \in {"idle", "next"} /\ phase' = "idle" /\ position' = position
        /\ UNCHANGED <<device, overrides, value, sram>>
    BY <1>7 DEF SetState, Call, Returned
  <2>2. LiveInv'
    BY <2>1 DEF DeviceInv, LiveInv, Live, Made
  <2> QED
    BY <2>1, <2>2, NotReleased DEF DeviceInv
<1>8. ASSUME \E j \in Index : RunInvocation(j)
      PROVE  DeviceInv'
  <2>1. PICK j \in Index : RunInvocation(j)
    BY <1>8
  <2>2. Enter(j) /\ phase = "idle" /\ MayInvoke(j) /\ phase' = "page"
    BY <2>1 DEF RunInvocation, Call, Enter
  <2>3. LiveInv'
    BY <2>2, LiveEntered DEF DeviceInv
  <2> QED
    BY <2>2, <2>3, NotReleased DEF DeviceInv
<1>9. ASSUME NextInvocation  PROVE  DeviceInv'
  <2>1. Enter(index + 1) /\ phase = "next" /\ index + 1 \in Index /\ position = index /\ phase' = "page"
    BY <1>9 DEF NextInvocation, Enter, ControlInv, TypeOK, PlaceInv, Index
  <2>2. LiveInv'
    BY <2>1, LiveEntered DEF DeviceInv
  <2> QED
    BY <2>1, <2>2, NotReleased DEF DeviceInv
<1>10. ASSUME FinishRun  PROVE  DeviceInv'
  <2>1. /\ phase \in {"idle", "next"} /\ phase' = "idle" /\ position' = position
        /\ UNCHANGED <<device, overrides, value, sram>>
    BY <1>10 DEF FinishRun
  <2>2. LiveInv'
    BY <2>1 DEF DeviceInv, LiveInv, Live, Made
  <2> QED
    BY <2>1, <2>2, NotReleased DEF DeviceInv
<1>11. ASSUME KeepWeightPage  PROVE  DeviceInv'
  <2>1. /\ phase \in {"page", "inputs"} /\ phase' \in {"states", "arriving", "idle"}
        /\ index \in Index /\ Same({}) /\ position' = position
        /\ UNCHANGED <<device, overrides, value>>
    BY <1>11 DEF KeepWeightPage, PageIsHere, Go, Same, ControlInv, TypeOK
  <2>2. LiveInv'
    BY <2>1, LiveStaged DEF DeviceInv
  <2> QED
    BY <2>1, <2>2, NotReleased DEF DeviceInv
<1>12. ASSUME StartWeightPage  PROVE  DeviceInv'
  <2>1. /\ phase \in {"page", "inputs"} /\ phase' \in {"states", "arriving", "idle"}
        /\ index \in Index /\ Same({}) /\ position' = position
        /\ UNCHANGED <<device, overrides, value>>
    BY <1>12 DEF StartWeightPage, PageIsHere, Go, Same, ControlInv, TypeOK
  <2>2. LiveInv'
    BY <2>1, LiveStaged DEF DeviceInv
  <2> QED
    BY <2>1, <2>2, NotReleased DEF DeviceInv
<1>13. ASSUME AwaitWeightPage  PROVE  DeviceInv'
  <2>1. /\ phase \in {"page", "inputs"} /\ phase' \in {"states", "arriving", "idle"}
        /\ index \in Index /\ Same({}) /\ position' = position
        /\ UNCHANGED <<device, overrides, value>>
    BY <1>13 DEF AwaitWeightPage, PageIsHere, Go, Same, ControlInv, TypeOK
  <2>2. LiveInv'
    BY <2>1, LiveStaged DEF DeviceInv
  <2> QED
    BY <2>1, <2>2, NotReleased DEF DeviceInv
<1>14. ASSUME RefuseWeightPage  PROVE  DeviceInv'
  <2>1. /\ phase \in {"page", "inputs"} /\ phase' \in {"states", "arriving", "idle"}
        /\ index \in Index /\ Same({}) /\ position' = position
        /\ UNCHANGED <<device, overrides, value>>
    BY <1>14 DEF RefuseWeightPage, Throw, Same, ControlInv, TypeOK
  <2>2. LiveInv'
    BY <2>1, LiveStaged DEF DeviceInv
  <2> QED
    BY <2>1, <2>2, NotReleased DEF DeviceInv
<1>15. ASSUME WeightPageArrives  PROVE  DeviceInv'
  <2>1. /\ phase \in {"arriving", "states"} /\ phase' \in {"states", "idle"}
        /\ index \in Index /\ position' = position /\ UNCHANGED <<device, overrides, value>>
    BY <1>15 DEF WeightPageArrives, Go, ControlInv, TypeOK
  <2>2. Same(PageSlots(PageOf(index)))
    BY <1>15, Frames
  <2>3. \A v : PageSlots(PageOf(index)) \subseteq EarlyBut(index, {v})
    BY DEF EarlyBut
  <2>4. LiveInv'
    BY <2>1, <2>2, <2>3, LiveStaged DEF DeviceInv
  <2> QED
    BY <2>1, <2>4, NotReleased DEF DeviceInv
<1>16. ASSUME WeightPageTimesOut  PROVE  DeviceInv'
  <2>1. /\ phase \in {"arriving", "states"} /\ phase' \in {"states", "idle"}
        /\ index \in Index /\ position' = position /\ UNCHANGED <<device, overrides, value>>
    BY <1>16 DEF WeightPageTimesOut, Throw, ControlInv, TypeOK
  <2>2. Same(Unlike(sram, PageOf(index)))
    BY <1>16, Frames, SpoiledSame DEF WeightPageTimesOut, Same
  <2>3. \A v : Unlike(sram, PageOf(index)) \subseteq EarlyBut(index, {v})
    BY DEF EarlyBut, Unlike
  <2>4. LiveInv'
    BY <2>1, <2>2, <2>3, LiveStaged DEF DeviceInv
  <2> QED
    BY <2>1, <2>4, NotReleased DEF DeviceInv
<1>17. ASSUME PageInStates  PROVE  DeviceInv'
  <2>1. /\ phase = "states" /\ phase' = "inputs" /\ index \in Index /\ position' = position
        /\ UNCHANGED <<device, overrides, value, index, cursor>> /\ cursor = 1
    BY <1>17 DEF PageInStates, Upload, Go, ControlInv, TypeOK, PlaceInv
  <2>2. Same(StatePlaces(index))
    BY <1>17, Frames DEF NoStates, Same
  <2>3. \A v : StatePlaces(index) \subseteq EarlyBut(index, {v})
    BY DEF EarlyBut
  <2>4. LiveInv'
    BY <2>1, <2>2, <2>3, LiveStaged DEF DeviceInv
  <2>5. \A i \in Uploaded(index) : ~(i < 1)
    BY <2>1, UploadedRows
  <2>6. ReleasedInv'
    BY <2>1, <2>5 DEF ReleasedInv, Passed
  <2> QED
    BY <2>4, <2>6 DEF DeviceInv
<1>18. ASSUME NoStates  PROVE  DeviceInv'
  <2>1. /\ phase = "states" /\ phase' = "inputs" /\ index \in Index /\ position' = position
        /\ UNCHANGED <<device, overrides, value, index, cursor>> /\ cursor = 1
    BY <1>18 DEF NoStates, Go, ControlInv, TypeOK, PlaceInv
  <2>2. Same({})
    BY <1>18, Frames DEF NoStates, Same
  <2>3. \A v : {} \subseteq EarlyBut(index, {v})
    BY DEF EarlyBut
  <2>4. LiveInv'
    BY <2>1, <2>2, <2>3, LiveStaged DEF DeviceInv
  <2>5. \A i \in Uploaded(index) : ~(i < 1)
    BY <2>1, UploadedRows
  <2>6. ReleasedInv'
    BY <2>1, <2>5 DEF ReleasedInv, Passed
  <2> QED
    BY <2>4, <2>6 DEF DeviceInv
<1>19. ASSUME StatesThrow  PROVE  DeviceInv'
  <2>1. /\ phase \in {"arriving", "states"} /\ phase' \in {"states", "idle"}
        /\ index \in Index /\ position' = position /\ UNCHANGED <<device, overrides, value>>
    BY <1>19 DEF StatesThrow, UploadThrows, Throw, ControlInv, TypeOK
  <2>2. Same(StatePlaces(index))
    BY <1>19, Frames
  <2>3. \A v : StatePlaces(index) \subseteq EarlyBut(index, {v})
    BY DEF EarlyBut
  <2>4. LiveInv'
    BY <2>1, <2>2, <2>3, LiveStaged DEF DeviceInv
  <2> QED
    BY <2>1, <2>4, NotReleased DEF DeviceInv
<1>20. ASSUME SkipInput  PROVE  DeviceInv'
  <2>1. /\ index \in Index /\ AtInput /\ NextInput /\ phase = "inputs" /\ phase' = "inputs"
        /\ UNCHANGED <<device, overrides, value, position>> /\ Same({})
    BY <1>20 DEF SkipInput, AtInput, NextInput, Go, Same, ControlInv, TypeOK
  <2>2. LiveInv'
    BY <2>1, LiveStaged DEF DeviceInv
  <2>3. cursor \notin Uploaded(index)
    BY <1>20 DEF SkipInput, Input, Transfer, Uploaded
  <2>4. ReleasedInv'
    BY <2>1, <2>3, ReleasedInput DEF DeviceInv
  <2> QED
    BY <2>2, <2>4 DEF DeviceInv
<1>21. ASSUME TakePrefetched  PROVE  DeviceInv'
  <2>1. /\ index \in Index /\ AtInput /\ NextInput /\ phase = "inputs" /\ phase' = "inputs"
        /\ UNCHANGED <<device, overrides, value, position>> /\ Same({})
    BY <1>21 DEF TakePrefetched, AtInput, NextInput, Go, Same, ControlInv, TypeOK
  <2>2. LiveInv'
    BY <2>1, LiveStaged DEF DeviceInv
  <2>3. Producers(Input.value) = {}
    BY <1>21 DEF TakePrefetched, Prefetched, PrefetchedInv
  <2>4. ReleasedInv'
    BY <2>1, <2>3, ReleasedInput DEF DeviceInv
  <2> QED
    BY <2>2, <2>4 DEF DeviceInv
<1>22. ASSUME UploadInput  PROVE  DeviceInv'
  <2>1. /\ index \in Index /\ AtInput /\ NextInput /\ phase = "inputs" /\ phase' = "inputs"
        /\ UNCHANGED <<device, overrides, value, position>> /\ Same({Input.slot})
    BY <1>22, Frames DEF UploadInput, Upload, AtInput, NextInput, Go, ControlInv, TypeOK
  <2>2. cursor \in Uploaded(index) /\ Input.value \in Values
    BY <1>22, <2>1, UploadedInput, UploadedRows DEF UploadInput, Input
  <2>3. Input.value \in overrides \/ Producers(Input.value) = {}
    BY <1>22 DEF UploadInput, FromHost, Transfer, Input
  <2>4. \A v \in Values : Live(v) => {Input.slot} \subseteq EarlyBut(index, {v})
    <3>1. \A v \in Values : Live(v) => v # Input.value
      BY <2>3 DEF Live, Made
    <3> QED
      BY <2>2, <3>1 DEF EarlyBut, SlotsOf, Input
  <2>5. LiveInv'
    BY <2>1, <2>4, LiveStaged DEF DeviceInv
  <2>6. ReleasedInv'
    BY <2>1, <2>3, ReleasedInput DEF DeviceInv
  <2> QED
    BY <2>5, <2>6 DEF DeviceInv
<1>23. ASSUME UploadInputThrows  PROVE  DeviceInv'
  <2>1. /\ index \in Index /\ phase = "inputs" /\ phase' = "idle" /\ AtInput
        /\ UNCHANGED <<device, overrides, value, position>> /\ Same({Input.slot})
    BY <1>23, Frames DEF UploadInputThrows, UploadThrows, Throw, AtInput, ControlInv, TypeOK
  <2>2. cursor \in Uploaded(index) /\ Input.value \in Values
    BY <1>23, <2>1, UploadedInput, UploadedRows DEF UploadInputThrows, Input
  <2>3. Input.value \in overrides \/ Producers(Input.value) = {}
    BY <1>23 DEF UploadInputThrows, FromHost, Transfer, Input
  <2>4. \A v \in Values : Live(v) => {Input.slot} \subseteq EarlyBut(index, {v})
    <3>1. \A v \in Values : Live(v) => v # Input.value
      BY <2>3 DEF Live, Made
    <3> QED
      BY <2>2, <3>1 DEF EarlyBut, SlotsOf, Input
  <2>5. LiveInv'
    BY <2>1, <2>4, LiveStaged DEF DeviceInv
  <2> QED
    BY <2>1, <2>5, NotReleased DEF DeviceInv
<1>24. ASSUME TakeFromDevice  PROVE  DeviceInv'
  <2> DEFINE w == Input.value
  <2>1. /\ index \in Index /\ AtInput /\ NextInput /\ phase = "inputs" /\ phase' = "inputs"
        /\ UNCHANGED <<overrides, value, position>> /\ Same({Input.slot})
        /\ sram' = [sram EXCEPT ![Input.slot] = sram[device[w]]]
        /\ device' = IF ReleasedAt(w, index) THEN [device EXCEPT ![w] = NoSlot] ELSE device
    BY <1>24, Frames DEF TakeFromDevice, AtInput, NextInput, Go, ControlInv, TypeOK
  <2>2. cursor \in Uploaded(index) /\ w \in Values /\ Input.slot \in Slots
    BY <1>24, <2>1, UploadedInput, UploadedRows DEF TakeFromDevice, Input
  <2>3. \A v \in Values : device'[v] \in {device[v], NoSlot}
    BY <2>1 DEF ControlInv, TypeOK
  <2>4. ReleasedAt(w, index) => device'[w] = NoSlot
    BY <2>1, <2>2 DEF ControlInv, TypeOK
  <2>5. ReleasedInv'
    BY <2>1, <2>3, <2>4, ReleasedInput DEF DeviceInv
  <2>6. sram'[Input.slot] = sram[device[w]]
    BY <2>1, <2>2 DEF SramInv
  <2>7. ASSUME NEW v \in Values, Live(v)'
        PROVE  device'[v] \in OutputSlots(v) /\ sram'[device'[v]] = value[v] /\ value[v] # Missing
    <3>1. device'[v] = device[v] /\ Live(v)
      BY <2>1, <2>3, <2>7 DEF Live, Made
    <3>2. device[v] \in OutputSlots(v) /\ sram[device[v]] = value[v] /\ value[v] # Missing
      BY <3>1 DEF DeviceInv, LiveInv
    <3>3. device[v] \in Slots /\ device[v] \notin EarlyBut(index, {v})
      BY <2>1, <3>1, <3>2, LiveSpan
    <3>4. v # w => device[v] # Input.slot
      BY <2>2, <3>3 DEF EarlyBut, SlotsOf, Input
    <3>5. sram'[device[v]] = sram[device[v]]
      BY <2>1, <2>6, <3>3, <3>4 DEF Same
    <3> QED
      BY <3>1, <3>2, <3>5
  <2>8. LiveInv'
    BY <2>1, <2>7 DEF LiveInv
  <2> QED
    BY <2>5, <2>8 DEF DeviceInv
<1>25. ASSUME RefuseInput  PROVE  DeviceInv'
  <2>1. /\ phase \in {"page", "inputs"} /\ phase' \in {"states", "arriving", "idle"}
        /\ index \in Index /\ Same({}) /\ position' = position
        /\ UNCHANGED <<device, overrides, value>>
    BY <1>25 DEF RefuseInput, AtInput, Throw, Same, ControlInv, TypeOK
  <2>2. LiveInv'
    BY <2>1, LiveStaged DEF DeviceInv
  <2> QED
    BY <2>1, <2>2, NotReleased DEF DeviceInv
<1>26. ASSUME PreparePages  PROVE  DeviceInv'
  <2>1. /\ index \in Index /\ phase = "inputs" /\ phase' \in {"linking", "idle"} /\ index' = index
        /\ UNCHANGED <<device, overrides, value, position>>
        /\ Same(Invocations[index].constants \cup SlotsOf(index, ToLoad))
    BY <1>26, Frames DEF PreparePages, InputsReady, ForgetPrefetched, Go, Throw, ControlInv, TypeOK
  <2>2. \A v : Invocations[index].constants \cup SlotsOf(index, ToLoad) \subseteq EarlyBut(index, {v})
    BY DEF EarlyBut, SlotsOf, ToLoad
  <2>3. LiveInv'
    BY <2>1, <2>2, LiveStaged DEF DeviceInv
  <2>4. \A i \in Uploaded(index) : Passed(i)
    <3>1. cursor \in Nat \ {0} /\ cursor \notin DOMAIN Inputs(index)
      BY <1>26, <2>1 DEF PreparePages, InputsReady, ControlInv, PlaceInv
    <3> QED
      BY <2>1, <3>1, PastTheEnd DEF Passed, Uploaded
  <2>5. ReleasedInv'
    BY <2>1, <2>4, ReleasedStays, NotReleased DEF DeviceInv
  <2> QED
    BY <2>3, <2>5 DEF DeviceInv
<1>27. ASSUME PreparePagesThrows  PROVE  DeviceInv'
  <2>1. /\ index \in Index /\ phase = "inputs" /\ phase' \in {"linking", "idle"} /\ index' = index
        /\ UNCHANGED <<device, overrides, value, position>>
        /\ Same(Invocations[index].constants \cup SlotsOf(index, ToLoad))
    BY <1>27, Frames DEF PreparePagesThrows, InputsReady, ForgetPrefetched, Go, Throw, ControlInv, TypeOK
  <2>2. \A v : Invocations[index].constants \cup SlotsOf(index, ToLoad) \subseteq EarlyBut(index, {v})
    BY DEF EarlyBut, SlotsOf, ToLoad
  <2>3. LiveInv'
    BY <2>1, <2>2, LiveStaged DEF DeviceInv
  <2>4. \A i \in Uploaded(index) : Passed(i)
    <3>1. cursor \in Nat \ {0} /\ cursor \notin DOMAIN Inputs(index)
      BY <1>27, <2>1 DEF PreparePagesThrows, InputsReady, ControlInv, PlaceInv
    <3> QED
      BY <2>1, <3>1, PastTheEnd DEF Passed, Uploaded
  <2>5. ReleasedInv'
    BY <2>1, <2>4, ReleasedStays, NotReleased DEF DeviceInv
  <2> QED
    BY <2>3, <2>5 DEF DeviceInv
<1>28. ASSUME LookAhead  PROVE  DeviceInv'
  <2>1. /\ index \in Index /\ phase \in {"linking", "stateout"} /\ index' = index
        /\ phase' \in {"running", "idle", "outputs"} /\ (phase' = "outputs" => cursor' = 1)
        /\ UNCHANGED <<device, overrides, value, position>> /\ Same({})
    BY <1>28 DEF LookAhead, Go, CanLookAhead, Same, ControlInv, TypeOK
  <2>2. LiveInv'
    BY <2>1, LiveRuns
  <2>3. ReleasedInv'
    BY <2>1, ReleasedStays, NotReleased DEF Passed, DeviceInv
  <2> QED
    BY <2>2, <2>3 DEF DeviceInv
<1>29. ASSUME StayHere  PROVE  DeviceInv'
  <2>1. /\ index \in Index /\ phase \in {"linking", "stateout"} /\ index' = index
        /\ phase' \in {"running", "idle", "outputs"} /\ (phase' = "outputs" => cursor' = 1)
        /\ UNCHANGED <<device, overrides, value, position>> /\ Same({})
    BY <1>29 DEF StayHere, Go, NoLookahead, Same, ControlInv, TypeOK
  <2>2. LiveInv'
    BY <2>1, LiveRuns
  <2>3. ReleasedInv'
    BY <2>1, ReleasedStays, NotReleased DEF Passed, DeviceInv
  <2> QED
    BY <2>2, <2>3 DEF DeviceInv
<1>30. ASSUME LinkThrows  PROVE  DeviceInv'
  <2>1. /\ index \in Index /\ phase \in {"linking", "stateout"} /\ index' = index
        /\ phase' \in {"running", "idle", "outputs"} /\ (phase' = "outputs" => cursor' = 1)
        /\ UNCHANGED <<device, overrides, value, position>> /\ Same({})
    BY <1>30 DEF LinkThrows, Throw, CanLookAhead, NoLookahead, Same, ControlInv, TypeOK
  <2>2. LiveInv'
    BY <2>1, LiveRuns
  <2>3. ReleasedInv'
    BY <2>1, ReleasedStays, NotReleased DEF Passed, DeviceInv
  <2> QED
    BY <2>2, <2>3 DEF DeviceInv
<1>31. ASSUME \E i \in AheadInputs : LandAhead(i)
      PROVE  DeviceInv'
  <2>0. PICK k \in AheadInputs : LandAhead(k)
    BY <1>31
  <2>1. /\ index \in Index /\ phase \in {"running", "computed"} /\ index' = index
        /\ phase' \in {"running", "computed", "stateout", "idle"}
        /\ UNCHANGED <<device, overrides, value, position>>
    BY <2>0 DEF LandAhead, ControlInv, TypeOK
  <2>2. Same({Inputs(ahead.for)[k].slot})
    BY <1>31, <2>1, <2>0, Frames
  <2>3. {Inputs(ahead.for)[k].slot} \subseteq Late(index) \cup Ahead(index)
    BY <1>31, <2>0, AheadRows DEF LandAhead, Ahead, SlotsOf
  <2>4. LiveInv'
    BY <2>1, <2>2, <2>3, LiveRuns
  <2>5. ReleasedInv'
    BY <2>1, ReleasedStays, NotReleased DEF Passed, DeviceInv
  <2> QED
    BY <2>4, <2>5 DEF DeviceInv
<1>32. ASSUME LandPageAhead  PROVE  DeviceInv'
  <2>1. /\ index \in Index /\ phase \in {"running", "computed"} /\ index' = index
        /\ phase' \in {"running", "computed", "stateout", "idle"}
        /\ UNCHANGED <<device, overrides, value, position>>
    BY <1>32 DEF LandPageAhead, ControlInv, TypeOK
  <2>2. Same(PageSlots(ahead.page))
    BY <1>32, <2>1, Frames
  <2>3. PageSlots(ahead.page) \subseteq Late(index) \cup Ahead(index)
    BY <1>32, AheadRows, Places DEF LandPageAhead, Ahead
  <2>4. LiveInv'
    BY <2>1, <2>2, <2>3, LiveRuns
  <2>5. ReleasedInv'
    BY <2>1, ReleasedStays, NotReleased DEF Passed, DeviceInv
  <2> QED
    BY <2>4, <2>5 DEF DeviceInv
<1>33. ASSUME Execute  PROVE  DeviceInv'
  <2>1. /\ index \in Index /\ phase \in {"running", "computed"} /\ index' = index
        /\ phase' \in {"running", "computed", "stateout", "idle"}
        /\ UNCHANGED <<device, overrides, value, position>>
    BY <1>33 DEF Execute, ControlInv, TypeOK
  <2>2. Same(Late(index))
    BY <1>33, <2>1, Frames
  <2>3. Late(index) \subseteq Late(index) \cup Ahead(index)
    OBVIOUS
  <2>4. LiveInv'
    BY <2>1, <2>2, <2>3, LiveRuns
  <2>5. ReleasedInv'
    BY <2>1, ReleasedStays, NotReleased DEF Passed, DeviceInv
  <2> QED
    BY <2>4, <2>5 DEF DeviceInv
<1>34. ASSUME ExecutionThrows  PROVE  DeviceInv'
  <2>1. /\ index \in Index /\ phase \in {"running", "computed"} /\ index' = index
        /\ phase' \in {"running", "computed", "stateout", "idle"}
        /\ UNCHANGED <<device, overrides, value, position>>
    BY <1>34 DEF ExecutionThrows, Throw, ControlInv, TypeOK
  <2>2. Same((Late(index) \cup SlotsOf(ahead.for, AheadInputs) \cup Unlike(sram, ahead.page)))
    BY <1>34, <2>1, Frames
  <2>3. (Late(index) \cup SlotsOf(ahead.for, AheadInputs) \cup Unlike(sram, ahead.page)) \subseteq Late(index) \cup Ahead(index)
    <3>1. SlotsOf(ahead.for, AheadInputs) \cup PageSlots(ahead.page) \subseteq Ahead(index)
      BY <2>1, AheadRows, Places DEF Ahead, SlotsOf
    <3> QED
      BY <3>1 DEF Unlike
  <2>4. LiveInv'
    BY <2>1, <2>2, <2>3, LiveRuns
  <2>5. ReleasedInv'
    BY <2>1, ReleasedStays, NotReleased DEF Passed, DeviceInv
  <2> QED
    BY <2>4, <2>5 DEF DeviceInv
<1>35. ASSUME Settle  PROVE  DeviceInv'
  <2>1. /\ index \in Index /\ phase \in {"running", "computed"} /\ index' = index
        /\ phase' \in {"running", "computed", "stateout", "idle"}
        /\ UNCHANGED <<device, overrides, value, position>>
    BY <1>35 DEF Settle, KeptForNext, Go, Throw, ControlInv, TypeOK
  <2>2. Same(Ahead(index))
    BY <1>35, <2>1, SettleFrames
  <2>3. Ahead(index) \subseteq Late(index) \cup Ahead(index)
    OBVIOUS
  <2>4. LiveInv'
    BY <2>1, <2>2, <2>3, LiveRuns
  <2>5. ReleasedInv'
    BY <2>1, ReleasedStays, NotReleased DEF Passed, DeviceInv
  <2> QED
    BY <2>4, <2>5 DEF DeviceInv
<1>36. ASSUME SettleThrows  PROVE  DeviceInv'
  <2>1. /\ index \in Index /\ phase \in {"running", "computed"} /\ index' = index
        /\ phase' \in {"running", "computed", "stateout", "idle"}
        /\ UNCHANGED <<device, overrides, value, position>>
    BY <1>36 DEF SettleThrows, KeptForNext, Go, Throw, ControlInv, TypeOK
  <2>2. Same(Ahead(index))
    BY <1>36, <2>1, SettleFrames
  <2>3. Ahead(index) \subseteq Late(index) \cup Ahead(index)
    OBVIOUS
  <2>4. LiveInv'
    BY <2>1, <2>2, <2>3, LiveRuns
  <2>5. ReleasedInv'
    BY <2>1, ReleasedStays, NotReleased DEF Passed, DeviceInv
  <2> QED
    BY <2>4, <2>5 DEF DeviceInv
<1>37. ASSUME PageOutStates  PROVE  DeviceInv'
  <2>1. /\ index \in Index /\ phase \in {"linking", "stateout"} /\ index' = index
        /\ phase' \in {"running", "idle", "outputs"} /\ (phase' = "outputs" => cursor' = 1)
        /\ UNCHANGED <<device, overrides, value, position>> /\ Same({})
    BY <1>37 DEF PageOutStates, Same, ControlInv, TypeOK
  <2>2. LiveInv'
    BY <2>1, LiveRuns
  <2>3. ReleasedInv'
    BY <2>1, ReleasedStays, NotReleased DEF Passed, DeviceInv
  <2> QED
    BY <2>2, <2>3 DEF DeviceInv
<1>38. ASSUME DeliverOutput  PROVE  DeviceInv'
  <2> DEFINE v == Outputs(index)[cursor].value
  <2>1. /\ index \in Index /\ phase = "outputs" /\ phase' = "outputs" /\ index' = index
        /\ cursor \in DOMAIN Outputs(index) /\ cursor' = cursor + 1
        /\ device' = IF Consumers(v) # {} THEN [device EXCEPT ![v] = Outputs(index)[cursor].slot] ELSE device
        /\ value' = [value EXCEPT ![v] = result[v]]
        /\ UNCHANGED <<sram, overrides, position>>
    BY <1>38 DEF DeliverOutput, ControlInv, TypeOK
  <2>2. v \in Values /\ cursor \in Nat /\ index \in Producers(v)
    BY <2>1, InvocationTypes, PastTheOutputs DEF Producers
  <2>3. result[v] # Missing /\ sram[Outputs(index)[cursor].slot] = result[v]
    <3>1. \E o \in DOMAIN Outputs(index) : o >= cursor /\ Outputs(index)[o].value = v
      BY <2>1, <2>2
    <3>2. result[v] # Missing
      BY <2>1, <2>2, <3>1 DEF ResultInv
    <3> QED
      BY <2>1, <3>2 DEF ResultInv, ResultsStay
  <2>4. Outputs(index)[cursor].slot \in OutputSlots(v)
    BY <2>1, <2>2 DEF OutputSlots
  <2>5. \A w \in Values : w # v => value'[w] = value[w] /\ device'[w] = device[w]
    BY <2>1 DEF ControlInv, TypeOK, GhostInv
  <2>6. value'[v] = result[v] /\ (Consumers(v) # {} => device'[v] = Outputs(index)[cursor].slot)
    BY <2>1, <2>2 DEF ControlInv, TypeOK, GhostInv
  <2>7. ASSUME NEW w \in Values, Live(w)'
        PROVE  device'[w] \in OutputSlots(w) /\ sram[device'[w]] = value'[w] /\ value'[w] # Missing
    <3>1. CASE w = v
      <4>1. Consumers(v) # {}
        BY <2>7, <3>1 DEF Live
      <4> QED
        BY <2>3, <2>4, <2>6, <3>1, <4>1
    <3>2. CASE w # v
      <4>1. PICK a \in Producers(w) :
                \/ a <= position
                \/ /\ a = position + 1
                   /\ \E k \in DOMAIN Outputs(a) : k < cursor + 1 /\ Outputs(a)[k].value = w
        BY <2>1, <2>7 DEF Live, Made
      <4>2. a \in Index /\ position + 1 = index
        BY <2>1 DEF Producers, ControlInv, PlaceInv
      <4>3. \A k \in DOMAIN Outputs(index) :
                k < cursor + 1 /\ Outputs(index)[k].value = w => k < cursor
        <5>1. \A k \in DOMAIN Outputs(index) : k \in Nat
          BY <2>1, PastTheOutputs
        <5>2. \A k \in DOMAIN Outputs(index) : Outputs(index)[k].value = w => k # cursor
          BY <3>2
        <5> QED
          BY <2>2, <5>1, <5>2
      <4>4. Made(w)
        BY <2>1, <4>1, <4>2, <4>3 DEF Made
      <4>5. Live(w)
        BY <2>1, <2>5, <2>7, <3>2, <4>4 DEF Live
      <4> QED
        BY <2>5, <3>2, <4>5 DEF DeviceInv, LiveInv
    <3> QED
      BY <3>1, <3>2
  <2>8. LiveInv'
    BY <2>1, <2>7 DEF LiveInv
  <2>9. ReleasedInv'
    <3>1. ASSUME NEW i \in Uploaded(index)  PROVE  Inputs(index)[i].value # v
      <4>1. index \in Consumers(Inputs(index)[i].value)
        BY <2>1 DEF Consumers, Uploaded
      <4>2. index \in Nat
        BY <2>1, Numbers
      <4> QED
        BY <2>1, <2>2, <4>1, <4>2, ProducersAssumption
    <3>2. \A i \in Uploaded(index) : device'[Inputs(index)[i].value] = device[Inputs(index)[i].value]
      BY <2>1, <2>5, <3>1, UploadedRows
    <3> HIDE DEF v
    <3> QED
      BY <2>1, <3>2 DEF DeviceInv, ReleasedInv, Passed
  <2> QED
    BY <2>8, <2>9 DEF DeviceInv
<1>39. ASSUME EgressThrows  PROVE  DeviceInv'
  <2>1. /\ phase' = "idle" /\ UNCHANGED <<device, overrides, value, position, sram>>
    BY <1>39 DEF EgressThrows, Throw
  <2>2. LiveInv'
    BY <2>1 DEF DeviceInv, LiveInv, Live, Made
  <2> QED
    BY <2>1, <2>2, NotReleased DEF DeviceInv
<1>40. ASSUME FinishInvocation  PROVE  DeviceInv'
  <2>1. /\ index \in Index /\ phase = "outputs" /\ phase' \in {"next", "idle"}
        /\ cursor \notin DOMAIN Outputs(index) /\ cursor \in Nat \ {0}
        /\ position' = index /\ position + 1 = index /\ position \in Nat
        /\ UNCHANGED <<device, overrides, value, sram>>
    BY <1>40, Numbers DEF FinishInvocation, ControlInv, TypeOK, PlaceInv
  <2>2. ASSUME NEW v \in Values, Live(v)'  PROVE  Live(v)
    <3>1. PICK a \in Producers(v), b \in Consumers(v) : a <= index /\ index < b
      BY <2>1, <2>2 DEF Live, Made
    <3>2. a \in Index /\ a \in Nat /\ b \in Nat
      BY Numbers DEF Producers, Consumers
    <3>3. CASE a = index
      <4>1. PICK k \in DOMAIN Outputs(index) : Outputs(index)[k].value = v
        BY <3>3 DEF Producers
      <4>2. k < cursor
        BY <2>1, PastTheOutputs
      <4>3. Made(v)
        BY <2>1, <3>1, <3>3, <4>1, <4>2 DEF Made
      <4> QED
        BY <2>1, <2>2, <3>1, <3>2, <4>3 DEF Live
    <3>4. CASE a # index
      <4>1. a <= position /\ position < b
        BY <2>1, <3>1, <3>2, <3>4
      <4> QED
        BY <2>1, <2>2, <4>1 DEF Live, Made
    <3> QED
      BY <3>3, <3>4
  <2>3. LiveInv'
    BY <2>1, <2>2 DEF DeviceInv, LiveInv
  <2> QED
    BY <2>1, <2>3, NotReleased DEF DeviceInv
<1>41. CASE UNCHANGED vars
  BY <1>41 DEF vars, DeviceInv, LiveInv, ReleasedInv, Live, Made, Passed
<1> HIDE DEF hostVars, deviceVars, pagerVars, transferVars, controlVars, ghostVars
<1> QED
  BY <1>1, <1>2, <1>3, <1>4, <1>5, <1>6, <1>7, <1>8, <1>9, <1>10, <1>11, <1>12, <1>13, <1>14, <1>15, <1>16, <1>17, <1>18, <1>19, <1>20, <1>21, <1>22, <1>23, <1>24, <1>25, <1>26, <1>27, <1>28, <1>29, <1>30, <1>31, <1>32, <1>33, <1>34, <1>35, <1>36, <1>37, <1>38, <1>39, <1>40, <1>41
     DEF Next, Calls, Staging, Execution, Egress


\* Bytes belong to names of the package.
LEMMA GhostStep ==
    ASSUME GhostInv, [Next]_vars
    PROVE  GhostInv'
<1> USE Numbers DEF hostVars, deviceVars, pagerVars, transferVars, controlVars, ghostVars
<1>1. ASSUME Load  PROVE  GhostInv'
  BY <1>1
      DEF Load, Call, Returned, DropPackage, GhostInv, Semantics!WithHostOps
<1>2. ASSUME LoadFails  PROVE  GhostInv'
  BY <1>2
      DEF LoadFails, Call, Returned, DropPackage, GhostInv, Semantics!WithHostOps
<1>3. ASSUME ResetStates  PROVE  GhostInv'
  BY <1>3
      DEF ResetStates, Call, Returned, GhostInv, Semantics!WithHostOps
<1>4. ASSUME Run  PROVE  GhostInv'
  BY <1>4
      DEF Run, Call, Usable, ForgetDevice, GhostInv, Semantics!WithHostOps
<1>5. ASSUME RunWithoutIds  PROVE  GhostInv'
  BY <1>5
      DEF RunWithoutIds, Call, Usable, ForgetDevice, GhostInv, Semantics!WithHostOps
<1>6. ASSUME \E v \in ExternalInputs : \E n \in Choices[v] : SetInput(v, n)
      PROVE  GhostInv'
  BY <1>6
      DEF SetInput, Call, Returned, GhostInv, Semantics!WithHostOps
<1>7. ASSUME \E s \in States : \E n \in Choices[s] : SetState(s, n)
      PROVE  GhostInv'
  BY <1>7
      DEF SetState, Call, Returned, GhostInv, Semantics!WithHostOps
<1>8. ASSUME \E j \in Index : RunInvocation(j)
      PROVE  GhostInv'
  BY <1>8
      DEF RunInvocation, Call, Usable, Enter, GhostInv, Semantics!WithHostOps
<1>9. ASSUME NextInvocation  PROVE  GhostInv'
  BY <1>9
      DEF NextInvocation, Enter, Index, GhostInv, Semantics!WithHostOps
<1>10. ASSUME FinishRun  PROVE  GhostInv'
  BY <1>10
      DEF FinishRun, GhostInv, Semantics!WithHostOps
<1>11. ASSUME KeepWeightPage  PROVE  GhostInv'
  BY <1>11
      DEF KeepWeightPage, PageIsHere, Go, GhostInv, Semantics!WithHostOps
<1>12. ASSUME StartWeightPage  PROVE  GhostInv'
  BY <1>12
      DEF StartWeightPage, PageIsHere, Go, GhostInv, Semantics!WithHostOps
<1>13. ASSUME AwaitWeightPage  PROVE  GhostInv'
  BY <1>13
      DEF AwaitWeightPage, PageIsHere, Go, GhostInv, Semantics!WithHostOps
<1>14. ASSUME RefuseWeightPage  PROVE  GhostInv'
  BY <1>14
      DEF RefuseWeightPage, Throw, GhostInv, Semantics!WithHostOps
<1>15. ASSUME WeightPageArrives  PROVE  GhostInv'
  BY <1>15
      DEF WeightPageArrives, Go, GhostInv, Semantics!WithHostOps
<1>16. ASSUME WeightPageTimesOut  PROVE  GhostInv'
  BY <1>16
      DEF WeightPageTimesOut, Throw, GhostInv, Semantics!WithHostOps
<1>17. ASSUME PageInStates  PROVE  GhostInv'
  BY <1>17
      DEF PageInStates, Upload, Go, GhostInv, Semantics!WithHostOps
<1>18. ASSUME NoStates  PROVE  GhostInv'
  BY <1>18
      DEF NoStates, Go, GhostInv, Semantics!WithHostOps
<1>19. ASSUME StatesThrow  PROVE  GhostInv'
  BY <1>19
      DEF StatesThrow, UploadThrows, Throw, GhostInv, Semantics!WithHostOps
<1>20. ASSUME SkipInput  PROVE  GhostInv'
  BY <1>20
      DEF SkipInput, AtInput, NextInput, Go, GhostInv, Semantics!WithHostOps
<1>21. ASSUME TakePrefetched  PROVE  GhostInv'
  BY <1>21
      DEF TakePrefetched, AtInput, NextInput, Go, Input, Prefetched, GhostInv, Semantics!WithHostOps
<1>22. ASSUME UploadInput  PROVE  GhostInv'
  BY <1>22
      DEF UploadInput, AtInput, NextInput, Go, Upload, GhostInv, Semantics!WithHostOps
<1>23. ASSUME UploadInputThrows  PROVE  GhostInv'
  BY <1>23
      DEF UploadInputThrows, AtInput, UploadThrows, Throw, GhostInv, Semantics!WithHostOps
<1>24. ASSUME TakeFromDevice  PROVE  GhostInv'
  BY <1>24
      DEF TakeFromDevice, AtInput, NextInput, Go, Input, GhostInv, Semantics!WithHostOps
<1>25. ASSUME RefuseInput  PROVE  GhostInv'
  BY <1>25
      DEF RefuseInput, AtInput, Throw, GhostInv, Semantics!WithHostOps
<1>26. ASSUME PreparePages  PROVE  GhostInv'
  BY <1>26
      DEF PreparePages, InputsReady, ForgetPrefetched, Go, NoneKept, NoLookahead, GhostInv, Semantics!WithHostOps
<1>27. ASSUME PreparePagesThrows  PROVE  GhostInv'
  BY <1>27
      DEF PreparePagesThrows, InputsReady, ForgetPrefetched, Throw, NoneKept, NoLookahead, GhostInv, Semantics!WithHostOps
<1>28. ASSUME LookAhead  PROVE  GhostInv'
  BY <1>28
      DEF LookAhead, Go, CanLookAhead, GhostInv, Semantics!WithHostOps
<1>29. ASSUME StayHere  PROVE  GhostInv'
  BY <1>29
      DEF StayHere, Go, NoLookahead, GhostInv, Semantics!WithHostOps
<1>30. ASSUME LinkThrows  PROVE  GhostInv'
  BY <1>30
      DEF LinkThrows, Throw, CanLookAhead, NoLookahead, GhostInv, Semantics!WithHostOps
<1>31. ASSUME \E i \in AheadInputs : LandAhead(i)
      PROVE  GhostInv'
  BY <1>31
      DEF LandAhead, GhostInv, Semantics!WithHostOps
<1>32. ASSUME LandPageAhead  PROVE  GhostInv'
  BY <1>32
      DEF LandPageAhead, GhostInv, Semantics!WithHostOps
<1>33. ASSUME Execute  PROVE  GhostInv'
  BY <1>33
      DEF Execute, GhostInv, Semantics!WithHostOps
<1>34. ASSUME ExecutionThrows  PROVE  GhostInv'
  BY <1>34
      DEF ExecutionThrows, Throw, GhostInv, Semantics!WithHostOps
<1>35. ASSUME Settle  PROVE  GhostInv'
  BY <1>35
      DEF Settle, Go, GhostInv, Semantics!WithHostOps
<1>36. ASSUME SettleThrows  PROVE  GhostInv'
  BY <1>36
      DEF SettleThrows, Throw, GhostInv, Semantics!WithHostOps
<1>37. ASSUME PageOutStates  PROVE  GhostInv'
  BY <1>37
      DEF PageOutStates, GhostInv, Semantics!WithHostOps
<1>38. ASSUME DeliverOutput  PROVE  GhostInv'
  BY <1>38
      DEF DeliverOutput, GhostInv, Semantics!WithHostOps
<1>39. ASSUME EgressThrows  PROVE  GhostInv'
  BY <1>39
      DEF EgressThrows, Throw, GhostInv, Semantics!WithHostOps
<1>40. ASSUME FinishInvocation  PROVE  GhostInv'
  BY <1>40
      DEF FinishInvocation, GhostInv, Semantics!WithHostOps
<1>41. CASE UNCHANGED vars
  BY <1>41 DEF vars, GhostInv, Semantics!WithHostOps
<1> HIDE DEF hostVars, deviceVars, pagerVars, transferVars, controlVars, ghostVars
<1> QED
  BY <1>1, <1>2, <1>3, <1>4, <1>5, <1>6, <1>7, <1>8, <1>9, <1>10, <1>11, <1>12, <1>13, <1>14, <1>15, <1>16, <1>17, <1>18, <1>19, <1>20, <1>21, <1>22, <1>23, <1>24, <1>25, <1>26, <1>27, <1>28, <1>29, <1>30, <1>31, <1>32, <1>33, <1>34, <1>35, <1>36, <1>37, <1>38, <1>39, <1>40, <1>41
     DEF Next, Calls, Staging, Execution, Egress


\* What is left of the prefetched inputs is as it was.
LEMMA PrefetchedStays ==
    ASSUME ControlInv, PrefetchedInv, NEW rows, Same(rows), prefetchedFor' = prefetchedFor,
           \A v \in Values : prefetched'[v] # NoSlot =>
               /\ prefetched'[v] = prefetched[v] /\ values'[v] = values[v]
               /\ Awaited(v) => prefetched[v] \notin rows
               /\ phase' \in {"stateout", "outputs", "next"} =>
                     prefetchedFor = index' + 1 \/ index' = 0
               /\ phase = "next" /\ index = 0 => phase' = "next" /\ index' = 0
    PROVE  PrefetchedInv'
<1>1. ASSUME NEW v \in Values, Awaited(v)', ~(phase' = "next" /\ index' = 0)
      PROVE  sram'[prefetched'[v]] = values'[v] /\ values'[v] # Missing
  <2>1. prefetched'[v] # NoSlot /\ prefetched'[v] = prefetched[v] /\ values'[v] = values[v]
    BY <1>1 DEF Awaited
  <2>2. Awaited(v)
    BY <1>1, <2>1 DEF Awaited
  <2>3. sram[prefetched[v]] = values[v] /\ values[v] # Missing
    BY <1>1, <2>1, <2>2 DEF PrefetchedInv
  <2>4. prefetched[v] \in Slots \ rows
    BY <2>1, <2>2 DEF ControlInv, TypeOK
  <2> QED
    BY <2>1, <2>3, <2>4 DEF Same
<1>2. \A v \in Values : prefetched'[v] # NoSlot => Producers(v) = {}
  BY DEF PrefetchedInv
<1> QED
  BY <1>1, <1>2 DEF PrefetchedInv, Producers

\* Nothing is prefetched any more.
LEMMA NothingPrefetched ==
    ASSUME \A v \in Values : prefetched'[v] = NoSlot
    PROVE  PrefetchedInv'
BY DEF PrefetchedInv, Awaited

\* An awaited input is in rows that only its own transfer writes.
LEMMA AwaitedApart ==
    ASSUME ControlInv, PrefetchInv, PrefetchedInv, index \in Index,
           phase \in {"page", "arriving", "states", "inputs"}, NEW v \in Values, Awaited(v)
    PROVE  /\ prefetched[v] \notin PageSlots(PageOf(index)) \cup StatePlaces(index)
           /\ \A i \in DOMAIN Inputs(index) :
                 Inputs(index)[i].slot = prefetched[v] =>
                     Inputs(index)[i].value = v /\ prefetched[v] # NoSlot
<1>1. prefetchedFor = index /\ prefetched[v] # NoSlot /\ Producers(v) = {}
  BY DEF Awaited, PrefetchInv, PrefetchedInv
<1>2. PICK i \in DOMAIN Inputs(index) :
          /\ Inputs(index)[i].value = v /\ Inputs(index)[i].slot = prefetched[v]
          /\ Inputs(index)[i].kind # "prefetch"
  BY <1>1 DEF Awaited
<1>3. Transfer(index, i) = "HostUpload"
  BY <1>1, <1>2, UniqueNames DEF Transfer
<1>4. prefetched[v] \notin PageSlots(PageOf(index))
  BY <1>2, <1>3, InputsAndPage
<1>5. prefetched[v] \notin StatePlaces(index)
  BY <1>2, InputsOffStates
<1>6. \A k \in DOMAIN Inputs(index) : Inputs(index)[k].slot = prefetched[v] => k = i
  BY <1>2, OneInputRow
<1> QED
  BY <1>1, <1>2, <1>4, <1>5, <1>6

\* What came for the next invocation is what the host has.
LEMMA KeptIsThere ==
    ASSUME ControlInv, PrefetchInv, StagedInv, index \in Index, phase = "computed", KeptForNext,
           Same(Ahead(index)), index' = index, values' = values, phase' \in {"stateout", "idle"}
    PROVE  PrefetchedInv'
<1> DEFINE At(v) == \E i \in Kept(index) : Inputs(index)[i].value = v
           Of(v) == CHOOSE i \in Kept(index) : Inputs(index)[i].value = v
<1>1. prefetched' = [v \in Values |-> IF At(v) THEN Inputs(index)[Of(v)].slot ELSE prefetched[v]]
  BY DEF KeptForNext, Kept
<1>2. \A v \in Values : prefetched[v] = NoSlot
  BY DEF PrefetchInv
<1>3. ASSUME NEW v \in Values, prefetched'[v] # NoSlot
      PROVE  /\ Producers(v) = {} /\ prefetchedFor' = index + 1
             /\ sram'[prefetched'[v]] = values[v] /\ values[v] # Missing
  <2>1. At(v)
    BY <1>1, <1>2, <1>3
  <2>2. PICK k \in Kept(index) : Inputs(index)[k].value = v /\ k = Of(v)
    BY <2>1
  <2>3. prefetched'[v] = Inputs(index)[k].slot
    BY <1>1, <2>1, <2>2
  <2>4. Producers(v) = {}
    BY <2>2, PackedBytesStay
  <2>5. prefetchedFor' = index + 1
    BY <2>2 DEF KeptForNext, Kept
  <2>6. sram[Inputs(index)[k].slot] = values[v] /\ values[v] # Missing
    BY <2>2 DEF StagedInv
  <2>7. Inputs(index)[k].slot \in Slots \ Ahead(index)
    BY <2>2, WaitingApart, InvocationTypes DEF Disjoint, SlotsOf, Kept
  <2> QED
    BY <2>3, <2>4, <2>5, <2>6, <2>7 DEF Same
<1> HIDE DEF At, Of
<1> QED
  BY <1>3 DEF PrefetchedInv, Awaited, Producers

\* An input that came ahead is what its consumer will read.
LEMMA PrefetchedStep ==
    ASSUME ControlInv, SramInv, PrefetchInv, PrefetchedInv, StagedInv, GhostInv, [Next]_vars
    PROVE  PrefetchedInv'
<1> USE Numbers DEF hostVars, deviceVars, pagerVars, transferVars, controlVars, ghostVars
<1>1. ASSUME Load  PROVE  PrefetchedInv'
  <2>1. \A v \in Values : prefetched'[v] = NoSlot
    BY <1>1 DEF Load, Call, Returned, DropPackage, NoneKept
  <2> QED
    BY <2>1, NothingPrefetched
<1>2. ASSUME LoadFails  PROVE  PrefetchedInv'
  <2>1. \A v \in Values : prefetched'[v] = NoSlot
    BY <1>2 DEF LoadFails, Call, Returned, DropPackage, NoneKept
  <2> QED
    BY <2>1, NothingPrefetched
<1>3. ASSUME ResetStates  PROVE  PrefetchedInv'
  <2>1. /\ UNCHANGED <<prefetched, prefetchedFor, values>> /\ Same({})
        /\ phase \notin {"next"} /\ phase' \notin {"stateout", "outputs", "next"}
    BY <1>3 DEF ResetStates, Call, Returned, Same
  <2> QED
    BY <2>1, PrefetchedStays
<1>4. ASSUME Run  PROVE  PrefetchedInv'
  <2>1. phase' = "next" /\ index' = 0 /\ UNCHANGED <<prefetched, prefetchedFor>>
    BY <1>4 DEF Run, ForgetDevice
  <2> QED
    BY <2>1 DEF PrefetchedInv, Producers
<1>5. ASSUME RunWithoutIds  PROVE  PrefetchedInv'
  <2>1. /\ UNCHANGED <<prefetched, prefetchedFor, values>> /\ Same({})
        /\ phase \notin {"next"} /\ phase' \notin {"stateout", "outputs", "next"}
    BY <1>5 DEF RunWithoutIds, Call, Usable, ForgetDevice, Same
  <2> QED
    BY <2>1, PrefetchedStays
<1>6. ASSUME \E v \in ExternalInputs : \E n \in Choices[v] : SetInput(v, n)
      PROVE  PrefetchedInv'
  <2>1. PICK w \in ExternalInputs : \E n \in Choices[w] : SetInput(w, n)
    BY <1>6
  <2>2. PICK n \in Choices[w] : SetInput(w, n)
    BY <2>1
  <2>3. /\ prefetchedFor' = prefetchedFor /\ Same({}) /\ phase = "idle" /\ phase' = "idle"
        /\ prefetched' = [prefetched EXCEPT ![w] = NoSlot]
        /\ values' = [values EXCEPT ![w] = HostData(w, n)] /\ w \in Values
    BY <2>2, NamesAssumption DEF SetInput, Call, Returned, Same
  <2>4. \A v \in Values : prefetched'[v] # NoSlot => prefetched'[v] = prefetched[v] /\ values'[v] = values[v]
    BY <2>3 DEF ControlInv, TypeOK, GhostInv
  <2> QED
    BY <2>3, <2>4, PrefetchedStays
<1>7. ASSUME \E s \in States : \E n \in Choices[s] : SetState(s, n)
      PROVE  PrefetchedInv'
  <2>1. /\ UNCHANGED <<prefetched, prefetchedFor, values>> /\ Same({})
        /\ phase \notin {"next"} /\ phase' \notin {"stateout", "outputs", "next"}
    BY <1>7 DEF SetState, Call, Returned, Same
  <2> QED
    BY <2>1, PrefetchedStays
<1>8. ASSUME \E j \in Index : RunInvocation(j)
      PROVE  PrefetchedInv'
  <2>0. PICK j \in Index : RunInvocation(j)
    BY <1>8
  <2>1. Enter(j) /\ phase' = "page"
    BY <2>0 DEF RunInvocation, Enter
  <2>2. /\ \A v \in Values : prefetched'[v] \in {prefetched[v], NoSlot}
        /\ \A v \in Values : prefetched'[v] # NoSlot => prefetchedFor = j
        /\ UNCHANGED <<prefetchedFor, values>> /\ Same({})
    BY <2>1 DEF Enter, NoneKept, Same
  <2>3. ASSUME NEW v \in Values, prefetched'[v] # NoSlot, index = 0, phase = "next"
        PROVE  FALSE
    <3>1. PICK a \in Index : prefetchedFor = a + 1
      BY <2>2, <2>3 DEF PrefetchInv
    <3>2. a \in Nat \ {0} /\ a + 1 = j
      BY <2>2, <2>3, <3>1, Numbers
    <3> QED
      BY <2>0, <2>3, <3>2 DEF RunInvocation, Call
  <2> QED
    BY <2>1, <2>2, <2>3, PrefetchedStays
<1>9. ASSUME NextInvocation  PROVE  PrefetchedInv'
  <2>1. Enter(index + 1) /\ phase' = "page"
    BY <1>9 DEF NextInvocation, Enter
  <2>2. /\ \A v \in Values : prefetched'[v] \in {prefetched[v], NoSlot}
        /\ \A v \in Values : prefetched'[v] # NoSlot => prefetchedFor = index + 1
        /\ UNCHANGED <<prefetchedFor, values>> /\ Same({})
    BY <2>1 DEF Enter, NoneKept, Same
  <2>3. ASSUME NEW v \in Values, prefetched'[v] # NoSlot, index = 0, phase = "next"
        PROVE  FALSE
    <3>1. PICK a \in Index : prefetchedFor = a + 1
      BY <2>2, <2>3 DEF PrefetchInv
    <3>2. a \in Nat \ {0} /\ a + 1 = index + 1
      BY <2>2, <2>3, <3>1, Numbers
    <3> QED
      BY <1>9, <2>3, <3>2
  <2> QED
    BY <2>1, <2>2, <2>3, PrefetchedStays
<1>10. ASSUME FinishRun  PROVE  PrefetchedInv'
  <2>1. /\ UNCHANGED <<prefetched, prefetchedFor>> /\ phase = "next" /\ index = Count /\ phase' = "idle"
    BY <1>10 DEF FinishRun
  <2>2. \A v \in Values : prefetched[v] # NoSlot => prefetchedFor = index + 1
    BY <2>1 DEF PrefetchInv, PrefetchedInv, Index
  <2>3. \A v \in Values : ~Awaited(v)'
    BY <2>1, <2>2 DEF Awaited, Index
  <2> QED
    BY <2>1, <2>3 DEF PrefetchedInv, Producers
<1>11. ASSUME KeepWeightPage  PROVE  PrefetchedInv'
  <2>1. /\ UNCHANGED <<prefetched, prefetchedFor, values>> /\ Same({})
        /\ phase \notin {"next"} /\ phase' \notin {"stateout", "outputs", "next"}
    BY <1>11 DEF KeepWeightPage, PageIsHere, Go, Same
  <2> QED
    BY <2>1, PrefetchedStays
<1>12. ASSUME StartWeightPage  PROVE  PrefetchedInv'
  <2>1. /\ UNCHANGED <<prefetched, prefetchedFor, values>> /\ Same({})
        /\ phase \notin {"next"} /\ phase' \notin {"stateout", "outputs", "next"}
    BY <1>12 DEF StartWeightPage, PageIsHere, Go, Same
  <2> QED
    BY <2>1, PrefetchedStays
<1>13. ASSUME AwaitWeightPage  PROVE  PrefetchedInv'
  <2>1. /\ UNCHANGED <<prefetched, prefetchedFor, values>> /\ Same({})
        /\ phase \notin {"next"} /\ phase' \notin {"stateout", "outputs", "next"}
    BY <1>13 DEF AwaitWeightPage, PageIsHere, Go, Same
  <2> QED
    BY <2>1, PrefetchedStays
<1>14. ASSUME RefuseWeightPage  PROVE  PrefetchedInv'
  <2>1. /\ UNCHANGED <<prefetched, prefetchedFor, values>> /\ Same({})
        /\ phase \notin {"next"} /\ phase' \notin {"stateout", "outputs", "next"}
    BY <1>14 DEF RefuseWeightPage, Throw, Same
  <2> QED
    BY <2>1, PrefetchedStays
<1>15. ASSUME WeightPageArrives  PROVE  PrefetchedInv'
  <2>1. /\ index \in Index /\ phase \in {"arriving", "states", "inputs"}
        /\ UNCHANGED <<prefetched, prefetchedFor, values>>
        /\ phase' \in {"states", "inputs", "idle"}
    BY <1>15 DEF WeightPageArrives, Go, ControlInv, TypeOK
  <2>2. Same(PageSlots(PageOf(index)))
    BY <1>15, Frames, SpoiledSame DEF WeightPageArrives, Unlike, Same
  <2>3. \A v \in Values : Awaited(v) => prefetched[v] \notin PageSlots(PageOf(index))
    BY <2>1, AwaitedApart
  <2> QED
    BY <2>1, <2>2, <2>3, PrefetchedStays
<1>16. ASSUME WeightPageTimesOut  PROVE  PrefetchedInv'
  <2>1. /\ index \in Index /\ phase \in {"arriving", "states", "inputs"}
        /\ UNCHANGED <<prefetched, prefetchedFor, values>>
        /\ phase' \in {"states", "inputs", "idle"}
    BY <1>16 DEF WeightPageTimesOut, Throw, ControlInv, TypeOK
  <2>2. Same(PageSlots(PageOf(index)))
    BY <1>16, Frames, SpoiledSame DEF WeightPageTimesOut, Unlike, Same
  <2>3. \A v \in Values : Awaited(v) => prefetched[v] \notin PageSlots(PageOf(index))
    BY <2>1, AwaitedApart
  <2> QED
    BY <2>1, <2>2, <2>3, PrefetchedStays
<1>17. ASSUME PageInStates  PROVE  PrefetchedInv'
  <2>1. /\ index \in Index /\ phase \in {"arriving", "states", "inputs"}
        /\ UNCHANGED <<prefetched, prefetchedFor, values>>
        /\ phase' \in {"states", "inputs", "idle"}
    BY <1>17 DEF PageInStates, Upload, Go, ControlInv, TypeOK
  <2>2. Same(StatePlaces(index))
    BY <1>17, Frames, SpoiledSame DEF PageInStates, Unlike, Same
  <2>3. \A v \in Values : Awaited(v) => prefetched[v] \notin StatePlaces(index)
    BY <2>1, AwaitedApart
  <2> QED
    BY <2>1, <2>2, <2>3, PrefetchedStays
<1>18. ASSUME NoStates  PROVE  PrefetchedInv'
  <2>1. /\ UNCHANGED <<prefetched, prefetchedFor, values>> /\ Same({})
        /\ phase \notin {"next"} /\ phase' \notin {"stateout", "outputs", "next"}
    BY <1>18 DEF NoStates, Go, Same
  <2> QED
    BY <2>1, PrefetchedStays
<1>19. ASSUME StatesThrow  PROVE  PrefetchedInv'
  <2>1. /\ index \in Index /\ phase \in {"arriving", "states", "inputs"}
        /\ UNCHANGED <<prefetched, prefetchedFor, values>>
        /\ phase' \in {"states", "inputs", "idle"}
    BY <1>19 DEF StatesThrow, UploadThrows, Throw, ControlInv, TypeOK
  <2>2. Same(StatePlaces(index))
    BY <1>19, Frames, SpoiledSame DEF StatesThrow, Unlike, Same
  <2>3. \A v \in Values : Awaited(v) => prefetched[v] \notin StatePlaces(index)
    BY <2>1, AwaitedApart
  <2> QED
    BY <2>1, <2>2, <2>3, PrefetchedStays
<1>20. ASSUME SkipInput  PROVE  PrefetchedInv'
  <2>1. /\ UNCHANGED <<prefetched, prefetchedFor, values>> /\ Same({})
        /\ phase \notin {"next"} /\ phase' \notin {"stateout", "outputs", "next"}
    BY <1>20 DEF SkipInput, AtInput, NextInput, Go, Same
  <2> QED
    BY <2>1, PrefetchedStays
<1>21. ASSUME TakePrefetched  PROVE  PrefetchedInv'
  <2>1. /\ UNCHANGED <<prefetchedFor, values>> /\ Same({})
        /\ phase = "inputs" /\ phase' = "inputs"
        /\ \A v \in Values : prefetched'[v] \in {prefetched[v], NoSlot}
    BY <1>21 DEF TakePrefetched, AtInput, NextInput, Go, Same, ControlInv, TypeOK
  <2> QED
    BY <2>1, PrefetchedStays
<1>22. ASSUME UploadInput  PROVE  PrefetchedInv'
  <2>1. /\ index \in Index /\ phase = "inputs" /\ cursor \in DOMAIN Inputs(index)
        /\ UNCHANGED <<prefetched, prefetchedFor, values>> /\ Same({Input.slot})
        /\ phase' \in {"inputs", "idle"} /\ ~Prefetched
    BY <1>22, Frames DEF UploadInput, AtInput, NextInput, Go, Upload, Same, ControlInv, TypeOK
  <2>2. \A v \in Values : Awaited(v) => prefetched[v] \notin {Input.slot}
    <3>1. ASSUME NEW v \in Values, Awaited(v), Input.slot = prefetched[v]
          PROVE  FALSE
      <4>1. Input.value = v /\ prefetched[v] # NoSlot
        BY <2>1, <3>1, AwaitedApart DEF Input
      <4> QED
        BY <2>1, <4>1 DEF Prefetched
    <3> QED
      BY <3>1
  <2> QED
    BY <2>1, <2>2, PrefetchedStays
<1>23. ASSUME UploadInputThrows  PROVE  PrefetchedInv'
  <2>1. /\ index \in Index /\ phase = "inputs" /\ cursor \in DOMAIN Inputs(index)
        /\ UNCHANGED <<prefetched, prefetchedFor, values>> /\ Same({Input.slot})
        /\ phase' \in {"inputs", "idle"} /\ ~Prefetched
    BY <1>23, Frames DEF UploadInputThrows, AtInput, UploadThrows, Throw, Same, ControlInv, TypeOK
  <2>2. \A v \in Values : Awaited(v) => prefetched[v] \notin {Input.slot}
    <3>1. ASSUME NEW v \in Values, Awaited(v), Input.slot = prefetched[v]
          PROVE  FALSE
      <4>1. Input.value = v /\ prefetched[v] # NoSlot
        BY <2>1, <3>1, AwaitedApart DEF Input
      <4> QED
        BY <2>1, <4>1 DEF Prefetched
    <3> QED
      BY <3>1
  <2> QED
    BY <2>1, <2>2, PrefetchedStays
<1>24. ASSUME TakeFromDevice  PROVE  PrefetchedInv'
  <2>1. /\ index \in Index /\ phase = "inputs" /\ cursor \in DOMAIN Inputs(index)
        /\ UNCHANGED <<prefetched, prefetchedFor, values>> /\ Same({Input.slot})
        /\ phase' \in {"inputs", "idle"} /\ ~Prefetched
    BY <1>24, Frames DEF TakeFromDevice, AtInput, NextInput, Go, Input, Same, ControlInv, TypeOK
  <2>2. \A v \in Values : Awaited(v) => prefetched[v] \notin {Input.slot}
    <3>1. ASSUME NEW v \in Values, Awaited(v), Input.slot = prefetched[v]
          PROVE  FALSE
      <4>1. Input.value = v /\ prefetched[v] # NoSlot
        BY <2>1, <3>1, AwaitedApart DEF Input
      <4> QED
        BY <2>1, <4>1 DEF Prefetched
    <3> QED
      BY <3>1
  <2> QED
    BY <2>1, <2>2, PrefetchedStays
<1>25. ASSUME RefuseInput  PROVE  PrefetchedInv'
  <2>1. /\ UNCHANGED <<prefetched, prefetchedFor, values>> /\ Same({})
        /\ phase \notin {"next"} /\ phase' \notin {"stateout", "outputs", "next"}
    BY <1>25 DEF RefuseInput, AtInput, Throw, Same
  <2> QED
    BY <2>1, PrefetchedStays
<1>26. ASSUME PreparePages  PROVE  PrefetchedInv'
  <2>1. \A v \in Values : prefetched'[v] = NoSlot
    BY <1>26 DEF PreparePages, InputsReady, ForgetPrefetched, Go, NoneKept, NoLookahead, NoneKept
  <2> QED
    BY <2>1, NothingPrefetched
<1>27. ASSUME PreparePagesThrows  PROVE  PrefetchedInv'
  <2>1. \A v \in Values : prefetched'[v] = NoSlot
    BY <1>27 DEF PreparePagesThrows, InputsReady, ForgetPrefetched, Throw, NoneKept, NoLookahead, NoneKept
  <2> QED
    BY <2>1, NothingPrefetched
<1>28. ASSUME LookAhead  PROVE  PrefetchedInv'
  <2>1. phase \in {"linking", "running", "computed"} /\ prefetched' = prefetched
    BY <1>28 DEF LookAhead, Go, CanLookAhead
  <2>2. \A v \in Values : prefetched'[v] = NoSlot
    BY <2>1 DEF PrefetchInv
  <2> QED
    BY <2>2, NothingPrefetched
<1>29. ASSUME StayHere  PROVE  PrefetchedInv'
  <2>1. phase \in {"linking", "running", "computed"} /\ prefetched' = prefetched
    BY <1>29 DEF StayHere, Go, NoLookahead
  <2>2. \A v \in Values : prefetched'[v] = NoSlot
    BY <2>1 DEF PrefetchInv
  <2> QED
    BY <2>2, NothingPrefetched
<1>30. ASSUME LinkThrows  PROVE  PrefetchedInv'
  <2>1. phase \in {"linking", "running", "computed"} /\ prefetched' = prefetched
    BY <1>30 DEF LinkThrows, Throw, CanLookAhead, NoLookahead
  <2>2. \A v \in Values : prefetched'[v] = NoSlot
    BY <2>1 DEF PrefetchInv
  <2> QED
    BY <2>2, NothingPrefetched
<1>31. ASSUME \E i \in AheadInputs : LandAhead(i)
      PROVE  PrefetchedInv'
  <2>1. phase \in {"linking", "running", "computed"} /\ prefetched' = prefetched
    BY <1>31 DEF LandAhead
  <2>2. \A v \in Values : prefetched'[v] = NoSlot
    BY <2>1 DEF PrefetchInv
  <2> QED
    BY <2>2, NothingPrefetched
<1>32. ASSUME LandPageAhead  PROVE  PrefetchedInv'
  <2>1. phase \in {"linking", "running", "computed"} /\ prefetched' = prefetched
    BY <1>32 DEF LandPageAhead
  <2>2. \A v \in Values : prefetched'[v] = NoSlot
    BY <2>1 DEF PrefetchInv
  <2> QED
    BY <2>2, NothingPrefetched
<1>33. ASSUME Execute  PROVE  PrefetchedInv'
  <2>1. phase \in {"linking", "running", "computed"} /\ prefetched' = prefetched
    BY <1>33 DEF Execute
  <2>2. \A v \in Values : prefetched'[v] = NoSlot
    BY <2>1 DEF PrefetchInv
  <2> QED
    BY <2>2, NothingPrefetched
<1>34. ASSUME ExecutionThrows  PROVE  PrefetchedInv'
  <2>1. phase \in {"linking", "running", "computed"} /\ prefetched' = prefetched
    BY <1>34 DEF ExecutionThrows, Throw
  <2>2. \A v \in Values : prefetched'[v] = NoSlot
    BY <2>1 DEF PrefetchInv
  <2> QED
    BY <2>2, NothingPrefetched
<1>35. ASSUME Settle  PROVE  PrefetchedInv'
  <2>1. /\ index \in Index /\ phase = "computed" /\ KeptForNext /\ index' = index
        /\ values' = values /\ phase' \in {"stateout", "idle"}
    BY <1>35 DEF Settle, Go, ControlInv, TypeOK
  <2>2. Same(Ahead(index))
    BY <1>35, SettleFrames
  <2> QED
    BY <2>1, <2>2, KeptIsThere
<1>36. ASSUME SettleThrows  PROVE  PrefetchedInv'
  <2>1. /\ index \in Index /\ phase = "computed" /\ KeptForNext /\ index' = index
        /\ values' = values /\ phase' \in {"stateout", "idle"}
    BY <1>36 DEF SettleThrows, Throw, ControlInv, TypeOK
  <2>2. Same(Ahead(index))
    BY <1>36, SettleFrames
  <2> QED
    BY <2>1, <2>2, KeptIsThere
<1>37. ASSUME PageOutStates  PROVE  PrefetchedInv'
  <2>1. /\ UNCHANGED <<prefetched, prefetchedFor, values, index>> /\ Same({})
        /\ phase = "stateout" /\ phase' = "outputs"
    BY <1>37 DEF PageOutStates, Same
  <2>2. \A v \in Values : prefetched[v] # NoSlot => prefetchedFor = index + 1 \/ index = 0
    BY <2>1 DEF PrefetchedInv
  <2> QED
    BY <2>1, <2>2, PrefetchedStays
<1>38. ASSUME DeliverOutput  PROVE  PrefetchedInv'
  <2> DEFINE w == Outputs(index)[cursor].value
  <2>1. /\ UNCHANGED <<prefetched, prefetchedFor, index>> /\ Same({})
        /\ phase = "outputs" /\ phase' = "outputs" /\ index \in Index
        /\ cursor \in DOMAIN Outputs(index)
        /\ values' = values \/ values' = [values EXCEPT ![w] = sram[Outputs(index)[cursor].slot]]
    BY <1>38 DEF DeliverOutput, Same, ControlInv, TypeOK
  <2>2. Producers(w) # {}
    BY <2>1 DEF Producers
  <2>3. \A v \in Values : prefetched[v] # NoSlot =>
            v # w /\ (prefetchedFor = index + 1 \/ index = 0)
    BY <2>1, <2>2 DEF PrefetchedInv
  <2>4. \A v \in Values : v # w => values'[v] = values[v]
    BY <2>1 DEF GhostInv
  <2> QED
    BY <2>1, <2>3, <2>4, PrefetchedStays
<1>39. ASSUME EgressThrows  PROVE  PrefetchedInv'
  <2>1. /\ UNCHANGED <<prefetched, prefetchedFor, values>> /\ Same({})
        /\ phase \notin {"next"} /\ phase' \notin {"stateout", "outputs", "next"}
    BY <1>39 DEF EgressThrows, Throw, Same
  <2> QED
    BY <2>1, PrefetchedStays
<1>40. ASSUME FinishInvocation  PROVE  PrefetchedInv'
  <2>1. /\ UNCHANGED <<prefetched, prefetchedFor, values, index>> /\ Same({})
        /\ phase = "outputs" /\ phase' \in {"next", "idle"}
    BY <1>40 DEF FinishInvocation, Same
  <2>2. \A v \in Values : prefetched[v] # NoSlot => prefetchedFor = index + 1 \/ index = 0
    BY <2>1 DEF PrefetchedInv
  <2> QED
    BY <2>1, <2>2, PrefetchedStays
<1>41. CASE UNCHANGED vars
  BY <1>41 DEF vars, PrefetchedInv, Awaited, Producers
<1> HIDE DEF hostVars, deviceVars, pagerVars, transferVars, controlVars, ghostVars
<1> QED
  BY <1>1, <1>2, <1>3, <1>4, <1>5, <1>6, <1>7, <1>8, <1>9, <1>10, <1>11, <1>12, <1>13, <1>14, <1>15, <1>16, <1>17, <1>18, <1>19, <1>20, <1>21, <1>22, <1>23, <1>24, <1>25, <1>26, <1>27, <1>28, <1>29, <1>30, <1>31, <1>32, <1>33, <1>34, <1>35, <1>36, <1>37, <1>38, <1>39, <1>40, <1>41
     DEF Next, Calls, Staging, Execution, Egress


-----------------------------------------------------------------------------
\* A session that has loaded nothing has no data.
LEMMA DataInit == Init => DataInv
<1> SUFFICES ASSUME Init PROVE DataInv
  OBVIOUS
<1>1. SramInv /\ PagesInv /\ PrefetchInv
  BY DEF Init, SramInv, PagesInv, ReadyPageIsResident, LandedInv, PrefetchInv, NoneKept
<1>2. ResidentInv /\ WaitingInv
  BY DEF Init, ResidentInv, WaitingInv
<1>3. PrefetchedInv
  BY DEF Init, PrefetchedInv, Awaited, NoneKept
<1>4. DeviceInv
  BY DEF Init, DeviceInv, LiveInv, ReleasedInv, Live, NoneKept
<1>5. StagedInv
  BY DEF Init, StagedInv
<1>6. ResultInv
  BY DEF Init, ResultInv, ResultsStay, Semantics!NoResult
<1>7. GhostInv
  BY DEF Init, GhostInv
<1> QED
  BY <1>1, <1>2, <1>3, <1>4, <1>5, <1>6, <1>7 DEF DataInv

\* Every step keeps the data of the session right.
LEMMA DataStep == ControlInv /\ DataInv /\ [Next]_vars => DataInv'
BY SramStep, PagesStep, PrefetchStep, ResidentStep, WaitingStep, PrefetchedStep, DeviceStep,
   StagedStep, ResultStep, GhostStep DEF DataInv

\* The data of a session are right in every reachable state.
THEOREM DataInvariant == Spec => []DataInv
BY DataInit, DataStep, ControlInvariant, PTL DEF Spec

\* Whatever a program reads is current: the tensor, the bytes of the caller or
\* what the producer made, through every page, alias, copy and lookahead
\* (ModelSession::run_invocation, prepare_executable_weight_pages).
THEOREM ReadsCurrent == Spec => []ReadsAreCurrent
<1>1. ControlInv /\ DataInv => ReadsAreCurrent
  <2> SUFFICES ASSUME ControlInv, DataInv PROVE ReadsAreCurrent
    OBVIOUS
  <2>1. CASE phase = "running"
    BY <2>1, ReadData DEF DataInv
  <2>2. CASE phase # "running"
    BY <2>2 DEF ReadsAreCurrent
  <2> QED
    BY <2>1, <2>2
<1> QED
  BY <1>1, ControlInvariant, DataInvariant, PTL

\* Results that are not delivered yet are where the program left them, also
\* after the transfers of the next invocation have settled
\* (settle_executable_weight_lookahead, the downloads of run_invocation).
THEOREM ResultsStayPut == Spec => []ResultsStay
<1>1. DataInv => ResultsStay
  BY DEF DataInv, ResultInv
<1> QED
  BY <1>1, DataInvariant, PTL

-----------------------------------------------------------------------------
\* No step of the semantics.
Hidden == UNCHANGED <<values, overrides, value, backing, result>>

\* An exception abandons what is not delivered.
LEMMA ThrowAbandons ==
    ASSUME Throw, UNCHANGED hostVars
    PROVE  Semantics!Abandon
BY DEF Throw, hostVars, Semantics!Abandon

\* A program computes from the data of the model.
LEMMA ExecuteComputes ==
    ASSUME ControlInv, DataInv, Execute
    PROVE  index \in Index /\ Semantics!Compute(index)
<1>1. /\ index \in Index /\ phase = "running"
      /\ result' = Semantics!ResultOf(index) /\ UNCHANGED <<values, overrides, value, backing>>
  BY DEF Execute, hostVars, ControlInv, TypeOK
<1>2. result = Semantics!NoResult
  BY <1>1 DEF DataInv, ResultInv
<1>3. \A i \in Semantics!Taken(index) : Semantics!Current(Invocations[index].inputs[i].value) # Missing
  BY <1>1, ReadData DEF DataInv, Current
<1> QED
  BY <1>1, <1>2, <1>3, SameData DEF Semantics!Compute

\* The states that come back are those that the program computed.
LEMMA StatesAdvance ==
    ASSUME ControlInv, DataInv, PageOutStates
    PROVE  Semantics!AdvanceStates
<1> DEFINE Mine(s) == \E i \in DOMAIN StatesOf(index) : StatesOf(index)[i].state = s
           At(s) == CHOOSE i \in DOMAIN StatesOf(index) : StatesOf(index)[i].state = s
<1>1. /\ index \in Index /\ phase = "stateout"
      /\ backing' = [s \in States |-> IF Mine(s) THEN sram[StatesOf(index)[At(s)].slot] ELSE backing[s]]
      /\ result' = [x \in Values \cup States |-> IF x \in States THEN Missing ELSE result[x]]
      /\ UNCHANGED <<values, overrides, value>>
  BY DEF PageOutStates, ControlInv, TypeOK
<1>2. \A s \in States : result[s] # Missing <=> Mine(s)
  <2>1. \A s \in States : result[s] # Missing <=> s \in Semantics!MadeBy(index)
    BY <1>1 DEF DataInv, ResultInv
  <2>2. \A s \in States : s \notin OutputNames(index)
    BY <1>1, Names, UniqueNames
  <2>3. \A s \in States : s \in StateNames(index) <=> Mine(s)
    BY DEF StateNames
  <2> QED
    BY <1>1, <2>1, <2>2, <2>3, Names
<1>3. \A s \in States : Mine(s) => sram[StatesOf(index)[At(s)].slot] = result[s]
  <2>1. ASSUME NEW s \in States, Mine(s)
        PROVE  At(s) \in DOMAIN StatesOf(index) /\ StatesOf(index)[At(s)].state = s
    BY <2>1
  <2> HIDE DEF At
  <2> QED
    BY <1>1, <1>2, <2>1 DEF DataInv, ResultInv, ResultsStay
<1>4. backing' = [s \in States |-> IF result[s] = Missing THEN backing[s] ELSE result[s]]
  <2> HIDE DEF Mine, At
  <2> QED
    BY <1>1, <1>2, <1>3
<1> HIDE DEF Mine, At
<1> QED
  BY <1>1, <1>4, SameData DEF Semantics!AdvanceStates

\* An output that is delivered is the one that the program computed.
LEMMA OutputDelivers ==
    ASSUME ControlInv, DataInv, DeliverOutput
    PROVE  \E v \in Values : Semantics!Deliver(v)
<1> DEFINE v == Outputs(index)[cursor].value
           row == Outputs(index)[cursor].slot
<1>1. /\ index \in Index /\ phase = "outputs" /\ cursor \in DOMAIN Outputs(index)
      /\ values' = IF v \in ExternalOutputs THEN [values EXCEPT ![v] = sram[row]] ELSE values
      /\ value' = [value EXCEPT ![v] = result[v]]
      /\ result' = [result EXCEPT ![v] = Missing]
      /\ UNCHANGED <<overrides, backing>>
  BY DEF DeliverOutput, ControlInv, TypeOK
<1>2. v \in Values /\ cursor \in Nat
  BY <1>1, InvocationTypes, PastTheOutputs
<1>3. \E o \in DOMAIN Outputs(index) : o >= cursor /\ Outputs(index)[o].value = v
  BY <1>1, <1>2
<1>4. result[v] # Missing
  BY <1>1, <1>2, <1>3 DEF DataInv, ResultInv
<1>5. sram[row] = result[v]
  BY <1>1, <1>4 DEF DataInv, ResultInv, ResultsStay
<1>6. ASSUME NEW s \in States  PROVE  result[s] = Missing
  <2>1. \A o \in DOMAIN Outputs(index) : Outputs(index)[o].value \in Values
    BY <1>1, InvocationTypes
  <2>2. s \notin Values
    BY UniqueNames
  <2> QED
    BY <1>1, <2>1, <2>2 DEF DataInv, ResultInv
<1> HIDE DEF v, row
<1>7. Semantics!Deliver(v)
  BY <1>1, <1>4, <1>5, <1>6, SameData DEF Semantics!Deliver
<1> QED
  BY <1>2, <1>7

\* Every step of the session is a step of its semantics or hidden from it.
LEMMA SemanticStep ==
    ASSUME ControlInv, DataInv, [Next]_vars
    PROVE  [Semantics!Next]_(Semantics!semanticVars)
<1> DEFINE Goal == [Semantics!Next]_(Semantics!semanticVars)
<1> USE DEF hostVars, deviceVars, pagerVars, transferVars, controlVars, ghostVars
<1>1. ASSUME Load  PROVE  Goal
  <2>1. Semantics!Load
    BY <1>1, SameData DEF Load, Call, Returned, DropPackage, Semantics!Load, Semantics!NoValues, Semantics!NoResult
  <2> QED
    BY <2>1 DEF Semantics!Next
<1>2. ASSUME LoadFails  PROVE  Goal
  <2>1. Semantics!LoadFails
    BY <1>2, SameData DEF LoadFails, Call, Returned, DropPackage, Semantics!LoadFails, Semantics!NoValues, Semantics!NoResult
  <2> QED
    BY <2>1 DEF Semantics!Next
<1>3. ASSUME ResetStates  PROVE  Goal
  <2>1. Semantics!ResetStates
    BY <1>3, SameData DEF ResetStates, Call, Returned, Semantics!ResetStates
  <2> QED
    BY <2>1 DEF Semantics!Next
<1>4. ASSUME Run  PROVE  Goal
  <2>1. result = Semantics!NoResult
    BY <1>4 DEF Run, Call, DataInv, ResultInv
  <2>2. Semantics!Start
    BY <1>4, <2>1, SameData DEF Run, Call, Usable, ForgetDevice, Semantics!Start, Semantics!NoValues
  <2> QED
    BY <2>2 DEF Semantics!Next
<1>5. ASSUME RunWithoutIds  PROVE  Goal
  <2>1. result = Semantics!NoResult
    BY <1>5 DEF RunWithoutIds, Call, DataInv, ResultInv
  <2>2. Semantics!Start
    BY <1>5, <2>1, SameData DEF RunWithoutIds, Call, Usable, ForgetDevice, Semantics!Start, Semantics!NoValues
  <2> QED
    BY <2>2 DEF Semantics!Next
<1>6. ASSUME \E v \in ExternalInputs : \E n \in Choices[v] : SetInput(v, n)
      PROVE  Goal
  <2>1. PICK v \in ExternalInputs : \E n \in Choices[v] : SetInput(v, n)
    BY <1>6
  <2>2. PICK n \in Choices[v] : SetInput(v, n)
    BY <2>1
  <2>3. Semantics!SetInput(v, n)
    BY <2>2, SameData DEF SetInput, Semantics!SetInput
  <2> QED
    BY <2>3 DEF Semantics!Next
<1>7. ASSUME \E s \in States : \E n \in Choices[s] : SetState(s, n)
      PROVE  Goal
  <2>1. PICK s \in States : \E n \in Choices[s] : SetState(s, n)
    BY <1>7
  <2>2. PICK n \in Choices[s] : SetState(s, n)
    BY <2>1
  <2>3. Semantics!SetState(s, n)
    BY <2>2, SameData DEF SetState, Semantics!SetState
  <2> QED
    BY <2>3 DEF Semantics!Next
<1>8. ASSUME \E j \in Index : RunInvocation(j)
      PROVE  Goal
  <2>1. Hidden
    BY <1>8 DEF RunInvocation, Call, Usable, Enter, Hidden
  <2> QED
    BY <2>1 DEF Hidden, Semantics!semanticVars
<1>9. ASSUME NextInvocation  PROVE  Goal
  <2>1. Hidden
    BY <1>9 DEF NextInvocation, Enter, Index, Hidden
  <2> QED
    BY <2>1 DEF Hidden, Semantics!semanticVars
<1>10. ASSUME FinishRun  PROVE  Goal
  <2>1. CASE values' = values
    BY <1>10, <2>1 DEF FinishRun, Semantics!semanticVars
  <2>2. CASE values' = Semantics!WithHostOps(LmHead, values)
    <3>1. Semantics!Finish
      BY <1>10, <2>2 DEF FinishRun, Semantics!Finish
    <3> QED
      BY <3>1 DEF Semantics!Next
  <2> QED
    BY <1>10, <2>1, <2>2 DEF FinishRun
<1>11. ASSUME KeepWeightPage  PROVE  Goal
  <2>1. Hidden
    BY <1>11 DEF KeepWeightPage, PageIsHere, Go, Hidden
  <2> QED
    BY <2>1 DEF Hidden, Semantics!semanticVars
<1>12. ASSUME StartWeightPage  PROVE  Goal
  <2>1. Hidden
    BY <1>12 DEF StartWeightPage, PageIsHere, Go, Hidden
  <2> QED
    BY <2>1 DEF Hidden, Semantics!semanticVars
<1>13. ASSUME AwaitWeightPage  PROVE  Goal
  <2>1. Hidden
    BY <1>13 DEF AwaitWeightPage, PageIsHere, Go, Hidden
  <2> QED
    BY <2>1 DEF Hidden, Semantics!semanticVars
<1>14. ASSUME RefuseWeightPage  PROVE  Goal
  <2>1. Throw /\ UNCHANGED hostVars
    BY <1>14 DEF RefuseWeightPage, hostVars
  <2>2. Semantics!Abandon
    BY <2>1, ThrowAbandons
  <2> QED
    BY <2>2 DEF Semantics!Next
<1>15. ASSUME WeightPageArrives  PROVE  Goal
  <2>1. Hidden
    BY <1>15 DEF WeightPageArrives, Go, Hidden
  <2> QED
    BY <2>1 DEF Hidden, Semantics!semanticVars
<1>16. ASSUME WeightPageTimesOut  PROVE  Goal
  <2>1. Throw /\ UNCHANGED hostVars
    BY <1>16 DEF WeightPageTimesOut, hostVars
  <2>2. Semantics!Abandon
    BY <2>1, ThrowAbandons
  <2> QED
    BY <2>2 DEF Semantics!Next
<1>17. ASSUME PageInStates  PROVE  Goal
  <2>1. Hidden
    BY <1>17 DEF PageInStates, Upload, Go, Hidden
  <2> QED
    BY <2>1 DEF Hidden, Semantics!semanticVars
<1>18. ASSUME NoStates  PROVE  Goal
  <2>1. Hidden
    BY <1>18 DEF NoStates, Go, Hidden
  <2> QED
    BY <2>1 DEF Hidden, Semantics!semanticVars
<1>19. ASSUME StatesThrow  PROVE  Goal
  <2>1. Throw /\ UNCHANGED hostVars
    BY <1>19 DEF StatesThrow, UploadThrows, hostVars
  <2>2. Semantics!Abandon
    BY <2>1, ThrowAbandons
  <2> QED
    BY <2>2 DEF Semantics!Next
<1>20. ASSUME SkipInput  PROVE  Goal
  <2>1. Hidden
    BY <1>20 DEF SkipInput, AtInput, NextInput, Go, Hidden
  <2> QED
    BY <2>1 DEF Hidden, Semantics!semanticVars
<1>21. ASSUME TakePrefetched  PROVE  Goal
  <2>1. Hidden
    BY <1>21 DEF TakePrefetched, AtInput, NextInput, Go, Input, Prefetched, Hidden
  <2> QED
    BY <2>1 DEF Hidden, Semantics!semanticVars
<1>22. ASSUME UploadInput  PROVE  Goal
  <2>1. Hidden
    BY <1>22 DEF UploadInput, AtInput, NextInput, Go, Upload, Hidden
  <2> QED
    BY <2>1 DEF Hidden, Semantics!semanticVars
<1>23. ASSUME UploadInputThrows  PROVE  Goal
  <2>1. Throw /\ UNCHANGED hostVars
    BY <1>23 DEF UploadInputThrows, UploadThrows, hostVars
  <2>2. Semantics!Abandon
    BY <2>1, ThrowAbandons
  <2> QED
    BY <2>2 DEF Semantics!Next
<1>24. ASSUME TakeFromDevice  PROVE  Goal
  <2>1. Hidden
    BY <1>24 DEF TakeFromDevice, AtInput, NextInput, Go, Input, Hidden
  <2> QED
    BY <2>1 DEF Hidden, Semantics!semanticVars
<1>25. ASSUME RefuseInput  PROVE  Goal
  <2>1. Throw /\ UNCHANGED hostVars
    BY <1>25 DEF RefuseInput, hostVars
  <2>2. Semantics!Abandon
    BY <2>1, ThrowAbandons
  <2> QED
    BY <2>2 DEF Semantics!Next
<1>26. ASSUME PreparePages  PROVE  Goal
  <2>1. Hidden
    BY <1>26 DEF PreparePages, InputsReady, ForgetPrefetched, Go, NoneKept, NoLookahead, Hidden
  <2> QED
    BY <2>1 DEF Hidden, Semantics!semanticVars
<1>27. ASSUME PreparePagesThrows  PROVE  Goal
  <2>1. Throw /\ UNCHANGED hostVars
    BY <1>27 DEF PreparePagesThrows, hostVars
  <2>2. Semantics!Abandon
    BY <2>1, ThrowAbandons
  <2> QED
    BY <2>2 DEF Semantics!Next
<1>28. ASSUME LookAhead  PROVE  Goal
  <2>1. Hidden
    BY <1>28 DEF LookAhead, Go, CanLookAhead, Hidden
  <2> QED
    BY <2>1 DEF Hidden, Semantics!semanticVars
<1>29. ASSUME StayHere  PROVE  Goal
  <2>1. Hidden
    BY <1>29 DEF StayHere, Go, NoLookahead, Hidden
  <2> QED
    BY <2>1 DEF Hidden, Semantics!semanticVars
<1>30. ASSUME LinkThrows  PROVE  Goal
  <2>1. Throw /\ UNCHANGED hostVars
    BY <1>30 DEF LinkThrows, hostVars
  <2>2. Semantics!Abandon
    BY <2>1, ThrowAbandons
  <2> QED
    BY <2>2 DEF Semantics!Next
<1>31. ASSUME \E i \in AheadInputs : LandAhead(i)
      PROVE  Goal
  <2>1. Hidden
    BY <1>31 DEF LandAhead, Hidden
  <2> QED
    BY <2>1 DEF Hidden, Semantics!semanticVars
<1>32. ASSUME LandPageAhead  PROVE  Goal
  <2>1. Hidden
    BY <1>32 DEF LandPageAhead, Hidden
  <2> QED
    BY <2>1 DEF Hidden, Semantics!semanticVars
<1>33. ASSUME Execute  PROVE  Goal
  <2>1. index \in Index /\ Semantics!Compute(index)
    BY <1>33, ExecuteComputes
  <2> QED
    BY <2>1 DEF Semantics!Next, Semantics!Count, Index, Count
<1>34. ASSUME ExecutionThrows  PROVE  Goal
  <2>1. Throw /\ UNCHANGED hostVars
    BY <1>34 DEF ExecutionThrows, hostVars
  <2>2. Semantics!Abandon
    BY <2>1, ThrowAbandons
  <2> QED
    BY <2>2 DEF Semantics!Next
<1>35. ASSUME Settle  PROVE  Goal
  <2>1. Hidden
    BY <1>35 DEF Settle, Go, Hidden
  <2> QED
    BY <2>1 DEF Hidden, Semantics!semanticVars
<1>36. ASSUME SettleThrows  PROVE  Goal
  <2>1. Throw /\ UNCHANGED hostVars
    BY <1>36 DEF SettleThrows, hostVars
  <2>2. Semantics!Abandon
    BY <2>1, ThrowAbandons
  <2> QED
    BY <2>2 DEF Semantics!Next
<1>37. ASSUME PageOutStates  PROVE  Goal
  <2>1. Semantics!AdvanceStates
    BY <1>37, StatesAdvance
  <2> QED
    BY <2>1 DEF Semantics!Next
<1>38. ASSUME DeliverOutput  PROVE  Goal
  <2>1. \E v \in Values : Semantics!Deliver(v)
    BY <1>38, OutputDelivers
  <2> QED
    BY <2>1 DEF Semantics!Next
<1>39. ASSUME EgressThrows  PROVE  Goal
  <2>1. Throw /\ UNCHANGED hostVars
    BY <1>39 DEF EgressThrows, hostVars
  <2>2. Semantics!Abandon
    BY <2>1, ThrowAbandons
  <2> QED
    BY <2>2 DEF Semantics!Next
<1>40. ASSUME FinishInvocation  PROVE  Goal
  <2>1. Hidden
    BY <1>40 DEF FinishInvocation, Hidden
  <2> QED
    BY <2>1 DEF Hidden, Semantics!semanticVars
<1>41. ASSUME UNCHANGED vars  PROVE  Goal
  BY <1>41 DEF vars, Semantics!semanticVars
<1> HIDE DEF hostVars, deviceVars, pagerVars, transferVars, controlVars, ghostVars
<1> HIDE DEF Goal
<1>42. Goal
  BY <1>1, <1>2, <1>3, <1>4, <1>5, <1>6, <1>7, <1>8, <1>9, <1>10, <1>11, <1>12, <1>13, <1>14, <1>15, <1>16, <1>17, <1>18, <1>19, <1>20, <1>21, <1>22, <1>23, <1>24, <1>25, <1>26, <1>27, <1>28, <1>29, <1>30, <1>31, <1>32, <1>33, <1>34, <1>35, <1>36, <1>37, <1>38, <1>39, <1>40, <1>41
     DEF Next, Calls, Staging, Execution, Egress
<1> QED
  BY <1>42 DEF Goal

\* What the caller gets from value() and read_state() is what the sequence of
\* invocations defines, for every package whose placements are as assumed.
THEOREM SessionImplementsSemantics == Spec => ImplementsSemantics
<1>1. Init => Semantics!Init
  BY SameData DEF Init, Semantics!Init, Semantics!NoValues
<1>2. ControlInv /\ DataInv /\ [Next]_vars => [Semantics!Next]_(Semantics!semanticVars)
  BY SemanticStep
<1> QED
  BY <1>1, <1>2, ControlInvariant, DataInvariant, PTL DEF Spec, ImplementsSemantics, Semantics!Spec


=============================================================================
