---------------------------- MODULE ModelSession ----------------------------
(***************************************************************************)
(* A loaded model and its invocations (ModelSession).                      *)
(*                                                                         *)
(* One caller drives the session: load, set_input, set_state, run and      *)
(* run_invocation.  Inside an invocation the session moves a weight page,  *)
(* the state windows and the inputs into SRAM, loads the program, lets it  *)
(* run while the transports of the next invocation look ahead, and brings  *)
(* states and outputs back.  Any standalone transfer may time out, and the *)
(* exception leaves the members of the session as they are.                *)
(*                                                                         *)
(* A slot is the set of rows of one placement; two bindings that alias     *)
(* have the same slot.  What a slot holds is a content of ModelData.  The  *)
(* pages inside an executable are those of CommonTransport and             *)
(* QueueControl: here they are in SRAM when the program needs them.        *)
(***************************************************************************)
EXTENDS Integers, Sequences, FiniteSets, ModelData

CONSTANTS
    Tensors, Values, States,            \* names in the package
    ExternalInputs, ExternalOutputs,    \* ModelValue::external_input, _output
    Choices,                            \* by name, what a caller may pass
    Embedding, LmHead,                  \* host operations: output -> input
    Slots,                              \* placements in SRAM
    Pages,                              \* model weight pages
    PageImage,                          \* per page, the tensor of each slot
    Invocations,                        \* see InvocationType
    MaxCalls                            \* bound on the calls of the caller

NoSlot == 0
NoPage == 0

(***************************************************************************)
(* An invocation with the bindings of its executable.  An input is         *)
(* "plain", "paged" (paged_weight) or "prefetch" (role prefetch.input);    *)
(* `pre` tells the pages that are loaded before execution.  `constants`    *)
(* are the Internal bindings with an initializer, `workspace` those        *)
(* without, `scratch` the rows below a memory floor.  `looksAhead` is      *)
(* false for a common-barrier program or one with compiled MEM writes.     *)
(***************************************************************************)
InvocationType ==
    [inputs     : Seq([value : Tensors \cup Values, slot : Slots,
                       kind : {"plain", "paged", "prefetch"}, pre : BOOLEAN]),
     outputs    : Seq([value : Values, slot : Slots]),
     states     : Seq([state : States, slot : Slots]),
     constants  : SUBSET Slots,
     workspace  : SUBSET Slots,
     scratch    : SUBSET Slots,
     page       : Pages \cup {NoPage},
     looksAhead : BOOLEAN]

ASSUME NamesAssumption ==
    /\ ExternalInputs \subseteq Values /\ ExternalOutputs \subseteq Values
    /\ Slots \subseteq Nat \ {NoSlot} /\ Pages \subseteq Nat \ {NoPage}
    /\ MaxCalls \in Nat
\* The names of a package are unique (validate_model_package), and those of
\* ModelData are not among them.
ASSUME UniqueNames ==
    /\ Tensors \cap Values = {} /\ Values \cap States = {}
    /\ {"missing", "junk", "constant"} \cap (Tensors \cup Values \cup States) = {}
ASSUME InvocationsAssumption == Invocations \in Seq(InvocationType)
ASSUME PagesAssumption ==
    \A p \in Pages : DOMAIN PageImage[p] \subseteq Slots

Count == Len(Invocations)
Index == 1 .. Count
Inputs(j) == Invocations[j].inputs
Outputs(j) == Invocations[j].outputs
StatesOf(j) == Invocations[j].states
PageOf(j) == Invocations[j].page
PageSlots(p) == IF p = NoPage THEN {} ELSE DOMAIN PageImage[p]
PageTensors(p) == {PageImage[p][s] : s \in PageSlots(p)}

-----------------------------------------------------------------------------
(***************************************************************************)
(* The plan of the session (SessionMemoryPlanner::plan).                   *)
(***************************************************************************)
Producers(v) == {j \in Index : \E o \in DOMAIN Outputs(j) : Outputs(j)[o].value = v}
Consumers(v) == {j \in Index : \E i \in DOMAIN Inputs(j) : Inputs(j)[i].value = v}

\* One output has a value; the planner compares its invocation with the last
\* consumer, here it is before every consumer.
ASSUME ProducersAssumption ==
    /\ \A v \in Values : \A j \in Producers(v) : \A k \in Index :
          /\ k \in Producers(v) => k = j
          /\ k \in Consumers(v) => j < k
    /\ \A j \in Index : \A o, p \in DOMAIN Outputs(j) :
          Outputs(j)[o].value = Outputs(j)[p].value => o = p

OutputSlots(v) ==
    UNION {{Outputs(j)[o].slot : o \in {o \in DOMAIN Outputs(j) : Outputs(j)[o].value = v}} :
              j \in Producers(v)}

Transfer(j, i) ==
    LET in == Inputs(j)[i] IN
    CASE in.value \in Tensors /\ (in.value \in PageTensors(PageOf(j)) \/ in.kind = "paged")
             -> "WeightPage"
      [] in.value \in Tensors /\ in.value \notin PageTensors(PageOf(j)) /\ in.kind # "paged"
             -> "Resident"
      [] in.value \notin Tensors /\ Producers(in.value) = {} -> "HostUpload"
      [] in.value \notin Tensors /\ Producers(in.value) # {} ->
             IF in.slot \in OutputSlots(in.value) THEN "DeviceAlias" ELSE "DeviceCopy"

\* release_after_transfer: the last invocation that consumes the value.
ReleasedAt(v, j) == \A k \in Consumers(v) : k <= j

Residents ==
    UNION {{<<Inputs(j)[i].slot, Inputs(j)[i].value>> :
               i \in {i \in DOMAIN Inputs(j) : Transfer(j, i) = "Resident"}} : j \in Index}

\* Inputs that arrive through a page of the executable.
Transported(j) == {i \in DOMAIN Inputs(j) : Inputs(j)[i].kind \in {"paged", "prefetch"}}
Preloaded(j) == {i \in Transported(j) : Inputs(j)[i].pre}

SlotsOf(j, set) == {Inputs(j)[i].slot : i \in set}
OutputPlaces(j) == {Outputs(j)[o].slot : o \in DOMAIN Outputs(j)}
StatePlaces(j) == {StatesOf(j)[i].slot : i \in DOMAIN StatesOf(j)}

\* Rows of the program that have a binding.
BoundSlots(j) ==
    SlotsOf(j, DOMAIN Inputs(j)) \cup OutputPlaces(j) \cup StatePlaces(j)
        \cup Invocations[j].constants \cup Invocations[j].workspace

\* Mutant: only the pages of the running program hold a lookahead back.
PagedSlots(j) == SlotsOf(j, Transported(j))

HeldBackByPages(j, slots) == slots \cap PagedSlots(j) # {}

\* safe_inter_invocation_prefetch_cycle: a transfer of the next invocation
\* that overlaps a binding waits for the end of the running program.
HeldBack(j, slots) == slots \cap BoundSlots(j) # {}

-----------------------------------------------------------------------------
VARIABLES
    loaded,         \* loaded_
    intact,         \* ghost: the last load returned
    values,         \* values_, Missing where absent
    overrides,      \* host_input_overrides_
    device,         \* device_values_: the slot, NoSlot where absent
    prefetched,     \* prefetched_inputs_: the slot, NoSlot where absent
    prefetchedFor,  \* prefetched_input_consumer_, 0 where absent
    ready,          \* ready_weight_page_
    inflight,       \* inflight_weight_page_
    busy,           \* the pager is active and its transfer has not arrived
    images,         \* executable_weight_transfers_: the packed bytes by input
    ahead,          \* lookahead transfers: their invocation, bytes and page
    aheadLanded,    \* those in SRAM: inputs, and 0 for the model page
    backing,        \* state_backing_
    sram,           \* what each slot holds
    phase,          \* where run_invocation has come to
    index,          \* the invocation
    cursor,         \* its next input or output
    running,        \* inside run()
    position,       \* the caller: invocations up to here have completed
    calls,          \* calls of the caller so far
    value, result   \* ghosts: ModelSemantics

hostVars == <<loaded, intact, values, overrides, backing>>
deviceVars == <<device, prefetched, prefetchedFor>>
pagerVars == <<ready, inflight, busy>>
transferVars == <<images, ahead, aheadLanded>>
controlVars == <<phase, index, cursor, running, position, calls>>
ghostVars == <<value, result>>
vars == <<hostVars, deviceVars, pagerVars, transferVars, sram, controlVars, ghostVars>>

Semantics == INSTANCE ModelSemantics WITH host <- values, state <- backing

NoImage == <<>>
NoLookahead == [for |-> 0, images |-> NoImage, page |-> NoPage]
NoneKept == [v \in Values |-> NoSlot]

\* resolve_value
Bytes(v) == IF v \in Values /\ values[v] # Missing THEN values[v]
            ELSE IF v \in Tensors THEN TensorData(v) ELSE Missing

\* build_executable_weight_pages packs the bytes there are now.
ImagesOf(j) ==
    [i \in DOMAIN Inputs(j) |->
        IF i \in Transported(j) THEN Bytes(Inputs(j)[i].value) ELSE Missing]
ImagesReady(j) == \A i \in Transported(j) : Bytes(Inputs(j)[i].value) # Missing

\* What the transports write: the pages at `set` of invocation j.
Landed(mem, j, set, bytes) ==
    [s \in Slots |->
        IF \E i \in set : Inputs(j)[i].slot = s
        THEN bytes[CHOOSE i \in set : Inputs(j)[i].slot = s] ELSE mem[s]]
PageLanded(mem, p) ==
    [s \in Slots |-> IF s \in PageSlots(p) THEN TensorData(PageImage[p][s]) ELSE mem[s]]
Spoiled(mem, slots) == [s \in Slots |-> IF s \in slots THEN Junk ELSE mem[s]]

\* The rows that change when page p is transferred: it may be there already.
Unlike(mem, p) == {s \in PageSlots(p) : mem[s] # TensorData(PageImage[p][s])}

\* An exception leaves run_invocation, and run() with it.
Throw ==
    /\ phase' = "idle" /\ running' = FALSE
    /\ UNCHANGED <<index, cursor, position, calls>>
    /\ value' = value /\ result' = Semantics!NoResult

Go(next) == phase' = next /\ UNCHANGED <<index, running, position, calls, ghostVars>>

-----------------------------------------------------------------------------
Init ==
    /\ loaded = FALSE /\ intact = FALSE
    /\ values = [v \in Values |-> Missing] /\ overrides = {}
    /\ device = NoneKept /\ prefetched = NoneKept /\ prefetchedFor = 0
    /\ ready = NoPage /\ inflight = NoPage /\ busy = FALSE
    /\ images = NoImage /\ ahead = NoLookahead /\ aheadLanded = {}
    /\ backing = [s \in States |-> Missing]
    /\ sram = [s \in Slots |-> Junk]
    /\ phase = "idle" /\ index = 0 /\ cursor = 0 /\ running = FALSE
    /\ position = 0 /\ calls = 0
    /\ value = [v \in Values |-> Missing] /\ result = Semantics!NoResult

Call == phase = "idle" /\ calls < MaxCalls /\ calls' = calls + 1
Returned == UNCHANGED <<phase, index, cursor, running>>

\* The members that load() resets before it uploads anything.
DropPackage ==
    /\ values' = [v \in Values |-> Missing] /\ overrides' = {}
    /\ device' = NoneKept /\ prefetched' = NoneKept /\ prefetchedFor' = 0
    /\ ready' = NoPage /\ inflight' = NoPage
    /\ images' = NoImage /\ ahead' = NoLookahead /\ aheadLanded' = {}
    /\ position' = 0
    /\ value' = [v \in Values |-> Missing] /\ result' = Semantics!NoResult

Load ==
    /\ Call /\ Returned /\ DropPackage
    /\ ~busy \/ Residents = {}
    /\ loaded' = TRUE /\ intact' = TRUE
    /\ backing' = [s \in States |-> ZeroState(s)]
    /\ sram' = [s \in Slots |->
                   IF \E r \in Residents : r[1] = s
                   THEN TensorData((CHOOSE r \in Residents : r[1] = s)[2]) ELSE sram[s]]
    /\ UNCHANGED busy

\* A resident upload throws, before or after it has started the pager:
\* loaded_ keeps the value it had.
LoadFails ==
    /\ Call /\ Returned /\ DropPackage
    /\ intact' = FALSE /\ UNCHANGED loaded
    /\ backing' = [s \in States |-> Missing]
    /\ busy' \in {busy, Residents # {}} /\ (busy => busy')
    /\ sram' = Spoiled(sram, {r[1] : r \in Residents})

\* After a load that threw, the caller loads again before anything else.
Usable == loaded /\ intact

\* Mutant: the image of the old bytes stays in SRAM.
SetInputKeepingImage(v, n) ==
    /\ Call /\ Returned /\ Usable
    /\ overrides' = overrides \cup {v}
    /\ values' = [values EXCEPT ![v] = HostData(v, n)]
    /\ UNCHANGED <<loaded, intact, backing, deviceVars, pagerVars, transferVars,
                   sram, position, ghostVars>>

SetInput(v, n) ==
    /\ Call /\ Returned /\ Usable
    /\ overrides' = overrides \cup {v}
    /\ prefetched' = [prefetched EXCEPT ![v] = NoSlot]
    /\ values' = [values EXCEPT ![v] = HostData(v, n)]
    /\ UNCHANGED <<loaded, intact, backing, device, prefetchedFor, pagerVars, transferVars,
                   sram, position, ghostVars>>

SetState(s, n) ==
    /\ Call /\ Returned /\ Usable
    /\ backing' = [backing EXCEPT ![s] = HostData(s, n)]
    /\ UNCHANGED <<loaded, intact, values, overrides, deviceVars, pagerVars, transferVars,
                   sram, position, ghostVars>>

ResetStates ==
    /\ Call /\ Returned /\ Usable
    /\ backing' = [s \in States |-> ZeroState(s)]
    /\ UNCHANGED <<loaded, intact, values, overrides, deviceVars, pagerVars, transferVars,
                   sram, position, ghostVars>>

-----------------------------------------------------------------------------
(***************************************************************************)
(* The caller of run_invocation(j) goes on with the next invocation, tries *)
(* one again that threw, starts over, or restarts at a boundary: then      *)
(* every value that crosses the boundary is one it has set itself, or is   *)
(* not on the device any more.                                             *)
(***************************************************************************)
MayInvoke(j) ==
    \/ j \in {1, position + 1}
    \/ \A v \in Values :
           (\E k \in Consumers(v) : k >= j) /\ (\E k \in Producers(v) : k < j)
               => v \in overrides \/ device[v] = NoSlot

\* Inputs prefetched for another invocation are forgotten.
Enter(j) ==
    /\ index' = j /\ cursor' = 1 /\ phase' = "page" /\ position' = j - 1
    /\ prefetched' = IF prefetchedFor = j THEN prefetched ELSE NoneKept
    /\ UNCHANGED <<hostVars, device, prefetchedFor, pagerVars, transferVars, sram, ghostVars>>

RunInvocation(j) == Call /\ Usable /\ MayInvoke(j) /\ Enter(j) /\ UNCHANGED running

\* run(): what is on the device is forgotten, and the embeddings are looked up.
ForgetDevice ==
    /\ device' = NoneKept
    /\ images' = NoImage /\ ahead' = NoLookahead /\ aheadLanded' = {}
    /\ value' = [v \in Values |-> Missing] /\ result' = Semantics!NoResult
    /\ UNCHANGED <<loaded, intact, overrides, backing, prefetched, prefetchedFor, pagerVars, sram>>

Run ==
    /\ Call /\ Usable /\ ForgetDevice
    /\ \A v \in DOMAIN Embedding : Bytes(Embedding[v]) # Missing
    /\ values' = Semantics!WithHostOps(Embedding, values)
    /\ phase' = "next" /\ running' = TRUE /\ index' = 0 /\ cursor' = 0 /\ position' = 0

\* The token ids were never set.
RunWithoutIds ==
    /\ Call /\ Usable /\ ForgetDevice
    /\ \E v \in DOMAIN Embedding : Bytes(Embedding[v]) = Missing
    /\ position' = 0
    /\ UNCHANGED <<values, phase, index, cursor, running>>

NextInvocation ==
    /\ phase = "next" /\ index < Count
    /\ Enter(index + 1) /\ UNCHANGED <<running, calls>>

FinishRun ==
    /\ phase = "next" /\ index = Count
    /\ values' = IF \A v \in DOMAIN LmHead : Bytes(LmHead[v]) # Missing
                 THEN Semantics!WithHostOps(LmHead, values) ELSE values
    /\ phase' = "idle" /\ running' = FALSE
    /\ UNCHANGED <<loaded, intact, overrides, backing, deviceVars, pagerVars, transferVars,
                   sram, index, cursor, position, calls, ghostVars>>

-----------------------------------------------------------------------------
(***************************************************************************)
(* ensure_weight_page and start_weight_page.                               *)
(***************************************************************************)
PageIsHere(j) == PageOf(j) \in {NoPage, ready}

KeepWeightPage ==
    /\ phase = "page" /\ PageIsHere(index)
    /\ Go("states") /\ UNCHANGED <<hostVars, deviceVars, pagerVars, transferVars, sram, cursor>>

\* Mutant: the page that was there stays named while the new one arrives.
StartWeightPageKeepingReady ==
    /\ phase = "page" /\ ~PageIsHere(index)
    /\ inflight = NoPage /\ ~busy
    /\ inflight' = PageOf(index) /\ busy' = TRUE
    /\ Go("arriving") /\ UNCHANGED <<hostVars, deviceVars, ready, transferVars, sram, cursor>>

StartWeightPage ==
    /\ phase = "page" /\ ~PageIsHere(index)
    /\ inflight = NoPage /\ ~busy
    /\ inflight' = PageOf(index) /\ ready' = NoPage /\ busy' = TRUE
    /\ Go("arriving") /\ UNCHANGED <<hostVars, deviceVars, transferVars, sram, cursor>>

\* The page that timed out earlier: wait for it again.
AwaitWeightPage ==
    /\ phase = "page" /\ ~PageIsHere(index) /\ inflight = PageOf(index)
    /\ Go("arriving") /\ UNCHANGED <<hostVars, deviceVars, pagerVars, transferVars, sram, cursor>>

RefuseWeightPage ==
    /\ phase = "page" /\ ~PageIsHere(index) /\ inflight # PageOf(index)
    /\ inflight # NoPage \/ busy
    /\ Throw /\ UNCHANGED <<hostVars, deviceVars, pagerVars, transferVars, sram>>

WeightPageArrives ==
    /\ phase = "arriving"
    /\ sram' = PageLanded(sram, PageOf(index))
    /\ ready' = PageOf(index) /\ inflight' = NoPage /\ busy' = FALSE
    /\ Go("states") /\ UNCHANGED <<hostVars, deviceVars, transferVars, cursor>>

WeightPageTimesOut ==
    /\ phase = "arriving"
    /\ sram' = Spoiled(sram, Unlike(sram, PageOf(index)))
    /\ Throw /\ UNCHANGED <<hostVars, deviceVars, pagerVars, transferVars>>

-----------------------------------------------------------------------------
(***************************************************************************)
(* Standalone transfers: states and inputs, one after the other.  A pager  *)
(* that is still busy refuses; a transfer that times out leaves it busy.   *)
(***************************************************************************)
\* Mutant: the pager takes a second transfer.
UploadWhileBusy(mem) ==
    /\ sram' = mem
    /\ UNCHANGED <<hostVars, pagerVars, transferVars>>

Upload(mem) ==
    /\ ~busy /\ sram' = mem
    /\ UNCHANGED <<hostVars, pagerVars, transferVars>>

UploadThrows(slots) ==
    /\ \/ busy /\ UNCHANGED <<busy, sram>>
       \/ ~busy /\ busy' = TRUE /\ sram' = Spoiled(sram, slots)
    /\ Throw /\ UNCHANGED <<hostVars, ready, inflight, transferVars>>

PageInStates ==
    /\ phase = "states" /\ StatesOf(index) # <<>>
    /\ Upload([s \in Slots |->
                  IF \E i \in DOMAIN StatesOf(index) : StatesOf(index)[i].slot = s
                  THEN backing[StatesOf(index)[CHOOSE i \in DOMAIN StatesOf(index) :
                                                  StatesOf(index)[i].slot = s].state]
                  ELSE sram[s]])
    /\ Go("inputs") /\ UNCHANGED <<deviceVars, cursor>>

NoStates ==
    /\ phase = "states" /\ StatesOf(index) = <<>>
    /\ Go("inputs") /\ UNCHANGED <<hostVars, deviceVars, pagerVars, transferVars, sram, cursor>>

StatesThrow ==
    /\ phase = "states" /\ StatesOf(index) # <<>>
    /\ UploadThrows(StatePlaces(index)) /\ UNCHANGED deviceVars

Input == Inputs(index)[cursor]
AtInput == phase = "inputs" /\ cursor \in DOMAIN Inputs(index)
NextInput == cursor' = cursor + 1 /\ Go("inputs")

Prefetched == Input.value \in Values /\ prefetched[Input.value] # NoSlot
FromHost ==
    \/ Transfer(index, cursor) = "HostUpload"
    \/ Transfer(index, cursor) \in {"DeviceAlias", "DeviceCopy"} /\ Input.value \in overrides
FromDevice == Transfer(index, cursor) \in {"DeviceAlias", "DeviceCopy"} /\ ~FromHost

SkipInput ==
    /\ AtInput /\ NextInput
    /\ \/ Input.kind = "prefetch"
       \/ ~Prefetched /\ Transfer(index, cursor) \in {"Resident", "WeightPage"}
    /\ UNCHANGED <<hostVars, deviceVars, pagerVars, transferVars, sram>>

TakePrefetched ==
    /\ AtInput /\ Input.kind # "prefetch" /\ Prefetched
    /\ prefetched[Input.value] = Input.slot
    /\ prefetched' = [prefetched EXCEPT ![Input.value] = NoSlot]
    /\ NextInput
    /\ UNCHANGED <<hostVars, device, prefetchedFor, pagerVars, transferVars, sram>>

UploadInput ==
    /\ AtInput /\ Input.kind # "prefetch" /\ ~Prefetched /\ FromHost
    /\ Bytes(Input.value) # Missing
    /\ Upload([sram EXCEPT ![Input.slot] = Bytes(Input.value)])
    /\ NextInput /\ UNCHANGED deviceVars

UploadInputThrows ==
    /\ AtInput /\ Input.kind # "prefetch" /\ ~Prefetched /\ FromHost
    /\ \/ Bytes(Input.value) # Missing /\ UploadThrows({Input.slot})
       \/ Bytes(Input.value) = Missing
              /\ Throw /\ UNCHANGED <<hostVars, pagerVars, transferVars, sram>>
    /\ UNCHANGED deviceVars

\* An alias moves nothing; a copy goes from MEM to MEM.
TakeFromDevice ==
    /\ AtInput /\ Input.kind # "prefetch" /\ ~Prefetched /\ FromDevice
    /\ device[Input.value] # NoSlot
    /\ sram' = [sram EXCEPT ![Input.slot] = sram[device[Input.value]]]
    /\ device' = IF ReleasedAt(Input.value, index)
                 THEN [device EXCEPT ![Input.value] = NoSlot] ELSE device
    /\ NextInput
    /\ UNCHANGED <<hostVars, prefetched, prefetchedFor, pagerVars, transferVars>>

\* It was prefetched to another place, or is not on the device.
RefuseInput ==
    /\ AtInput /\ Input.kind # "prefetch"
    /\ \/ Prefetched /\ prefetched[Input.value] # Input.slot
       \/ ~Prefetched /\ FromDevice /\ device[Input.value] = NoSlot
    /\ Throw /\ UNCHANGED <<hostVars, deviceVars, pagerVars, transferVars, sram>>

-----------------------------------------------------------------------------
(***************************************************************************)
(* prepare_executable_weight_pages: the constants first, then the pages    *)
(* that have to be there before execution and have not come ahead.         *)
(***************************************************************************)
InputsReady == phase = "inputs" /\ cursor \notin DOMAIN Inputs(index)

ForgetPrefetched == prefetched' = NoneKept /\ prefetchedFor' = 0 /\ UNCHANGED device

CameAhead == IF ahead.for = index THEN aheadLanded ELSE {}
BytesNow == IF ahead.for = index THEN ahead.images ELSE ImagesOf(index)
ToLoad == Preloaded(index) \ CameAhead

WithConstants(mem) ==
    [s \in Slots |-> IF s \in Invocations[index].constants THEN ConstantData(index) ELSE mem[s]]

PreparePages ==
    /\ InputsReady /\ ForgetPrefetched
    /\ ahead.for = index \/ ImagesReady(index)
    /\ ToLoad # {} => ~busy
    /\ images' = BytesNow /\ ahead' = NoLookahead /\ aheadLanded' = {}
    /\ sram' = Landed(WithConstants(sram), index, ToLoad, BytesNow)
    /\ Go("linking") /\ UNCHANGED <<hostVars, pagerVars, cursor>>

PreparePagesThrows ==
    /\ InputsReady /\ ForgetPrefetched
    /\ \/ /\ ahead.for = index \/ ImagesReady(index)
          /\ ToLoad # {}
          /\ images' = BytesNow
          /\ busy' = TRUE
          /\ sram' = Spoiled(WithConstants(sram), IF busy THEN {} ELSE SlotsOf(index, ToLoad))
       \/ /\ ahead.for # index /\ ~ImagesReady(index)
          /\ images' = NoImage /\ sram' = WithConstants(sram) /\ UNCHANGED busy
    /\ ahead' = NoLookahead /\ aheadLanded' = {}
    /\ Throw /\ UNCHANGED <<hostVars, ready, inflight>>

(***************************************************************************)
(* prepare_executable_weight_lookahead: the pages of the next invocation   *)
(* travel while this one runs.                                             *)
(***************************************************************************)
LooksAhead == Invocations[index].looksAhead /\ index < Count

PageAhead == IF PageOf(index + 1) = PageOf(index) THEN NoPage ELSE PageOf(index + 1)

NextAhead == [for |-> index + 1, images |-> ImagesOf(index + 1), page |-> PageAhead]
CanLookAhead == LooksAhead /\ ImagesReady(index + 1)

LookAhead ==
    /\ phase = "linking" /\ CanLookAhead
    /\ ahead' = NextAhead /\ aheadLanded' = {}
    /\ Go("running") /\ UNCHANGED <<hostVars, deviceVars, pagerVars, images, sram, cursor>>

StayHere ==
    /\ phase = "linking" /\ ~LooksAhead
    /\ ahead' = NoLookahead /\ aheadLanded' = {}
    /\ Go("running") /\ UNCHANGED <<hostVars, deviceVars, pagerVars, images, sram, cursor>>

\* An input of the next invocation is not there yet, the pages do not fit,
\* or the loader refuses the linked program.
LinkThrows ==
    /\ phase = "linking"
    /\ ahead' \in {NoLookahead} \cup IF CanLookAhead THEN {NextAhead} ELSE {}
    /\ aheadLanded' = {}
    /\ Throw /\ UNCHANGED <<hostVars, deviceVars, pagerVars, images, sram>>

-----------------------------------------------------------------------------
(***************************************************************************)
(* While the program runs.  Lookahead transfers land at any time, those    *)
(* that overlap a binding of the program when it has finished.             *)
(***************************************************************************)
\* Mutant: also the pages that the next program loads itself.
AllAheadInputs == IF ahead.for = 0 THEN {} ELSE Transported(ahead.for)

AheadInputs == IF ahead.for = 0 THEN {} ELSE Preloaded(ahead.for)

LandAhead(i) ==
    /\ phase = "running" /\ i \in AheadInputs \ aheadLanded
    /\ ~HeldBack(index, {Inputs(ahead.for)[i].slot})
    /\ sram' = Landed(sram, ahead.for, {i}, ahead.images)
    /\ aheadLanded' = aheadLanded \cup {i}
    /\ UNCHANGED <<hostVars, deviceVars, pagerVars, images, ahead, controlVars, ghostVars>>

LandPageAhead ==
    /\ phase = "running" /\ ahead.page # NoPage /\ 0 \notin aheadLanded
    /\ ~HeldBack(index, PageSlots(ahead.page))
    /\ sram' = PageLanded(sram, ahead.page)
    /\ aheadLanded' = aheadLanded \cup {0}
    /\ UNCHANGED <<hostVars, deviceVars, pagerVars, images, ahead, controlVars, ghostVars>>

\* The program reads its inputs, the pages inside it among them.
Memory == Landed(sram, index, Transported(index) \ Preloaded(index), images)
Taken(j) == {i \in DOMAIN Inputs(j) : Inputs(j)[i].kind # "prefetch"}
Read(j, mem) ==
    <<[i \in Taken(j) |-> mem[Inputs(j)[i].slot]],
      [i \in DOMAIN StatesOf(j) |-> mem[StatesOf(j)[i].slot]]>>

\* What it leaves: results, and used rows.
Executed(j, mem) ==
    [s \in Slots |->
        CASE \E o \in DOMAIN Outputs(j) : Outputs(j)[o].slot = s ->
                 Computed(Outputs(j)[CHOOSE o \in DOMAIN Outputs(j) :
                                        Outputs(j)[o].slot = s].value, j, Read(j, mem))
          [] s \notin OutputPlaces(j)
                 /\ \E i \in DOMAIN StatesOf(j) : StatesOf(j)[i].slot = s ->
                 Computed(StatesOf(j)[CHOOSE i \in DOMAIN StatesOf(j) :
                                         StatesOf(j)[i].slot = s].state, j, Read(j, mem))
          [] s \notin OutputPlaces(j) \cup StatePlaces(j) ->
                 IF s \in Invocations[j].workspace \cup Invocations[j].scratch
                 THEN Junk ELSE mem[s]]

Execute ==
    /\ phase = "running"
    /\ sram' = Executed(index, Memory)
    /\ result' = Semantics!ResultOf(index)
    /\ phase' = "computed"
    /\ UNCHANGED <<hostVars, deviceVars, pagerVars, transferVars, index, cursor, running,
                   position, calls, value>>

\* The datapath reports an error, or linked_program_done never comes and the
\* watchdog throws.  What the program or a transport writes may be half
\* written; no page of the next invocation counts as ready.
ExecutionThrows ==
    /\ phase = "running"
    /\ sram' = Spoiled(sram, OutputPlaces(index) \cup StatePlaces(index)
                   \cup Invocations[index].workspace \cup Invocations[index].scratch
                   \cup SlotsOf(index, Transported(index) \ Preloaded(index))
                   \cup SlotsOf(ahead.for, AheadInputs) \cup Unlike(sram, ahead.page))
    /\ aheadLanded' = {}
    /\ Throw /\ UNCHANGED <<hostVars, deviceVars, pagerVars, images, ahead>>

\* The inputs that came for the next invocation.
KeptForNext ==
    LET kept == {i \in DOMAIN Inputs(index) : Inputs(index)[i].kind = "prefetch"} IN
    /\ prefetched' = [v \in Values |->
           IF \E i \in kept : Inputs(index)[i].value = v
           THEN Inputs(index)[CHOOSE i \in kept : Inputs(index)[i].value = v].slot
           ELSE prefetched[v]]
    /\ prefetchedFor' = IF kept = {} THEN prefetchedFor ELSE index + 1
    /\ UNCHANGED device

\* Mutant: the page of the next invocation is believed ready before it is.
SettleWithoutPage ==
    /\ phase = "computed" /\ KeptForNext
    /\ sram' = Landed(sram, ahead.for, AheadInputs \ aheadLanded, ahead.images)
    /\ aheadLanded' = IF ahead.for = 0 THEN {} ELSE AheadInputs \cup {0}
    /\ ready' = IF ahead.page = NoPage THEN ready ELSE ahead.page
    /\ inflight' = IF ahead.page = NoPage THEN inflight ELSE NoPage
    /\ Go("stateout") /\ UNCHANGED <<hostVars, busy, images, ahead, cursor>>

\* settle_executable_weight_lookahead
Settle ==
    /\ phase = "computed" /\ KeptForNext
    /\ sram' = LET mem == Landed(sram, ahead.for, AheadInputs \ aheadLanded, ahead.images) IN
               IF 0 \in aheadLanded THEN mem ELSE PageLanded(mem, ahead.page)
    /\ aheadLanded' = IF ahead.for = 0 THEN {} ELSE AheadInputs \cup {0}
    /\ ready' = IF ahead.page = NoPage THEN ready ELSE ahead.page
    /\ inflight' = IF ahead.page = NoPage THEN inflight ELSE NoPage
    /\ Go("stateout") /\ UNCHANGED <<hostVars, busy, images, ahead, cursor>>

SettleThrows ==
    /\ phase = "computed" /\ KeptForNext
    /\ \/ AheadInputs \ aheadLanded # {}
       \/ ahead.page # NoPage /\ 0 \notin aheadLanded
    /\ sram' = Spoiled(sram, SlotsOf(ahead.for, AheadInputs \ aheadLanded)
                   \cup (IF 0 \in aheadLanded THEN {} ELSE Unlike(sram, ahead.page)))
    /\ aheadLanded' = {}
    /\ Throw /\ UNCHANGED <<hostVars, pagerVars, images, ahead>>

-----------------------------------------------------------------------------
(***************************************************************************)
(* States and outputs come back.                                           *)
(***************************************************************************)
PageOutStates ==
    /\ phase = "stateout"
    /\ backing' = [s \in States |->
           IF \E i \in DOMAIN StatesOf(index) : StatesOf(index)[i].state = s
           THEN sram[StatesOf(index)[CHOOSE i \in DOMAIN StatesOf(index) :
                                        StatesOf(index)[i].state = s].slot]
           ELSE backing[s]]
    /\ result' = [x \in Values \cup States |-> IF x \in States THEN Missing ELSE result[x]]
    /\ phase' = "outputs" /\ cursor' = 1
    /\ UNCHANGED <<loaded, intact, values, overrides, deviceVars, pagerVars, transferVars, sram,
                   index, running, position, calls, value>>

DeliverOutput ==
    /\ phase = "outputs" /\ cursor \in DOMAIN Outputs(index)
    /\ LET out == Outputs(index)[cursor] IN
       /\ device' = IF Consumers(out.value) # {}
                    THEN [device EXCEPT ![out.value] = out.slot] ELSE device
       /\ values' = IF out.value \in ExternalOutputs
                    THEN [values EXCEPT ![out.value] = sram[out.slot]] ELSE values
       /\ value' = [value EXCEPT ![out.value] = result[out.value]]
       /\ result' = [result EXCEPT ![out.value] = Missing]
    /\ cursor' = cursor + 1
    /\ UNCHANGED <<loaded, intact, overrides, backing, prefetched, prefetchedFor, pagerVars,
                   transferVars, sram, phase, index, running, position, calls>>

\* The chip does not drain, or a download throws.
EgressThrows ==
    /\ \/ phase = "stateout"
       \/ /\ phase = "outputs" /\ cursor \in DOMAIN Outputs(index)
          /\ Outputs(index)[cursor].value \in ExternalOutputs
    /\ Throw /\ UNCHANGED <<hostVars, deviceVars, pagerVars, transferVars, sram>>

FinishInvocation ==
    /\ phase = "outputs" /\ cursor \notin DOMAIN Outputs(index)
    /\ position' = index
    /\ phase' = IF running THEN "next" ELSE "idle"
    /\ UNCHANGED <<hostVars, deviceVars, pagerVars, transferVars, sram, index, cursor, running,
                   calls, ghostVars>>

-----------------------------------------------------------------------------
Calls ==
    \/ Load \/ LoadFails \/ ResetStates \/ Run \/ RunWithoutIds
    \/ \E v \in ExternalInputs : \E n \in Choices[v] : SetInput(v, n)
    \/ \E s \in States : \E n \in Choices[s] : SetState(s, n)
    \/ \E j \in Index : RunInvocation(j)

Staging ==
    \/ KeepWeightPage \/ StartWeightPage \/ AwaitWeightPage \/ RefuseWeightPage
    \/ WeightPageArrives \/ WeightPageTimesOut
    \/ PageInStates \/ NoStates \/ StatesThrow
    \/ SkipInput \/ TakePrefetched
    \/ UploadInput \/ UploadInputThrows \/ TakeFromDevice \/ RefuseInput

Execution ==
    \/ PreparePages \/ PreparePagesThrows \/ LookAhead \/ StayHere \/ LinkThrows
    \/ \E i \in AheadInputs : LandAhead(i)
    \/ LandPageAhead \/ Execute \/ ExecutionThrows \/ Settle \/ SettleThrows

Egress == PageOutStates \/ DeliverOutput \/ EgressThrows \/ FinishInvocation

Next == Calls \/ NextInvocation \/ FinishRun \/ Staging \/ Execution \/ Egress

Spec == Init /\ [][Next]_vars

-----------------------------------------------------------------------------
Phases == {"idle", "next", "page", "arriving", "states", "inputs", "linking", "running",
           "computed", "stateout", "outputs"}

(***************************************************************************)
(* The members of the session: an index and a cursor inside the package    *)
(* whenever an invocation is under way, a consumer for whatever was        *)
(* prefetched, and no page both ready and in flight.                       *)
(***************************************************************************)
TypeOK ==
    /\ loaded \in BOOLEAN /\ intact \in BOOLEAN /\ running \in BOOLEAN /\ busy \in BOOLEAN
    /\ (intact => loaded)
    /\ overrides \subseteq ExternalInputs
    /\ device \in [Values -> Slots \cup {NoSlot}]
    /\ prefetched \in [Values -> Slots \cup {NoSlot}]
    /\ prefetchedFor \in 0 .. Count + 1
    /\ ready \in Pages \cup {NoPage} /\ inflight \in Pages \cup {NoPage}
    /\ (ready = NoPage \/ inflight = NoPage)
    /\ (inflight # NoPage => busy)
    /\ ahead.for \in {0} \cup Index /\ ahead.page \in Pages \cup {NoPage}
    /\ aheadLanded \subseteq {0} \cup AheadInputs
    /\ phase \in Phases /\ position \in 0 .. Count /\ calls \in 0 .. MaxCalls
    /\ index \in 0 .. Count
    /\ (phase \notin {"idle", "next"} => index \in Index)
    /\ (running \/ phase \notin {"idle", "next"} => loaded)
    /\ (phase = "running" => ahead.for \in {0, index + 1})

(***************************************************************************)
(* Whatever lands while a program runs, what it reads is the data of the   *)
(* model: each input the tensor, the bytes of the caller or the result of  *)
(* its producer, each state its backing, each constant its initializer     *)
(* (run_invocation, prepare_executable_weight_pages).                      *)
(***************************************************************************)
ReadsAreCurrent ==
    phase = "running" =>
        /\ Read(index, Memory) = Semantics!DataOf(index)
        /\ \A s \in Invocations[index].constants : sram[s] = ConstantData(index)

(***************************************************************************)
(* The page that the session believes to be in SRAM is there, untouched    *)
(* by programs, uploads and transfers since it arrived                     *)
(* (ready_weight_page_, ensure_weight_page).                               *)
(***************************************************************************)
ReadyPageIsResident ==
    ready # NoPage => \A s \in PageSlots(ready) : sram[s] = TensorData(PageImage[ready][s])

(***************************************************************************)
(* No program runs on top of a standalone transfer that timed out          *)
(* (C2cWeightPager::enqueue refuses while one is in flight).               *)
(***************************************************************************)
NoTransferUnderProgram == phase \in {"linking", "running", "computed"} => ~busy

(***************************************************************************)
(* Results that are not delivered yet are still where the program left     *)
(* them, even after the transfers of the next invocation have settled      *)
(* (settle_executable_weight_lookahead comes before the downloads).        *)
(***************************************************************************)
ResultsStay ==
    phase \in {"computed", "stateout", "outputs"} =>
        /\ \A o \in DOMAIN Outputs(index) :
              LET out == Outputs(index)[o] IN
              result[out.value] # Missing => sram[out.slot] = result[out.value]
        /\ \A i \in DOMAIN StatesOf(index) :
              LET st == StatesOf(index)[i] IN
              result[st.state] # Missing => sram[st.slot] = result[st.state]

(***************************************************************************)
(* What the caller gets from value() and read_state() is what the model    *)
(* defines, with nothing of pages, placements and transfers in it.         *)
(***************************************************************************)
ImplementsSemantics == Semantics!Spec
=============================================================================
