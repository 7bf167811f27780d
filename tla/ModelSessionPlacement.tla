------------------------- MODULE ModelSessionPlacement -------------------------
(***************************************************************************)
(* The placements under which a session is correct.  The compiler chooses  *)
(* the rows of inputs, outputs, states and pages, the session planner      *)
(* those of the residents; no part of the runtime compares the rows of     *)
(* different executables with one another, so these are assumptions of     *)
(* the session about the packages it is given.                             *)
(***************************************************************************)
EXTENDS ModelSession

Disjoint(A, B) == A \cap B = {}

Uploaded(j) == {i \in DOMAIN Inputs(j) : /\ Inputs(j)[i].kind # "prefetch"
                                         /\ Inputs(j)[i].value \notin Tensors}
Kept(j) == {i \in DOMAIN Inputs(j) : Inputs(j)[i].kind = "prefetch"}

\* Written before program j starts, but for the inputs of these values.
EarlyBut(j, but) ==
    StatePlaces(j) \cup Invocations[j].constants \cup PageSlots(PageOf(j))
        \cup SlotsOf(j, Preloaded(j) \cup {i \in Uploaded(j) : Inputs(j)[i].value \notin but})
Early(j) == EarlyBut(j, {})

\* Written by the program itself and its transports.
Late(j) ==
    OutputPlaces(j) \cup StatePlaces(j) \cup Invocations[j].workspace
        \cup Invocations[j].scratch \cup SlotsOf(j, Transported(j) \ Preloaded(j))

\* Written for the next invocation.
NextInputs(j) ==
    IF Invocations[j].looksAhead /\ j < Count THEN SlotsOf(j + 1, Preloaded(j + 1)) ELSE {}
NextPage(j) ==
    IF Invocations[j].looksAhead /\ j < Count /\ PageOf(j + 1) # PageOf(j)
    THEN PageOf(j + 1) ELSE NoPage
Ahead(j) == NextInputs(j) \cup PageSlots(NextPage(j))

Writes(j) == Early(j) \cup Late(j) \cup Ahead(j)

\* Within an executable every binding has rows of its own, and the page
\* holds the tensors that are read from it.
ASSUME BindingsApart ==
    \A j \in Index :
        /\ \A i, k \in DOMAIN Inputs(j) : Inputs(j)[i].slot = Inputs(j)[k].slot => i = k
        /\ \A o, k \in DOMAIN Outputs(j) : Outputs(j)[o].slot = Outputs(j)[k].slot => o = k
        /\ \A i, k \in DOMAIN StatesOf(j) : StatesOf(j)[i].slot = StatesOf(j)[k].slot => i = k
        /\ \A i, k \in DOMAIN StatesOf(j) : StatesOf(j)[i].state = StatesOf(j)[k].state => i = k
        /\ Disjoint(SlotsOf(j, DOMAIN Inputs(j)),
                    StatePlaces(j) \cup Invocations[j].constants)
        /\ Disjoint(StatePlaces(j), OutputPlaces(j) \cup Invocations[j].constants)
        /\ \A i \in DOMAIN Inputs(j) :
              /\ Transfer(j, i) = "WeightPage" /\ i \notin Transported(j) =>
                    /\ Inputs(j)[i].slot \in PageSlots(PageOf(j))
                    /\ PageImage[PageOf(j)][Inputs(j)[i].slot] = Inputs(j)[i].value
              /\ Inputs(j)[i].slot \in PageSlots(PageOf(j)) =>
                    Transfer(j, i) = "WeightPage" /\ i \notin Transported(j)
        /\ Disjoint(StatePlaces(j) \cup Invocations[j].constants, PageSlots(PageOf(j)))

\* Residents stay for the life of the package.
ASSUME ResidentsApart ==
    \A r \in Residents :
        /\ \A q \in Residents : r[1] = q[1] => r = q
        /\ \A j \in Index : r[1] \notin Writes(j)

\* A page survives its own invocations and those without one; pages that
\* alternate are in different banks.
ASSUME PagesApart ==
    \A j \in Index, p \in Pages :
        /\ PageOf(j) \in {p, NoPage} => Disjoint(PageSlots(p), (Early(j) \ PageSlots(PageOf(j))) \cup Late(j))
        /\ PageOf(j) \in {p, NoPage} /\ p # NextPage(j) => Disjoint(PageSlots(p), Ahead(j))
        /\ NextPage(j) # NoPage => Disjoint(PageSlots(NextPage(j)), NextInputs(j))

\* A value on the device survives up to its last consumer.
ASSUME ValuesApart ==
    \A v \in Values : \A a \in Producers(v), b \in Consumers(v), s \in OutputSlots(v) :
        /\ \A m \in a + 1 .. b : s \notin EarlyBut(m, {v})
        /\ \A m \in a + 1 .. b - 1 : s \notin Late(m)
        /\ \A m \in a .. b - 1 : s \notin Ahead(m)

\* Results are delivered after the transfers of the next invocation settle,
\* and rows below a memory floor have no binding that would hold them back.
ASSUME LookaheadApart ==
    \A j \in Index :
        Disjoint(Ahead(j), OutputPlaces(j) \cup StatePlaces(j) \cup Invocations[j].scratch)

\* What came ahead, and what was prefetched, waits for its consumer; the
\* invocation before it may be tried again, or another one in between.
ASSUME WaitingApart ==
    \A j \in Index :
        /\ \A m \in Index \ {j + 1} : Disjoint(NextInputs(j), Early(m))
        /\ Disjoint(NextInputs(j), Late(j) \ Invocations[j].workspace)
        /\ Disjoint(SlotsOf(j, Kept(j)),
                    OutputPlaces(j) \cup StatePlaces(j) \cup Invocations[j].workspace
                        \cup Invocations[j].scratch \cup Ahead(j))

\* Bytes that travel through pages of an executable are not changed after
\* they were packed: tensors, or inputs of the model that the running
\* invocation itself packs.
ASSUME PackedBytesStay ==
    \A j \in Index :
        /\ \A i \in DOMAIN Inputs(j) : Inputs(j)[i].kind = "paged" => Inputs(j)[i].value \in Tensors
        /\ \A i \in Kept(j) : /\ Inputs(j)[i].value \in Values
                              /\ Producers(Inputs(j)[i].value) = {}
        /\ Kept(j) # {} /\ j > 1 => ~Invocations[j - 1].looksAhead

\* Every invocation moves something through the pager.
ASSUME PagerIsUsed ==
    \A j \in Index :
        \/ StatesOf(j) # <<>>
        \/ \E i \in DOMAIN Inputs(j) :
              /\ Transfer(j, i) = "HostUpload" /\ Inputs(j)[i].kind = "plain"
              /\ j = 1 \/ Kept(j - 1) = {}
=============================================================================
