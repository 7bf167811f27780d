--------------------------- MODULE ModelSemantics ---------------------------
(***************************************************************************)
(* What a ModelSession promises its caller: a model is a sequence of       *)
(* invocations over named values, tensors and persistent states, and the   *)
(* host sees the values and states that this sequence defines.  There is   *)
(* no device here: no SRAM, no pages, no transfers, no aliases.            *)
(*                                                                         *)
(* An invocation computes its results from what its inputs are at that     *)
(* moment; then the states advance and the outputs are delivered one by    *)
(* one.  An exception abandons whatever is not yet delivered.              *)
(***************************************************************************)
EXTENDS ModelData

CONSTANTS
    Tensors, Values, States,
    ExternalInputs, ExternalOutputs,    \* subsets of Values
    Choices,                            \* by name, what a caller may pass
    Embedding, LmHead,                  \* output value -> input value
    Invocations                         \* sequence of records, see ModelSession

VARIABLES
    host,        \* what value(name) returns
    overrides,   \* inputs that the caller has set
    value,       \* what the producer of a value made of it
    state,       \* what read_state(name) returns
    result       \* computed, but not delivered yet

semanticVars == <<host, overrides, value, state, result>>

Count == Len(Invocations)

Produces(j, v) == \E o \in DOMAIN Invocations[j].outputs : Invocations[j].outputs[o].value = v
Produced(v) == \E j \in 1 .. Count : Produces(j, v)

\* The inputs that the program reads; a prefetched input is only moved.
Taken(j) == {i \in DOMAIN Invocations[j].inputs : Invocations[j].inputs[i].kind # "prefetch"}

Current(v) ==
    IF v \in Tensors THEN TensorData(v)
    ELSE IF v \in overrides \/ ~Produced(v) THEN host[v] ELSE value[v]

DataOf(j) ==
    <<[i \in Taken(j) |-> Current(Invocations[j].inputs[i].value)],
      [i \in DOMAIN Invocations[j].states |-> state[Invocations[j].states[i].state]]>>

MadeBy(j) ==
    {Invocations[j].outputs[o].value : o \in DOMAIN Invocations[j].outputs}
        \cup {Invocations[j].states[i].state : i \in DOMAIN Invocations[j].states}

NoResult == [x \in Values \cup States |-> Missing]
NoValues == [v \in Values |-> Missing]

ResultOf(j) == [x \in Values \cup States |->
                    IF x \in MadeBy(j) THEN Computed(x, j, DataOf(j)) ELSE Missing]

\* The host operations before the first and after the last invocation.
WithHostOps(ops, bytes) ==
    [v \in Values |-> IF v \in DOMAIN ops THEN HostOp(v, bytes[ops[v]]) ELSE bytes[v]]

-----------------------------------------------------------------------------
Init ==
    /\ host = NoValues /\ overrides = {} /\ value = NoValues
    /\ state = [s \in States |-> Missing]
    /\ result = NoResult

Load ==
    /\ host' = NoValues /\ overrides' = {} /\ value' = NoValues
    /\ state' = [s \in States |-> ZeroState(s)]
    /\ result' = NoResult

\* A load that throws has dropped the old package already.
LoadFails ==
    /\ host' = NoValues /\ overrides' = {} /\ value' = NoValues
    /\ state' = [s \in States |-> Missing]
    /\ result' = NoResult

SetInput(v, n) ==
    /\ host' = [host EXCEPT ![v] = HostData(v, n)]
    /\ overrides' = overrides \cup {v}
    /\ UNCHANGED <<value, state, result>>

SetState(s, n) ==
    /\ state' = [state EXCEPT ![s] = HostData(s, n)]
    /\ UNCHANGED <<host, overrides, value, result>>

ResetStates ==
    /\ state' = [s \in States |-> ZeroState(s)]
    /\ UNCHANGED <<host, overrides, value, result>>

\* run() forgets what is on the device.
Start ==
    /\ value' = NoValues
    /\ \/ host' = WithHostOps(Embedding, host)
       \/ UNCHANGED host
    /\ UNCHANGED <<overrides, state, result>>

Compute(j) ==
    /\ result = NoResult
    /\ \A i \in Taken(j) : Current(Invocations[j].inputs[i].value) # Missing
    /\ result' = ResultOf(j)
    /\ UNCHANGED <<host, overrides, value, state>>

AdvanceStates ==
    /\ state' = [s \in States |-> IF result[s] = Missing THEN state[s] ELSE result[s]]
    /\ result' = [x \in Values \cup States |-> IF x \in States THEN Missing ELSE result[x]]
    /\ UNCHANGED <<host, overrides, value>>

Deliver(v) ==
    /\ result[v] # Missing
    /\ \A s \in States : result[s] = Missing
    /\ value' = [value EXCEPT ![v] = result[v]]
    /\ host' = IF v \in ExternalOutputs THEN [host EXCEPT ![v] = result[v]] ELSE host
    /\ result' = [result EXCEPT ![v] = Missing]
    /\ UNCHANGED <<overrides, state>>

Abandon == result' = NoResult /\ UNCHANGED <<host, overrides, value, state>>

Finish == host' = WithHostOps(LmHead, host) /\ UNCHANGED <<overrides, value, state, result>>

Next ==
    \/ Load \/ LoadFails \/ ResetStates \/ Start \/ AdvanceStates \/ Abandon \/ Finish
    \/ \E v \in ExternalInputs : \E n \in Choices[v] : SetInput(v, n)
    \/ \E s \in States : \E n \in Choices[s] : SetState(s, n)
    \/ \E j \in 1 .. Count : Compute(j)
    \/ \E v \in Values : Deliver(v)

Spec == Init /\ [][Next]_semanticVars
=============================================================================
