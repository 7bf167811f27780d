CONSTANTS
    Tensors <- MCTensors
    Values <- MCValues
    States = {}
    ExternalInputs <- MCExternalInputs
    ExternalOutputs <- MCExternalOutputs
    Choices <- MCChoices
    Embedding <- NoHostOps
    LmHead <- NoHostOps
    Slots <- MCSlots
    Pages <- MCPages
    PageImage <- MCPageImage
    Invocations <- MCInvocations
    MaxCalls = 4
SPECIFICATION Spec
INVARIANT ResultsStay
CHECK_DEADLOCK FALSE
