CONSTANTS
    Tensors <- MCTensors
    Values <- MCValues
    States = {"kv"}
    ExternalInputs <- MCExternalInputs
    ExternalOutputs <- MCExternalOutputs
    Choices <- MCChoices
    Embedding <- MCEmbedding
    LmHead <- MCLmHead
    Slots <- MCSlots
    Pages <- MCPages
    PageImage <- MCPageImage
    Invocations <- MCInvocations
    MaxCalls = 6
SPECIFICATION Spec
INVARIANTS TypeOK ReadsAreCurrent ReadyPageIsResident NoTransferUnderProgram ResultsStay
 
CHECK_DEADLOCK FALSE
