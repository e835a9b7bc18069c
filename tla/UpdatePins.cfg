SPECIFICATION Spec
CONSTANTS
    Images = {"ollama"}
    MaxVersion = 1
    Moving <- Components
    Calls <- SomeCalls
    Interrupts = TRUE
    Artifacts <- Readable
INVARIANTS
    TypeOK
    RecordedRefsWereBuilt
    UpGoesLive
    SuccessRecordsAgree
PROPERTY LlamaSwapNeverDowngraded
CHECK_DEADLOCK FALSE
