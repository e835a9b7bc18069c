SPECIFICATION Spec
CONSTANTS
    Images = {"ollama"}
    MaxVersion = 1
    Moving <- Components
    Calls <- SomeCalls
    Interrupts = FALSE
    Artifacts <- Complete
INVARIANT UpToDateIsStaged
CHECK_DEADLOCK FALSE
