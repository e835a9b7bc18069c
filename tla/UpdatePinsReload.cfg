SPECIFICATION Spec
CONSTANTS
    Images = {"ollama"}
    MaxVersion = 1
    Moving <- Components
    Calls <- SomeCalls
    Interrupts = FALSE
    Artifacts <- Complete
INVARIANT ReloadGoesLive
CHECK_DEADLOCK FALSE
