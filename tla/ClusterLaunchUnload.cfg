SPECIFICATION Spec
CONSTANTS
    Models = {m1, m2}
    MaxLaunches = 2
    PollMisses = 3
    SshFails = FALSE
    Kills = TRUE
INVARIANT UnloadStopsWorker
CHECK_DEADLOCK FALSE
