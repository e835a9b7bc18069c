SPECIFICATION FairSpec
CONSTANTS
    Models = {m1, m2}
    MaxLaunches = 3
    PollMisses = 3
    SshFails = TRUE
    Kills = TRUE
INVARIANTS
    TypeOK
    SignalReachesHead
    NoLeftoverWorker
    NoLeftoverHead
    HeadStoppedForCause
PROPERTIES
    WorkerDeathEndsSession
    StopEndsSession
    SessionContract
CHECK_DEADLOCK FALSE
