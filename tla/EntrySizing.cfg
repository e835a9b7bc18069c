SPECIFICATION EntrySpec
CONSTANTS
    Parts = 10
    Shapes <- MCShapes
    Repos <- MCRepos
    Taken <- MCTaken
    Defaults <- MCDefaults
    Edits <- MCEdits
    HeadTotals = {11003, 12782}
    WorkerTotals = {12782}
    HeadStep = 251
    WorkerStep = 1131
INVARIANT PlansUnderCeiling
INVARIANT SharesInRange
INVARIANT ConfigIsUnderstood
INVARIANT ProposalIsValid
PROPERTY FreeingNeverHurts
CHECK_DEADLOCK FALSE
