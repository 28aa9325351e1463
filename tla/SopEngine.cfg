CONSTANTS
    deploy = deploy
    alarm = alarm
    batch = batch
    SOPs <- MCSOPs
    Def <- MCDef3
    Reloadable <- MCReloadable
    MaxTotal = 2
    ApprovalTimeout = 2
    MaxFinished = 1
    WriteFaults = TRUE
    MaxRuns = 2
    MaxResults = 3
SPECIFICATION Spec
INVARIANTS TypeOK RunsPartitioned
PROPERTIES FinishedIsFinal
