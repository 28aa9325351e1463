SPECIFICATION CallerSpec
CONSTANTS
    deploy = deploy
    alarm = alarm
    batch = batch
    SOPs <- JustAlarm
    Def <- AlarmDef
    Reloadable = {}
    MaxTotal = 2
    ApprovalTimeout = 2
    MaxFinished = 0
    WriteFaults = TRUE
    MaxRuns = 2
    MaxResults = 3
INVARIANTS ApprovalBeforeExecution
