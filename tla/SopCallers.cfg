SPECIFICATION CallerSpec
CONSTANTS
    deploy = deploy
    alarm = alarm
    batch = batch
    SOPs <- MCSOPs
    Def <- MCBrief
    Reloadable = {}
    MaxTotal = 2
    ApprovalTimeout = 1
    MaxFinished = 0
    WriteFaults = TRUE
    MaxRuns = 3
    MaxResults = 3
INVARIANTS ObedientIsGated ApprovalsAreAskedFor CheckpointPauses StepsInOrder GateIsVisible ConcurrencyLimits
PROPERTIES CooldownHonoured
