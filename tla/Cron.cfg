CONSTANTS
    backup = backup
    report = report
    lost = lost
    JobIds = {backup, report, lost}
    Orphans = {lost}
    Schedules <- MCSchedules
    Configs <- MCConfigs
    CatchUp = TRUE
    MaxTasks = 2
    MaxConcurrent = 1
    MaxTime = 2
    MaxFaults = 1
    MaxEdits = 1
SPECIFICATION FairSpec
INVARIANTS TypeOK DoneIsDone DueTimesFit CatchUpMissesNone
PROPERTIES DueJobsRun
CHECK_DEADLOCK FALSE
