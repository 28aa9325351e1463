CONSTANTS
    backup = backup
    report = report
    lost = lost
    JobIds = {backup, report}
    Orphans = {}
    Schedules <- MCSchedules
    Configs <- NoConfigs
    CatchUp = FALSE
    MaxTasks = 2
    MaxConcurrent = 1
    MaxTime = 2
    MaxFaults = 1
    MaxEdits = 0
SPECIFICATION Spec
INVARIANTS MissedJobsWait
CHECK_DEADLOCK FALSE
