SPECIFICATION Spec
CONSTANTS
    Ids = {"T1", "T2", "T3", "T4"}
    BlankId = ""
    Agents = {"planner", "coder", "tester"}
    Blocks = {"human", "persona"}
    Replies <- JustFork
    Fallback <- MCFallback
    Configs <- Reviewed
    CoreMemory = TRUE
    MaxFaults = 0
PROPERTIES UpdatesKept
