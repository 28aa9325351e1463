SPECIFICATION Spec
CONSTANTS
    Ids = {"T1", "T2", "T3", "T4"}
    BlankId = ""
    Agents = {"planner", "coder", "tester"}
    Blocks = {"human", "persona"}
    Replies <- MCReplies
    Fallback <- MCFallback
    Configs <- MCConfigs
    CoreMemory = TRUE
    MaxFaults = 1
INVARIANTS TypeOK RunsAfterDependencies SeesDependencies RepairsBounded ResultsHonest
PROPERTIES ImplementsFlow EarlierWavesKept Terminates
