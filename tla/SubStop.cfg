CONSTANTS
    assistant = assistant
    ops = ops
    x = x
    y = y
    z = z
    Blank = Blank
    Names <- Providers
    Parents <- Alone
    Kinds <- OneTool
    Targets <- OneTarget
    MaxAttempts = 4
    Cap = 2
    Tasks <- OneTurn
    Drops = FALSE
    Swaps = FALSE
    MaxRuns = 1
SPECIFICATION Spec
PROPERTIES StopAborts
CHECK_DEADLOCK FALSE
