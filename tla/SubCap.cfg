CONSTANTS
    assistant = assistant
    ops = ops
    x = x
    y = y
    z = z
    Blank = Blank
    Names <- Providers
    Parents <- Alone
    Kinds <- BothTools
    Targets <- OneTarget
    MaxAttempts = 4
    Cap = 2
    Tasks <- OneTurn
    Drops = FALSE
    Swaps = FALSE
    MaxRuns = 3
SPECIFICATION Spec
INVARIANTS CapUnified
CHECK_DEADLOCK FALSE
