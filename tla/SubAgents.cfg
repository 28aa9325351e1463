CONSTANTS
    assistant = assistant
    ops = ops
    x = x
    y = y
    z = z
    Blank = Blank
    Names <- Providers
    Parents <- Two
    Kinds <- AllAndOne
    Targets <- SomeTargets
    MaxAttempts = 2
    Cap = 1
    Tasks <- TwoTurns
    Drops = TRUE
    Swaps = TRUE
    MaxRuns = 2
SPECIFICATION TimedSpec
INVARIANTS TypeOK CounterCounts ResultBeforeStatus InFlightOnly ChainIsRight GateHolds
PROPERTIES FirstTerminalWins DispatchLeaves
CHECK_DEADLOCK FALSE
