CONSTANTS
    chat = chat
    room = room
    console = console
    Places <- MCPlaces
    Scripts <- MCScripts
    MaxMessages = 3
    MaxInFlight = 2
    MaxHistory = 4
    CompactKeep = 2
    MaxSenders = 1
    MaxLoaded = 3
SPECIFICATION FairHistSpec
INVARIANTS TypeOK PermitsConserved StopReaches OneAtATime EachTextOnce NewSessionIsEmpty RestartSeesMemory
PROPERTIES EveryMessageEnds
CHECK_DEADLOCK FALSE
