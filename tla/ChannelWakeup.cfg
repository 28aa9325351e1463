CONSTANTS
    chat = chat
    room = room
    console = console
    Places <- MCPlaces
    Scripts <- Pair
    MaxMessages = 2
    MaxInFlight = 2
    MaxHistory = 4
    CompactKeep = 2
    MaxSenders = 1
    MaxLoaded = 3
SPECIFICATION FairHistSpec
PROPERTIES FreshResponse
CHECK_DEADLOCK FALSE
