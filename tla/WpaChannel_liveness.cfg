CONSTANTS
    Callers = {c1}
    Orphan = orphan
    Emitted = {"scanEvent", "bssAdded"}
    MaxInbox = 1
    MaxAbandoned = 1
    MaxStatus = 0
SPECIFICATION FairSpec
PROPERTIES
    ImplementsMailbox
