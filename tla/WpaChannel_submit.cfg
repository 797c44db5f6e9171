CONSTANTS
    Callers = {c1}
    Orphan = orphan
    Emitted = {"statusEvent", "bssAdded"}
    MaxInbox = 1
    MaxAbandoned = 0
    MaxStatus = 2
SPECIFICATION Spec
PROPERTIES
    SubmittedOnce
