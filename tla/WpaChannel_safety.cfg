CONSTANTS
    Callers = {c1, c2}
    Orphan = orphan
    Emitted = {"statusEvent", "scanEvent"}
    MaxInbox = 1
    MaxAbandoned = 1
    MaxStatus = 1
SPECIFICATION Spec
SYMMETRY Symmetry
INVARIANTS
    TypeOK
    NoLostTrigger
    QueueHoldsLiveRequests
    OneCommandAtATime
    AnswersMatchUntilTimeout
    SetGuardsTheList
