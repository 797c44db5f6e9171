CONSTANTS
    Clients = {c1, c2}
    Sessions = {s1, s2, s3}
    NoSession = NoSession
    Observers = {o1}
    Width = 2
    Keys = {"usable"}
SPECIFICATION Spec
SYMMETRY Symmetry
INVARIANTS
    TypeOK
    SessionsBalance
    ObserversKnowKeys
    ThreadIsStopped
