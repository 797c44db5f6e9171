CONSTANTS
    Streams = {s1, s2}
    NoStream = NoStream
    Frontends = 2
    Decoders = 1
    Platforms = {"QAM", "Aamp"}
    MaxControls = 2
    MaxReports = 1
SPECIFICATION FairSpec
INVARIANTS
    TypeOK
    SlotsBalance
    RefsBalance
    NothingIsLeft
PROPERTIES
    RequestsEnd
CHECK_DEADLOCK FALSE
