CONSTANTS
    c1 = c1
    c2 = c2
    b1 = b1
    b2 = b2
    s1 = s1
    Callers = {c1, c2}
    Calling <- MCCalling
    Bss = {b1, b2}
    Ssids = {s1}
    Hidden = hidden
    SsidOf <- MCSsidOf
    IdOf <- MCIdOf
    Impatient = {"create"}
    MaxProfile = 0
    MaxInbox = 2
SPECIFICATION Spec
INVARIANTS
    TypeOK
    ListFollowsAir
    WorkGoesOn
    ProfilesKnown
