CONSTANTS
    s1 = s1
    s2 = s2
    d1 = d1
    d2 = d2
    Servers = {s1, s2}
    Dns = {d1, d2}
    DnsOf <- MCDnsOf
    Static = {d1}
    ResponseTime = 1
    MaxDiscover = 2
    MaxAdd = 1
SPECIFICATION FairSpec
INVARIANTS
    TypeOK
    NeverStuck
    DnsBalance
    FileInSync
    
PROPERTIES
    ExchangeEnds
CHECK_DEADLOCK FALSE
