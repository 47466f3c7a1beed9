SPECIFICATION MemberSpec
CONSTANTS
    c1 = c1
    c2 = c2
    Conn = {c1, c2}
    NoConn = NoConn
    MaxTime = 3
    Jump = 1
    NoDial = NoDial
    DialTimeout = 1
    MaxBackoff = 4
    Cooldown = 1
    Resync = 2
    Fresh = 1
    Every <- Intervals
    MaxFails = 2
    MaxMishaps = 1
INVARIANTS ShownIsTrue BackInTime
PROPERTIES DotComesOn
