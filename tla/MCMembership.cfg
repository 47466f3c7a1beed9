SPECIFICATION MembershipSpec
CONSTANTS
    a = a
    c = c
    home = home
    Node = {a, c}
    Originator = Originator
    NoInvite = NoInvite
    NoLabel = NoLabel
    Label = {home}
    Nonce <- Moments
    Time <- Moments
    Host <- HostRange
    NodeOrder <- ByteOrder
    FirstHost = 2
    LastHost = 5
    Master = a
    Deputies <- NoDeputies
    RecoveryHolders = {c}
    Roaming = {c}
    Skew <- FastJoiner
    MaxEntries = 5
CHECK_DEADLOCK FALSE
INVARIANTS
    EvictionIsEarned
PROPERTIES
    GatesAgreeWithFold
