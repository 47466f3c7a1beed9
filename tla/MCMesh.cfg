SPECIFICATION FairSpec
CONSTANTS
    Lower = lower
    Higher = higher
    Conn = {c1, c2}
    NoConn = NoConn
INVARIANTS TypeOK EndsAgree
PROPERTIES LiveEntryIsKept EntriesAreWatched
    MeshConverges
