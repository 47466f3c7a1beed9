SPECIFICATION FairSpec
CONSTANTS
    Self = self
    Peer = {p}
    Net = {m}
    None = None
    Failed = Failed
    StrikeLimit = 1
    RelayChanges = TRUE
    MaxBusy = 1
PROPERTIES RemovedDeviceLeaves GhostsClosed MembersReconnect
