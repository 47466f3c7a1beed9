SPECIFICATION FairSpec
CONSTANTS
    MaxProcs = 3
    MaxFailures = 1
    MaxTasks = 2
    MaxMishaps = 1
    pc = pc
    nas = nas
    Peer = {pc, nas}
    Name <- Names
    NoStatus = NoStatus
    Torn = Torn
    Debounce = 2
    Throttle = 1
    MaxEdits = 2
    MaxChurn = 1
    Scope <- Scopes
INVARIANTS
    OneOfEach
    OffStaysOff
PROPERTIES
    WaitingIsAnswered
    AgentCatchesUp
    RejoinsOnWake
    ReturnsAreAnnounced
    MenuFollows
