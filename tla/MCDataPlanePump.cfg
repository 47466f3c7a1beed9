SPECIFICATION Spec
CONSTANTS
    ssh = ssh
    dns = dns
    gui = gui
    cli = cli
    Addr = {a}
    None = None
    Other = Other
    MaxDevices = 2
    MaxBus = 2
    MaxAsked = 1
    MaxFaults <- Faults
    Absent = Absent
    Idle = Idle
    Stored = Stored
    Tcp = {ssh}
    Datagram = {dns}
    FlowTtl = 2
    MaxLate = 1
    Scope <- PhoneOnly
INVARIANT OnePump
