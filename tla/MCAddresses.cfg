SPECIFICATION AddressSpec
CONSTANTS
    a = a
    b = b
    c = c
    d = d
    k = k
    Node = {a, b, c, d}
    Originator = Originator
    Nonce = {k}
    NoInvite = NoInvite
    Label = {}
    NoLabel = NoLabel
    Host = {1, 2, 3, 4}
    Time = {1, 2, 3}
    NodeOrder <- ByteOrder
    FirstHost = 2
    LastHost = 4
INVARIANTS
    AddressesDistinct
PROPERTIES
    LaterJoinDisplacesNobody
