SPECIFICATION Spec
CONSTANTS
    n1 = n1
    n2 = n2
    n3 = n3
    k1 = k1
    k2 = k2
    Node = {n1, n2, n3}
    Originator = Originator
    Nonce = {k1, k2}
    NoInvite = NoInvite
    Label = {label}
    NoLabel = NoLabel
    Host = {2}
    Time = {1, 2}
SYMMETRY Symmetry
INVARIANTS
    TypeOK
    SingleUseAdmitsOnce
    BlastRadius
    PowerStartsWithOriginator
    CheckInviteAgreesWithFold
