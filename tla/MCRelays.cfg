SPECIFICATION FairSpec
CONSTANTS
    public = public
    r1 = r1
    r2 = r2
    token = token
    Url = {public, r1, r2}
    Public = {public}
    Token = {token}
    NoToken = NoToken
    Settings <- MCSettings
    None = None
    Recovery = Recovery
    MaxEdits = 2
    Attempts = 2
INVARIANTS NothingIsMissing OldIsLeftBySkips
PROPERTIES PendingEnds
