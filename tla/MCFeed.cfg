SPECIFICATION FairSpec
CONSTANTS
    Device = {d1}
    None = None
    Blank = Blank
    MaxVersion = 2
    MaxAsks = 2
    Capacity = 2
    MaxInbox = 2
 
PROPERTIES PageFollows
