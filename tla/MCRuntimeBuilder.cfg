\* One operation after the other, over every archive of the families of the module.
SPECIFICATION Spec
CONSTANTS
    None = None
    ParamSegs = {":id", ":name", ":key"}
    CatchAllSegs = {"*all"}
    ThriftNames = {"a", "b", "c", "d"}
    BadSegs = {"", ".", ".."}
    MaxArchive = 4
    MaxExpanded = 4
    MaxFile = 2
    MaxFiles = 3
    MaxDepth = 2
    W = 3
    Files <- MCFiles
    Downloads <- MCDownloads
INVARIANTS
    AcceptedIffSound
    NothingLeaks
