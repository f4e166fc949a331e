\* Every interleaving of requests, publishers and shutdown, fairly scheduled.
SPECIFICATION FairSpec
CONSTANTS
    a1 = a1  a2 = a2
    r1 = r1  r2 = r2  r3 = r3
    l1 = l1  l2 = l2
    p1 = p1  p2 = p2
    c1 = c1  c2 = c2
    None = None
    Apps <- MCApps
    Runtimes <- MCRuntimes
    WellFormed <- MCWellFormed
    Leases <- MCLeases
    Publishers <- MCPublishers
    Closers <- MCClosers
    MaxVersion = 3
INVARIANTS
    PinnedNeverClosed
    EveryRuntimeAccounted
    DrainedOnce
    DrainedMeansClosed
PROPERTIES
    ImplementsLeases
    RetiredEventuallyClosed
