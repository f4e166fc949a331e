\* Two replicas that are edited and refreshed at the same time.
SPECIFICATION FairSpec
CONSTANTS
    q1 = q1  n1 = n1  n2 = n2  a1 = a1  p1 = p1  p2 = p2
    s1 = s1  t1 = t1  t2 = t2  k1 = k1  k2 = k2
    find = find  list = list
    None = None
    Replicas <- MCReplicas
    Requests = {}
    Apps = {a1}
    Paths <- MCPaths
    Operations <- MCOperations
    Revs = {1}
    Servers = {s1}
    Tools = {t1}
    Keys = {k1}
    HasOperation <- MCHasOperation
    Initial <- MCInitial
    Mutations <- MCFewMutations
    Expiry = 0
    RefreshLimit = 0
    MutateLimit = 0
    Switched = {}
    MaxSaves = 3
    MaxFaults = 1
    MaxRuntimes = 1
    MaxTime = 0
INVARIANTS
    CommittedIsServed
PROPERTIES
    NeverOlder
    EditsAreSequential
    Refreshes
