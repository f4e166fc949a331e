\* One replica that is edited, refreshed and asked while time passes and contracts change.
SPECIFICATION Spec
CONSTANTS
    q1 = q1  n1 = n1  n2 = n2  a1 = a1  p1 = p1  p2 = p2
    s1 = s1  t1 = t1  t2 = t2  k1 = k1  k2 = k2
    find = find  list = list
    None = None
    Replicas = {n1}
    Requests = {q1}
    Apps = {a1}
    Paths <- MCPaths
    Operations <- MCOperations
    Revs <- MCRevs
    Servers = {s1}
    Tools <- MCTools
    Keys <- MCKeys
    HasOperation <- MCHasOperation
    Initial <- MCInitial
    Mutations <- MCAllMutations
    Expiry = 1
    RefreshLimit = 1
    MutateLimit = 1
    Switched = {a1}
    MaxSaves = 2
    MaxFaults = 0
    MaxRuntimes = 2
    MaxTime = 3
INVARIANTS
    ServersCurrent
    BindingsMatchRuntime
    AuthorityExpires
PROPERTIES
    SavedToolsCompile
    SecretsOnlyRotate
