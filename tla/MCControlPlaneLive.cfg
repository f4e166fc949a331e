\* One operation and one failure over every kind of stored record, seen by two replicas.
SPECIFICATION FairSpec
CONSTANTS
    a1 = a1  a2 = a2
    n1 = n1  n2 = n2
    d1 = d1  d2 = d2
    v1 = v1  v2 = v2  v3 = v3
    None = None
    Legacy = Legacy
    Apps = {a1}
    Replicas <- MCReplicas
    Domains <- MCDomains
    Revs <- MCMoreRevs
    Buildable <- MCRevs
    Requests <- MCMoreRequests
    InitialApps <- MCAnyRecord
    MaxOps = 1
    MaxFaults = 1
PROPERTIES
    Converges
INVARIANTS
    RevokedFirst
    StatusShowsRunning
    ReadyMeansServing
