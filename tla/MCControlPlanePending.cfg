\* README.md:121: an application without a domain does not block readiness.
SPECIFICATION Spec
CONSTANTS
    a1 = a1  a2 = a2
    n1 = n1  n2 = n2
    d1 = d1  d2 = d2
    v1 = v1  v2 = v2  v3 = v3
    None = None
    Legacy = Legacy
    Apps = {a1}
    Replicas = {n1}
    Domains <- MCDomains
    Revs <- MCRevs
    Buildable = {v1}
    Requests <- MCRequests
    InitialApps <- MCAnyRecord
    MaxOps = 2
    MaxFaults = 2
INVARIANTS
    PendingNeverBlocksReady
