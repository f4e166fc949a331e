\* Two applications, changed through two replicas.
SPECIFICATION Spec
CONSTANTS
    a1 = a1  a2 = a2
    n1 = n1  n2 = n2
    d1 = d1  d2 = d2
    v1 = v1  v2 = v2  v3 = v3
    None = None
    Legacy = Legacy
    Apps <- MCApps
    Replicas <- MCReplicas
    Domains <- MCDomains
    Revs <- MCRevs
    Buildable = {v1}
    Requests <- MCTwoRequests
    InitialApps <- MCTwoLive
    MaxOps = 2
    MaxFaults = 0
SYMMETRY MCSymmetry
PROPERTIES
    CommitsAreFenced
