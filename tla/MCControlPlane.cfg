\* Two replicas and the administrators of one application.
SPECIFICATION Spec
CONSTANTS
    a1 = a1  a2 = a2
    n1 = n1  n2 = n2
    d1 = d1  d2 = d2
    v1 = v1  v2 = v2  v3 = v3
    None = None
    Legacy = Legacy
    Apps = {a1}
    Replicas <- MCReplicas
    Domains <- MCDomains
    Revs <- MCRevs
    Buildable <- MCRevs
    Requests <- MCFewRequests
    InitialApps <- MCNoneOrLive
    MaxOps = 2
    MaxFaults = 1
SYMMETRY MCSymmetry
INVARIANTS
    CommittedHasContract
    RunningWasCommitted
PROPERTIES
    ImplementsCatalog
    NeverBackwards
    OnlyRevocationStops
