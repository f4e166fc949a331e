\* Two uploads of one contract race, fail and resume while a replica reads it
\* and a key may be changed or deleted behind the gateway's back.
SPECIFICATION Spec
CONSTANTS
    d1 = d1
    w1 = w1  w2 = w2
    Digests = {d1}
    ChunkSize = 2
    MaxLen = 5
    r1 = r1
    Writers <- MCWriters
    Readers = {r1}
    MaxFaults = 2
    MaxTampers = 1
SYMMETRY MCSymmetry
INVARIANTS
    MarkerMeansWhole
    UploadsResume
    SuccessMeansWhole
    StartedReadsSucceed
PROPERTIES
    ImplementsRegister
