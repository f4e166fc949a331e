\* One process from its start to its exit, with two requests in flight.
SPECIFICATION FairSpec
CONSTANTS
    a1 = a1
    r1 = r1
    q1 = q1  q2 = q2
    None = None
    Apps = {a1}
    Runtimes = {r1}
    Requests = {q1, q2}
    Configurations <- MCConfigurations
    MaxFailures = 1
INVARIANTS
    CleanExitIsClean
    AcceptedIsServed
PROPERTIES
    EndsOnceAsked
