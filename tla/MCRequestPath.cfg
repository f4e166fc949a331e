\* One request at a time, of every kind, while contracts are replaced under it.
SPECIFICATION Spec
CONSTANTS
    a1 = a1  a2 = a2
    d1 = d1  d2 = d2
    r1 = r1  r2 = r2  r3 = r3
    f1 = f1  f2 = f2
    q1 = q1
    None = None
    ParamSegs = {":id", ":kind"}
    CatchAllSegs = {"*rest"}
    BadValues = {".."}
    Apps = {a1, a2}
    Domains = {d1, d2}
    Runtimes = {r1, r2, r3}
    Requests = {q1}
    AppOf <- MCAppOf
    DomainOf <- MCDomainOf
    Contract <- MCContract
    HttpRequests <- MCHttpRequests
    ToolCalls <- MCToolCalls
    Outcomes <- MCOutcomes
INVARIANTS
    CallsWhatWasChosen
    LoginEnforced
    FailureIsFailure
