----------------------------- MODULE RequestPath -----------------------------
(***************************************************************************)
(* What happens to one request over one lease: an HTTP request             *)
(* (httpgateway/handler.go) or a call of an MCP tool (mcp/service.go,      *)
(* compiler.go) is checked, matched against the routes of the snapshot it  *)
(* pinned, executed (executor/executor.go) through the clients of its      *)
(* runtime (runtime/multi_client.go), and whatever came of it is made into *)
(* an answer (apperr/mapper.go).  Requests run concurrently with           *)
(* publications and shutdown, which are the steps of LeasedRuntimes.       *)
(*                                                                         *)
(* The route is looked up three times: in the application's table, in the  *)
(* table that finds the client of an IDL file, and by that client among    *)
(* the routes of its file.                                                 *)
(***************************************************************************)
EXTENDS Routing, FiniteSets

CONSTANTS Apps, Domains, Runtimes, Requests,
          AppOf, DomainOf,  \* Config of a runtime
          Contract,         \* its routes
          HttpRequests,     \* [kind, domain, codes, method, path, body, user]
          ToolCalls,        \* [kind, runtime, route, args, user]: the tool was compiled
                            \* from this route of this runtime's revision
          BadValues,        \* arguments that are no path segment: "", ".", "..", with a slash
          Outcomes          \* what a generic call may come back with

ASSUME ContractsWereBuilt ==
    \A r \in Runtimes :
        /\ Buildable(Contract[r]) /\ None \notin Contract[r]
        /\ \A t \in Contract[r] : DOMAIN t.path \subseteq Nat \ {0}
ASSUME InputsAreRequests ==
    /\ None \notin Runtimes /\ AppOf \in [Runtimes -> Apps]
    /\ \A i \in HttpRequests : i.kind = "http"
    /\ \A i \in ToolCalls : i.kind = "tool" /\ i.runtime \in Runtimes /\ i.route \in Contract[i.runtime]
ASSUME OutcomesAssumption ==
    \A o \in Outcomes :
        /\ o.kind \in {"business", "error", "reply", "nonsense"}
        /\ o.kind = "business" => o.code \in Int
        /\ o.kind = "reply" => o.status \in Int

VARIABLES published, pinned, closed, open,  \* of LeasedRuntimes
          pc, input,  \* the goroutine of the request, and what it was sent
          target,     \* [runtime, route]: what was matched
          called,     \* [runtime, route]: what the generic call reached
          heard,      \* history: how the upstream really ended
          answer      \* [status, code]

leaseVars == <<published, pinned, closed, open>>
vars == <<leaseVars, pc, input, target, called, heard, answer>>

Leased == INSTANCE LeasedRuntimes WITH Leases <- Requests

Success == 0   \* "000000"
InvalidArgument == 400001
PermissionDenied == 403001
NotFound == 404001
Conflict == 409001
IdentityRequired == 401003
Internal == 500001
DependencyUnavailable == 500203

Init ==
    /\ Leased!Init
    /\ pc = [q \in Requests |-> "idle"]
    /\ input = [q \in Requests |-> None]
    /\ target = [q \in Requests |-> None]
    /\ called = [q \in Requests |-> None]
    /\ heard = [q \in Requests |-> "nothing"]
    /\ answer = [q \in Requests |-> None]

Inputs == HttpRequests \cup ToolCalls
Calls == [runtime : Runtimes, route : (UNION {Contract[r] : r \in Runtimes}) \cup {None}]

TypeOK ==
    /\ published \in [Apps -> Runtimes \cup {None}]
    /\ pinned \in [Requests -> SUBSET Runtimes]
    /\ closed \subseteq Runtimes /\ open \in BOOLEAN
    /\ pc \in [Requests -> {"idle", "leased", "chosen", "calling", "answered"}]
    /\ input \in [Requests -> Inputs \cup {None}]
    /\ target \in [Requests -> Calls \cup {None}]
    /\ called \in [Requests -> Calls \cup {None}]

Goto(q, l) == pc' = [pc EXCEPT ![q] = l]

Answers(q, status, code) ==
    /\ Goto(q, "answered")
    /\ answer' = [answer EXCEPT ![q] = [status |-> status, code |-> code]]

\* lease.Snapshot.Runtimes[a].
RuntimeOf(q, a) ==
    IF \E r \in pinned[q] : AppOf[r] = a THEN CHOOSE r \in pinned[q] : AppOf[r] = a ELSE None
-----------------------------------------------------------------------------
(* From the arrival to the choice of a route                               *)

\* Manager.Acquire: the whole snapshot is pinned, or the gateway is closing.
Arrive(q, i) ==
    /\ pc[q] = "idle"
    /\ input' = [input EXCEPT ![q] = i]
    /\ \/ /\ Leased!Pin(q)
          /\ Goto(q, "leased")
          /\ UNCHANGED answer
       \/ /\ ~open
          /\ Answers(q, 503, DependencyUnavailable)
          /\ UNCHANGED leaseVars
    /\ UNCHANGED <<target, called, heard>>

Chooses(q, r, t) ==
    /\ Goto(q, "chosen")
    /\ target' = [target EXCEPT ![q] = [runtime |-> r, route |-> t]]
    /\ UNCHANGED answer

Refuses(q, status, code) == Answers(q, status, code) /\ UNCHANGED target

AnyDomain(q, d, codes) == Len(codes) = 1 /\ RuntimeOf(q, codes[1]) # None

\* Exactly one application code, and an application of the domain of the host.
HasApp(q, d, codes) ==
    /\ Len(codes) = 1
    /\ RuntimeOf(q, codes[1]) # None
    /\ DomainOf[RuntimeOf(q, codes[1])] = d

AdmitHttp(q) ==
    /\ pc[q] = "leased" /\ input[q].kind = "http"
    /\ LET i == input[q]
           r == RuntimeOf(q, i.codes[1])
           t == Lookup(Contract[r], i.method, i.path)
           known == \E s \in pinned[q] : DomainOf[s] = i.domain
           has == known /\ HasApp(q, i.domain, i.codes)
       IN  \/ ~known /\ Refuses(q, 404, NotFound)
           \/ known /\ ~has /\ Refuses(q, 403, PermissionDenied)
           \/ has /\ t = None /\ Refuses(q, 404, NotFound)
           \/ has /\ t # None /\ i.body = "large" /\ Refuses(q, 413, InvalidArgument)
           \/ has /\ t # None /\ i.body = "broken" /\ Refuses(q, 400, InvalidArgument)
           \/ has /\ t # None /\ i.body \notin {"large", "broken"} /\ Chooses(q, r, t)
    /\ UNCHANGED <<leaseVars, input, called, heard>>

\* The segments of a pattern that are named in the OpenAPI path.
Places(p) == {j \in DOMAIN p : Generality(p[j]) > 0}

Filled(p, args) ==
    [j \in DOMAIN p |-> IF j \in Places(p) THEN args[Cardinality({k \in Places(p) : k <= j})] ELSE p[j]]

\* Binding.Request: the path of the request the arguments make, if they make one.
RequestPathOf(t, args) ==
    IF \E j \in DOMAIN args : args[j] \in BadValues THEN None ELSE Filled(t.path, args)

AnyRoute(r, t, path) == Lookup(Contract[r], t.method, path) # None

\* service.call: an argument must not make the path select another route.
StaysOnRoute(r, t, path) == Lookup(Contract[r], t.method, path) = t

\* The contract the server was compiled from is not the one that is pinned.
RefuseStaleTool(q) ==
    /\ pc[q] = "leased" /\ input[q].kind = "tool"
    /\ RuntimeOf(q, AppOf[input[q].runtime]) # input[q].runtime
    /\ Refuses(q, 503, DependencyUnavailable)
    /\ UNCHANGED <<leaseVars, input, called, heard>>

AdmitTool(q) ==
    /\ pc[q] = "leased" /\ input[q].kind = "tool"
    /\ LET i == input[q]
           r == RuntimeOf(q, AppOf[i.runtime])
           path == RequestPathOf(i.route, i.args)
       IN  /\ r = i.runtime
           /\ IF path # None /\ StaysOnRoute(r, i.route, path)
              THEN Chooses(q, r, i.route)
              ELSE Refuses(q, 400, InvalidArgument)
    /\ UNCHANGED <<leaseVars, input, called, heard>>
-----------------------------------------------------------------------------
(* The call                                                                *)

Method(i) == IF i.kind = "http" THEN i.method ELSE i.route.method
Path(i) == IF i.kind = "http" THEN i.path ELSE RequestPathOf(i.route, i.args)

\* A client for every IDL file, tried in any order.
SomeClient(r, method, path) == (CHOOSE t \in Fitting(Contract[r], method, path) : TRUE).file

\* multiClient.routes.Match: the IDL file whose client gets the call.
ClientFor(r, method, path) == Lookup(Contract[r], method, path).file

\* The client knows the routes of its own file only (external).
Reached(r, method, path) ==
    Lookup({t \in Contract[r] : t.file = ClientFor(r, method, path)}, method, path)

LoginOfHttpOnly(i, t) == i.kind = "http" /\ t.login /\ ~i.user

LacksLogin(i, t) == t.login /\ ~i.user

\* An odd body is JSON, but nothing generic.FromHTTPRequest accepts.
Execute(q) ==
    /\ pc[q] = "chosen"
    /\ LET i == input[q]
           r == target[q].runtime
           odd == i.kind = "http" /\ i.body = "odd"
       IN  \/ /\ LacksLogin(i, target[q].route)
              /\ Answers(q, 401, IdentityRequired)
              /\ UNCHANGED called
           \/ /\ ~LacksLogin(i, target[q].route) /\ odd
              /\ Answers(q, 400, InvalidArgument)
              /\ UNCHANGED called
           \/ /\ ~LacksLogin(i, target[q].route) /\ ~odd
              /\ Goto(q, "calling")
              /\ called' = [called EXCEPT ![q] = [runtime |-> r, route |-> Reached(r, Method(i), Path(i))]]
              /\ UNCHANGED answer
    /\ UNCHANGED <<leaseVars, input, target, heard>>
-----------------------------------------------------------------------------
(* The answer                                                              *)

\* Outcomes: [kind |-> "business", code]; [kind |-> "error", is], where is holds what
\* errors.Is and errors.As find in the error; [kind |-> "reply", status, body, fits];
\* [kind |-> "nonsense"], a result that is no HTTP response.

NegativeOnly(c) == c < 0 \/ c > 999999

OutOfRange(c) == c < 100000 \/ c > 999999

Within(lo, n, hi) == lo <= n /\ n <= hi

\* apperr.Map for a business error: its code names the status.
BusinessAnswer(c) ==
    LET status == c \div 1000
    IN  IF OutOfRange(c) THEN [status |-> 500, code |-> Internal]
        ELSE [status |-> IF Within(400, status, 599) THEN status ELSE 400, code |-> c]

\* What apperr.Map looks for in any other error, in this order.
ErrorTable ==
    << [found |-> "marshal", status |-> 400, code |-> InvalidArgument],
       [found |-> "protocol", status |-> 502, code |-> DependencyUnavailable],
       [found |-> "timeout", status |-> 504, code |-> DependencyUnavailable],
       [found |-> "no_instance", status |-> 503, code |-> DependencyUnavailable],
       [found |-> "payload", status |-> 400, code |-> InvalidArgument],
       [found |-> "connection", status |-> 502, code |-> DependencyUnavailable],
       [found |-> "trans_protocol", status |-> 400, code |-> InvalidArgument],
       [found |-> "net_timeout", status |-> 504, code |-> DependencyUnavailable],
       [found |-> "net", status |-> 502, code |-> DependencyUnavailable] >>

ErrorAnswer(is) ==
    LET hits == {i \in DOMAIN ErrorTable : ErrorTable[i].found \in is}
        first == CHOOSE i \in hits : \A j \in hits : i <= j
    IN  IF hits = {} THEN [status |-> 500, code |-> Internal]
        ELSE [status |-> ErrorTable[first].status, code |-> ErrorTable[first].code]

\* The HTTP status of a reply, 0 meaning that none was set.
ReplyStatus(o) == IF o.status = 0 THEN 200 ELSE o.status

HttpErrorCode(status) ==
    CASE status = 400 -> InvalidArgument [] status = 401 -> IdentityRequired
      [] status = 403 -> PermissionDenied [] status = 404 -> NotFound
      [] status = 409 -> Conflict [] status \notin {400, 401, 403, 404, 409} -> Internal

\* executor.Execute on a reply: only a 2xx with a body that can be delivered succeeds.
ReplyAnswer(o) ==
    LET status == ReplyStatus(o)
    IN  IF Within(400, status, 599) THEN [status |-> status, code |-> HttpErrorCode(status)]
        ELSE IF ~Within(200, status, 299) \/ o.body = "broken"
             THEN [status |-> 502, code |-> DependencyUnavailable]
        ELSE [status |-> IF status \in {204, 205} THEN 200 ELSE status, code |-> Success]

AnswerTo(o) ==
    CASE o.kind = "business" -> BusinessAnswer(o.code)
      [] o.kind = "error" -> ErrorAnswer(o.is)
      [] o.kind = "reply" -> ReplyAnswer(o)
      [] o.kind = "nonsense" -> [status |-> 502, code |-> DependencyUnavailable]

\* A tool's result must also fit its output schema and the size limits.
ToolAnswer(o) ==
    LET a == AnswerTo(o)
    IN  IF a.code = Success /\ o.kind = "reply" /\ ~o.fits THEN [status |-> 500, code |-> Internal] ELSE a

Reply(q, o) ==
    /\ pc[q] = "calling"
    /\ LET a == IF input[q].kind = "tool" THEN ToolAnswer(o) ELSE AnswerTo(o)
       IN  Answers(q, a.status, a.code)
    /\ heard' = [heard EXCEPT ![q] =
         IF o.kind = "reply" /\ ReplyStatus(o) \div 100 = 2 /\ o.body # "broken" THEN "success" ELSE "failure"]
    /\ UNCHANGED <<leaseVars, input, target, called>>

\* The deferred lease.Release, on every way out of the handler.
Release(q) ==
    /\ pc[q] = "answered"
    /\ Leased!Unpin(q)
    /\ Goto(q, "idle")
    /\ input' = [input EXCEPT ![q] = None]
    /\ target' = [target EXCEPT ![q] = None]
    /\ called' = [called EXCEPT ![q] = None]
    /\ heard' = [heard EXCEPT ![q] = "nothing"]
    /\ answer' = [answer EXCEPT ![q] = None]
-----------------------------------------------------------------------------
(* The control plane and the shutdown, as LeasedRuntimes sees them         *)

Surroundings ==
    /\ \/ \E a \in Apps : Leased!Replace(a, None)
       \/ \E r \in Runtimes : Leased!Replace(AppOf[r], r) \/ Leased!Close(r)
       \/ Leased!Shut
    /\ UNCHANGED <<pc, input, target, called, heard, answer>>

Next ==
    \/ \E q \in Requests :
         \/ \E i \in Inputs : Arrive(q, i)
         \/ AdmitHttp(q) \/ RefuseStaleTool(q) \/ AdmitTool(q) \/ Execute(q)
         \/ \E o \in Outcomes : Reply(q, o)
         \/ Release(q)
    \/ Surroundings

Spec == Init /\ [][Next]_vars
-----------------------------------------------------------------------------
\* The RPC that is called is the one the request chose (for a tool the one the
\* administrator granted, whatever its arguments) in an open runtime of an application
\* that answers for the request's domain, although the path is looked up again in
\* two other tables and other contracts are published meanwhile (service.go:573).
CallsWhatWasChosen ==
    \A q \in Requests : pc[q] = "calling" =>
        LET i == input[q]
            c == called[q]
        IN  /\ c.runtime \in pinned[q] \ closed
            /\ i.kind = "http" => /\ c.route = target[q].route
                                  /\ Len(i.codes) = 1 /\ i.codes[1] = AppOf[c.runtime]
                                  /\ i.domain = DomainOf[c.runtime]
            /\ i.kind = "tool" => c = [runtime |-> i.runtime, route |-> i.route]

\* No RPC whose contract requires a login is called for a request without a user,
\* on either way in (executor.go:48, README.md:172).
LoginEnforced ==
    \A q \in Requests : pc[q] = "calling" /\ called[q].route.login => input[q].user

\* What the upstream could not do is never reported as done, nor the other way
\* round: the code 000000, a 2xx status and a success upstream go together, for
\* every status and business code a service may invent (mapper.go:23,
\* executor.go:75).
FailureIsFailure ==
    \A q \in Requests : pc[q] = "answered" =>
        /\ (answer[q].code = Success) = (answer[q].status \in 200 .. 299)
        /\ Within(200, answer[q].status, 599)
        /\ answer[q].code = Success => heard[q] = "success"
        /\ heard[q] = "success" /\ input[q].kind = "http" => answer[q].code = Success
-----------------------------------------------------------------------------
(* Why they hold: the inductive invariant                                  *)

\* What a request holds is open, and so is what the next one would get.
LeaseInv ==
    /\ \A q \in Requests : pinned[q] \cap closed = {}
    /\ open => \A a \in Apps : published[a] \notin closed

AskedInv == \A q \in Requests : pc[q] # "idle" => input[q] \in Inputs

\* What was matched is what a look into the runtime's table finds, and belongs to
\* whom the request is for.
ChosenInv ==
    \A q \in Requests : pc[q] \in {"chosen", "calling"} =>
        LET i == input[q]
            r == target[q].runtime
            t == target[q].route
        IN  /\ r \in pinned[q]
            /\ t # None /\ t = Lookup(Contract[r], Method(i), Path(i))
            /\ i.kind = "http" => Len(i.codes) = 1 /\ i.codes[1] = AppOf[r] /\ i.domain = DomainOf[r]
            /\ i.kind = "tool" => r = i.runtime /\ t = i.route

CalledInv ==
    \A q \in Requests : pc[q] = "calling" =>
        /\ called[q] = [runtime |-> target[q].runtime, route |-> target[q].route]
        /\ ~LacksLogin(input[q], target[q].route)

IInv == TypeOK /\ LeaseInv /\ AskedInv /\ ChosenInv /\ CalledInv

\* Nothing is heard of an upstream before the answer, which is a number and a code.
HeardInv ==
    /\ heard \in [Requests -> {"nothing", "success", "failure"}]
    /\ answer \in [Requests -> [status : Int, code : Int] \cup {None}]
    /\ \A q \in Requests : pc[q] # "answered" => heard[q] = "nothing"
=============================================================================
