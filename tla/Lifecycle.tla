------------------------------ MODULE Lifecycle ------------------------------
(***************************************************************************)
(* internal/app/app.go: App.Run from the initial list to the exit, with    *)
(* the servers it starts and shuts down, the requests they have accepted,  *)
(* an administrative operation that holds Manager.publishMu across its     *)
(* durable write, and the Manager as LeasedRuntimes describes it.          *)
(*                                                                         *)
(* The data and the admin server are Hertz servers: Shutdown of one that   *)
(* is not running yet fails at once and does not keep it from coming up.   *)
(* The MCP server is a net/http server, which it does.  All three stop     *)
(* accepting first and then wait for what they accepted (external).        *)
(***************************************************************************)
EXTENDS Integers, FiniteSets

CONSTANTS Apps, Runtimes, Requests, None,
          Configurations,            \* the servers a configuration may ask for
          MaxFailures                \* bound on servers that fail by themselves

VARIABLES
    published, pinned, closed, open,  \* of LeasedRuntimes
    built,      \* runtimes that were published so far
    enabled,    \* the servers this configuration asks for
    main,       \* where App.Run is
    asked,      \* the signal has come: ctx is done
    stopping,   \* Service.stopping, which also ends the operations' contexts
    cancelled,  \* the context of Watch and of the MCP refresh is over
    expired,    \* the deadline of the shutdown is over
    err,        \* e # nil
    left,       \* iterations left of the loop that collects the results
    server,     \* server[s]: what it is doing
    done,       \* servers whose Run returned, unread in channel done
    result,     \* result[s]: what its Shutdown returned, unread in channel shutdown
    request,    \* request[q]: [at, st], the server that accepted q and how far it is
    undrained,  \* history: servers whose Shutdown found them not running
    failures

leaseVars == <<published, pinned, closed, open>>
mainVars == <<main, asked, stopping, cancelled, expired, err, left>>
serverVars == <<enabled, server, done, result, undrained, failures>>
vars == <<leaseVars, built, mainVars, serverVars, request>>

Leased == INSTANCE LeasedRuntimes WITH Leases <- Requests

Servers == {"data", "admin", "mcp"}
Hertz == {"data", "admin"}

ASSUME DataIsServed == \A c \in Configurations : "data" \in c /\ c \subseteq Servers

Nowhere == [at |-> None, st |-> "idle"]

ASSUME BoundAssumption == MaxFailures \in Nat

\* Nobody listens nowhere.
ASSUME NowhereAssumption == None \notin Servers

TypeOK ==
    /\ open \in BOOLEAN
    /\ built \subseteq Runtimes
    /\ enabled \in Configurations
    /\ main \in {"list", "reconcile", "serving", "draining", "closing", "waiting", "ended"}
    /\ {asked, stopping, cancelled, expired, err} \subseteq BOOLEAN
    /\ left \in 0 .. 3
    /\ server \in [Servers -> {"off", "starting", "running", "draining", "down"}]
    /\ done \subseteq Servers
    /\ result \in [Servers -> {"none", "pending", "ok", "error", "read"}]
    /\ request \in [Requests -> [at : Servers \cup {None},
                                 st : {"idle", "accepted", "leased", "writing", "refused"}]]
    /\ undrained \subseteq Servers
    /\ failures \in 0 .. MaxFailures

Init ==
    /\ Leased!Init
    /\ built = {}
    /\ enabled \in Configurations
    /\ main = "list"
    /\ asked = FALSE /\ stopping = FALSE /\ cancelled = FALSE /\ expired = FALSE /\ err = FALSE
    /\ left = 0
    /\ server = [s \in Servers |-> "off"]
    /\ done = {}
    /\ result = [s \in Servers |-> "none"]
    /\ request = [q \in Requests |-> Nowhere]
    /\ undrained = {}
    /\ failures = 0

Alive == main # "ended"
-----------------------------------------------------------------------------
(* Start                                                                   *)

\* SIGTERM or SIGINT, at any time before it makes no more difference.
Ask ==
    /\ main \in {"list", "reconcile", "serving"} /\ ~asked
    /\ asked' = TRUE
    /\ UNCHANGED <<leaseVars, built, main, stopping, cancelled, expired, err, left, serverVars, request>>

\* Consul does not answer within two minutes, or the signal came first.
ListFails ==
    /\ main = "list"
    /\ main' = "ended"
    /\ err' = TRUE
    /\ Leased!Shut
    /\ UNCHANGED <<built, asked, stopping, cancelled, expired, left, serverVars, request>>

ListSucceeds ==
    /\ main = "list" /\ ~asked
    /\ main' = "reconcile"
    /\ UNCHANGED <<leaseVars, built, asked, stopping, cancelled, expired, err, left, serverVars, request>>

\* A runtime is published: by the initial reconciliation, by Watch later on.
Reconcile(a, r) ==
    /\ main # "list" /\ Alive /\ ~cancelled
    /\ r \notin built
    /\ Leased!Replace(a, r)
    /\ built' = built \cup {r}
    /\ UNCHANGED <<mainVars, serverVars, request>>

\* Mcp.Start has opened its listener when it returns; the others are goroutines.
Serve ==
    /\ main = "reconcile"
    /\ main' = "serving"
    /\ server' = [s \in Servers |-> IF s \notin enabled THEN "off" ELSE IF s = "mcp" THEN "running" ELSE "starting"]
    /\ UNCHANGED <<leaseVars, built, enabled, asked, stopping, cancelled, expired, err, left,
                   done, result, undrained, failures, request>>

ComesUp(s) ==
    /\ Alive /\ server[s] = "starting"
    /\ server' = [server EXCEPT ![s] = "running"]
    /\ UNCHANGED <<leaseVars, built, enabled, mainVars, done, result, undrained, failures, request>>

\* The port is taken, or the listener fails.  Only a Hertz server ends the process.
Breaks(s) ==
    /\ Alive /\ server[s] \in {"starting", "running"}
    /\ failures < MaxFailures
    /\ failures' = failures + 1
    /\ server' = [server EXCEPT ![s] = "down"]
    /\ done' = done \cup ({s} \cap Hertz)
    /\ UNCHANGED <<leaseVars, built, enabled, mainVars, result, undrained, request>>
-----------------------------------------------------------------------------
(* Shutdown                                                                *)

FirstTwoResults == 2

\* One result per server.
Results == Cardinality(Servers)

\* The select: whichever is ready, and the error only if it was chosen.
Stop ==
    /\ main = "serving"
    /\ \/ asked /\ UNCHANGED <<err, done>>
       \/ \E s \in done : err' = TRUE /\ done' = done \ {s}
    /\ main' = "draining"
    /\ stopping' = TRUE
    /\ left' = Results
    /\ result' = [s \in Servers |-> IF s = "admin" /\ s \notin enabled THEN "ok" ELSE "pending"]
    /\ UNCHANGED <<leaseVars, built, enabled, asked, cancelled, expired, server, undrained, failures, request>>

\* 25 seconds after Stop.
Expire ==
    /\ main \in {"draining", "closing", "waiting"} /\ ~expired
    /\ expired' = TRUE
    /\ UNCHANGED <<leaseVars, built, main, asked, stopping, cancelled, err, left, serverVars, request>>

Returns(s, e) == result' = [result EXCEPT ![s] = e]

\* The goroutine that runs Shutdown of server s.
ShutdownBegins(s) ==
    /\ Alive /\ result[s] = "pending" /\ server[s] # "draining"
    /\ \/ /\ s \in Hertz /\ server[s] # "running"
          /\ Returns(s, "error")
          /\ undrained' = undrained \cup {s}
          /\ UNCHANGED server
       \/ /\ s \notin Hertz \/ server[s] = "running"
          /\ server' = [server EXCEPT ![s] = "draining"]
          /\ UNCHANGED <<result, undrained>>
    /\ UNCHANGED <<leaseVars, built, enabled, mainVars, done, failures, request>>

Idle(s) == \A q \in Requests : request[q].at # s

\* It ends when the server is idle or the deadline is over.  Hertz reports a
\* shutdown that was cut off as a success (external).
ShutdownEnds(s) ==
    /\ Alive /\ result[s] = "pending" /\ server[s] = "draining"
    /\ \/ Idle(s) /\ Returns(s, "ok")
       \/ expired /\ s \in Hertz /\ Returns(s, "ok")
       \/ expired /\ s \notin Hertz /\ Returns(s, "error")
    /\ server' = [server EXCEPT ![s] = "down"]
    /\ UNCHANGED <<leaseVars, built, enabled, mainVars, done, undrained, failures, request>>

\* One iteration of the loop: a result or, again and again, the deadline.
Collect ==
    /\ main = "draining" /\ left > 0
    /\ left' = left - 1
    /\ \/ \E s \in Servers :
            /\ result[s] \in {"ok", "error"}
            /\ err' = (err \/ result[s] = "error")
            /\ Returns(s, "read")
       \/ expired /\ err' = TRUE /\ UNCHANGED result
    /\ UNCHANGED <<leaseVars, built, enabled, main, asked, stopping, cancelled, expired,
                   server, done, undrained, failures, request>>

Cancel ==
    /\ main = "draining" /\ left = 0
    /\ main' = "closing"
    /\ cancelled' = TRUE
    /\ UNCHANGED <<leaseVars, built, asked, stopping, expired, err, left, serverVars, request>>

PublishMuFree == \A q \in Requests : request[q].st # "writing"

\* Manager.Close: it waits for publishMu whatever the deadline says.
Close ==
    /\ main = "closing" /\ PublishMuFree
    /\ main' = "waiting"
    /\ Leased!Shut
    /\ UNCHANGED <<built, asked, stopping, cancelled, expired, err, left, serverVars, request>>

Drained == built \subseteq closed /\ \A q \in Requests : request[q].st # "leased"

IgnoresDeadline(e) == (Drained \/ expired) /\ e = err

WaitsForever(e) == Drained /\ e = err

\* The channel drained or the deadline, whichever is ready.
CloseReturns(e) == (Drained /\ e = err) \/ (expired /\ e)

Exit ==
    /\ main = "waiting"
    /\ \E e \in BOOLEAN : CloseReturns(e) /\ err' = e
    /\ main' = "ended"
    /\ UNCHANGED <<leaseVars, built, asked, stopping, cancelled, expired, left, serverVars, request>>
-----------------------------------------------------------------------------
(* Requests                                                                *)

At(q, st) == request' = [request EXCEPT ![q].st = st]

Accept(q, s) ==
    /\ Alive /\ server[s] = "running" /\ request[q] = Nowhere
    /\ request' = [request EXCEPT ![q] = [at |-> s, st |-> "accepted"]]
    /\ UNCHANGED <<leaseVars, built, mainVars, serverVars>>

\* Manager.Acquire of a data or MCP request.
Acquire(q) ==
    /\ Alive /\ request[q].st = "accepted" /\ request[q].at # "admin"
    /\ \/ Leased!Pin(q) /\ At(q, "leased")
       \/ ~open /\ At(q, "refused") /\ UNCHANGED leaseVars
    /\ UNCHANGED <<built, mainVars, serverVars>>

\* An administrative operation reaches Publish and writes to Consul under publishMu.
Write(q) ==
    /\ Alive /\ request[q] = [at |-> "admin", st |-> "accepted"]
    /\ \/ ~stopping /\ open /\ PublishMuFree /\ At(q, "writing")
       \/ stopping /\ At(q, "refused")
    /\ UNCHANGED <<leaseVars, built, mainVars, serverVars>>

\* The write ends, at the latest when its context is cancelled.
Written(q) ==
    /\ Alive /\ request[q].st = "writing"
    /\ request' = [request EXCEPT ![q] = Nowhere]
    /\ UNCHANGED <<leaseVars, built, mainVars, serverVars>>

Respond(q) ==
    /\ Alive /\ request[q].st \in {"leased", "refused"}
    /\ Leased!Unpin(q)
    /\ request' = [request EXCEPT ![q] = Nowhere]
    /\ UNCHANGED <<built, mainVars, serverVars>>

\* Whoever drops the last reference, or Manager.Close, closes a runtime.
Dispose(r) ==
    /\ Alive /\ r \in built \ closed
    /\ Leased!Close(r)
    /\ UNCHANGED <<built, mainVars, serverVars, request>>

Ended == main = "ended" /\ UNCHANGED vars
-----------------------------------------------------------------------------
Main == ListFails \/ ListSucceeds \/ Serve \/ Stop \/ Collect \/ Cancel \/ Close \/ Exit

Next ==
    \/ Ask \/ Main \/ Expire \/ Ended
    \/ \E a \in Apps, r \in Runtimes : Reconcile(a, r)
    \/ \E r \in Runtimes : Dispose(r)
    \/ \E s \in Servers : ComesUp(s) \/ Breaks(s) \/ ShutdownBegins(s) \/ ShutdownEnds(s)
    \/ \E q \in Requests :
         \/ \E s \in Servers : Accept(q, s)
         \/ Acquire(q) \/ Write(q) \/ Written(q) \/ Respond(q)

Spec == Init /\ [][Next]_vars

(***************************************************************************)
(* The main goroutine and those it starts run, the deadline comes, and a   *)
(* write ends once its context is cancelled, which Stop does.  A request   *)
(* that holds a lease may take as long as its application allows.          *)
(***************************************************************************)
Fairness ==
    /\ WF_vars(Main) /\ WF_vars(Expire)
    /\ \A s \in Servers : WF_vars(ShutdownBegins(s) \/ ShutdownEnds(s))
    /\ \A q \in Requests : WF_vars(stopping /\ Written(q))
    /\ \A r \in Runtimes : WF_vars(Dispose(r))

FairSpec == Spec /\ Fairness
-----------------------------------------------------------------------------
\* Asked to stop, the process ends, however many requests never do and whatever
\* the servers and an operation in the middle of its write are doing (app.go:51,
\* docs/xuandu-v1-development-design.md:74).
EndsOnceAsked == asked ~> main = "ended"

\* Exit code 0 says that no Shutdown failed and every server is off, the background
\* work was told to end, nobody holds a lease or is writing and every client is closed.
\* It does not say that every request was answered: Hertz reports a shutdown that the
\* deadline cut off as a success.  So after the deadline, and only then, a request of
\* a Hertz server may have been cut off unseen, but none of the MCP server.
CleanExitIsClean ==
    main = "ended" /\ ~err =>
        /\ cancelled /\ undrained = {}
        /\ \A s \in Servers : server[s] \in {"off", "down"}
        /\ \A q \in Requests : request[q].st \notin {"leased", "writing"}
        /\ \A q \in Requests : request[q].at # None => expired /\ request[q].at \in Hertz
        /\ built \subseteq closed

\* The gateway goes on serving what it has accepted: a request is turned away for
\* shutting down only after the deadline, or by a server that came up or broke
\* down around the shutdown itself.
AcceptedIsServed ==
    \A q \in Requests : request[q].st = "refused" /\ request[q].at # "admin" =>
        expired \/ request[q].at \in undrained
-----------------------------------------------------------------------------
(* Why: the inductive invariant                                            *)

\* The results the loop of Stop has not read.
Unread == {s \in Servers : result[s] # "read"}

\* Shutdown of server s has returned.
Returned(s) == result[s] \in {"ok", "error", "read"}

\* Before the servers are started nobody is there to be served.
StartInv ==
    /\ main \in {"list", "reconcile"} =>
           /\ server = [s \in Servers |-> "off"]
           /\ request = [q \in Requests |-> Nowhere]
    /\ main \in {"list", "reconcile", "serving"} => result = [s \in Servers |-> "none"]

RequestInv ==
    /\ \A q \in Requests : request[q].st # "idle" => request[q].at \in Servers
    /\ \A s \in Servers : server[s] = "off" => Idle(s)

\* A Shutdown that returned left its server off for good, or had found it not
\* running; only the deadline lets it return before the server is idle, and the
\* MCP server then says so.
ResultInv(s) ==
    /\ Returned(s) /\ s \notin undrained => server[s] \in {"off", "down"} /\ (expired \/ Idle(s))
    /\ s \notin Hertz =>
           /\ s \notin undrained
           /\ result[s] = "ok" \/ (result[s] = "read" /\ ~err) => Idle(s)
    /\ s \in undrained => result[s] = "error" \/ (result[s] = "read" /\ err)
    /\ s = "admin" /\ s \notin enabled => server[s] = "off" /\ result[s] # "pending"

\* Unless the deadline cuts the loop short, which is an error, it reads all three.
CollectInv ==
    /\ main = "draining" /\ ~(err /\ expired) => left = Cardinality(Unread)
    /\ main \in {"closing", "waiting"} /\ ~(err /\ expired) => Unread = {}
    /\ main = "ended" /\ ~err => Unread = {}

CloseInv ==
    /\ main \in {"closing", "waiting"} \/ (main = "ended" /\ ~err) => cancelled
    /\ ~open => main \in {"waiting", "ended"}
    /\ main = "waiting" \/ (main = "ended" /\ ~err) => ~open /\ PublishMuFree

IInv ==
    /\ TypeOK /\ StartInv /\ RequestInv /\ CollectInv /\ CloseInv
    /\ \A s \in Servers : ResultInv(s)
    /\ CleanExitIsClean /\ AcceptedIsServed
=============================================================================
