----------------------------- MODULE ControlPlane -----------------------------
(***************************************************************************)
(* internal/admin/service.go over internal/metadata/consul_store.go: the   *)
(* replicas of the gateway create, update and delete applications in       *)
(* Consul, and reconcile their local runtimes with what Consul holds.      *)
(*                                                                         *)
(* Consul is the log of committed catalogs; a position in it is a raft     *)
(* index.  One action per Consul request and per local step between two of *)
(* them; Service.mu makes one replica execute one of its jobs at a time.   *)
(* Requests may fail with or without having taken effect, also later, and  *)
(* a replica may be stopped or crash anywhere.                             *)
(*                                                                         *)
(* An application's record is what reconciliation compares: its domain,    *)
(* whether it is enabled, and its contract; service name and timeout       *)
(* behave like the domain of an update does and are left out.  PutContract *)
(* and GetContract are atomic (see ContractStore), so is the local Publish *)
(* (see SnapshotManager).                                                  *)
(***************************************************************************)
EXTENDS Integers, Sequences

CONSTANTS Apps, Replicas, Domains,
          Revs,        \* contract digests
          Buildable,   \* those whose archive loads and builds
          Legacy,      \* the revision of a record imported from git
          None,        \* no record, no runtime, no domain, a request's absent field
          Requests,    \* bodies of create and update requests
          InitialApps, \* the applications there may be before the first replica starts
          MaxOps,      \* bound on administrative operations
          MaxFaults    \* bound on failed requests, stops and crashes

Records == [domain : Domains \cup {None}, enabled : BOOLEAN, rev : Revs \cup {Legacy}]

ASSUME BuildableAssumption == Buildable \subseteq Revs
ASSUME NoneAssumption == None \notin Records \cup Domains \cup Revs \cup {Legacy} \cup BOOLEAN
ASSUME NoCallAssumption ==
    None \notin [id : 1 .. MaxOps, op : {"create", "update", "delete"},
                 app : Apps, req : Requests \cup {None}]
ASSUME LegacyAssumption == Legacy \notin Revs
ASSUME RequestsAssumption ==
    Requests \subseteq [domain : Domains \cup {None}, enabled : BOOLEAN \cup {None},
                        idl : Revs \cup {None}]
ASSUME InitialAssumption == InitialApps \subseteq [Apps -> Records \cup {None}]
ASSUME BoundsAssumption == MaxOps \in Nat /\ MaxFaults \in Nat

VARIABLES
    log,        \* committed catalogs: records, their ModifyIndexes, the _catalog marker
    contracts,  \* contracts stored completely
    inflight,   \* transactions given up by their sender that Consul may still apply
    pc, job,    \* what each replica is doing under Service.mu, and its locals
    seen,       \* position of the list the replica last reconciled with
    todo,       \* applications this reconciliation has not come to yet
    wake,       \* position of the list Watch woke up with, 0 when it is waiting
    running,    \* running[r][a]: the Config of a's runtime, or None
    ver,        \* ver[r][a]: the latest position known to hold that Config
    status,     \* Service.status
    loaded, stopping,
    answer,     \* what the replica's last administrative operation was answered
    ops, faults

store == <<log, contracts, inflight>>
local == <<running, ver, status>>
flags == <<loaded, stopping>>
vars == <<store, pc, job, seen, todo, wake, local, flags, answer, ops, faults>>

NoJob == [op |-> "none", id |-> 0, app |-> None, req |-> None, orig |-> None, want |-> None,
          base |-> 0, fence |-> 0, pos |-> 0]
NoStatus == [st |-> "none", cur |-> None]

Catalogs == [app : [Apps -> Records \cup {None}], mod : [Apps -> Nat], mark : Nat, val : Nat]
Statuses == [st : {"none", "ready", "disabled", "degraded", "unconfigured"},
             cur : Revs \cup {Legacy, None}]
Jobs == [op : {"none", "boot", "watch", "create", "update", "delete"}, id : 0 .. MaxOps,
         app : Apps \cup {None}, req : Requests \cup {None},
         orig : Records \cup {None}, want : Records \cup {None},
         base : Nat, fence : Nat, pos : Nat]

TypeOK ==
    /\ log \in Seq(Catalogs)
    /\ contracts \subseteq Revs
    /\ inflight \subseteq Jobs
    /\ pc \in [Replicas -> {"idle", "list", "apply", "get", "make", "put", "catalog", "commit", "swap"}]
    /\ job \in [Replicas -> Jobs]
    /\ seen \in [Replicas -> Nat]
    /\ todo \in [Replicas -> SUBSET Apps]
    /\ wake \in [Replicas -> Nat]
    /\ running \in [Replicas -> [Apps -> Records \cup {None}]]
    /\ ver \in [Replicas -> [Apps -> Nat]]
    /\ status \in [Replicas -> [Apps -> Statuses]]
    /\ loaded \in [Replicas -> BOOLEAN]
    /\ stopping \in [Replicas -> BOOLEAN]
    /\ answer \in [Replicas -> {"none", "ok", "same", "error"}]
    /\ ops \in 0 .. MaxOps
    /\ faults \in 0 .. MaxFaults

Tip == log[Len(log)]
Boot == [NoJob EXCEPT !.op = "boot"]

Init ==
    /\ \E s \in InitialApps, mark \in {0, 1} :
         /\ log = <<[app |-> s, mark |-> mark, val |-> mark,
                     mod |-> [a \in Apps |-> IF s[a] = None THEN 0 ELSE 1]]>>
         /\ contracts = {s[a].rev : a \in {b \in Apps : s[b] # None}} \cap Revs
    /\ inflight = {}
    /\ pc = [r \in Replicas |-> "list"]
    /\ job = [r \in Replicas |-> Boot]
    /\ seen = [r \in Replicas |-> 0]
    /\ todo = [r \in Replicas |-> {}]
    /\ wake = [r \in Replicas |-> 0]
    /\ running = [r \in Replicas |-> [a \in Apps |-> None]]
    /\ ver = [r \in Replicas |-> [a \in Apps |-> 0]]
    /\ status = [r \in Replicas |-> [a \in Apps |-> NoStatus]]
    /\ loaded = [r \in Replicas |-> FALSE]
    /\ stopping = [r \in Replicas |-> FALSE]
    /\ answer = [r \in Replicas |-> "none"]
    /\ ops = 0 /\ faults = 0
-----------------------------------------------------------------------------
(* Helpers                                                                 *)

\* A request of r fails; once r is stopping its lifetime context fails them all.
Fault(r) ==
    \/ faults < MaxFaults /\ faults' = faults + 1
    \/ stopping[r] /\ UNCHANGED faults

Goto(r, p) == pc' = [pc EXCEPT ![r] = p]

\* The handler returns and releases Service.mu.
Ends(r, how) ==
    /\ Goto(r, "idle")
    /\ job' = [job EXCEPT ![r] = NoJob]
    /\ answer' = [answer EXCEPT ![r] = IF job[r].op \in {"boot", "watch"} THEN @ ELSE how]

RecordedPending(c, runtime, failed) ==
    [st |-> IF failed THEN "unconfigured" ELSE IF c.enabled THEN "ready" ELSE "disabled",
     cur |-> IF runtime = None THEN None ELSE runtime.rev]

\* record(a, e): the status of a given its runtime at that moment.
Recorded(c, runtime, failed) ==
    [st |-> IF failed
            THEN IF c.rev # Legacy /\ c.domain = None THEN "unconfigured" ELSE "degraded"
            ELSE IF c.enabled THEN "ready" ELSE "disabled",
     cur |-> IF runtime = None THEN None ELSE runtime.rev]

\* A deferred record() in a failed update; create and delete record nothing.
FailureRecorded(r) ==
    LET a == job[r].app
    IN  status' = IF job[r].op = "update"
                  THEN [status EXCEPT ![r][a] = Recorded(job[r].want, running[r][a], TRUE)]
                  ELSE status

Or(x, y) == IF x = None THEN y ELSE x

\* The record a create or update request asks for, given the stored one.
Patched(c, q) == [domain |-> Or(q.domain, c.domain), enabled |-> Or(q.enabled, c.enabled),
                  rev |-> Or(q.idl, c.rev)]
\* A new record is enabled unless the request says otherwise.
Created(q) == [domain |-> q.domain, enabled |-> Or(q.enabled, TRUE), rev |-> q.idl]

\* App.Validate: a domain, and a contract digest or a ZIP to take one from.
Validates(c) == c.domain # None /\ c.rev # Legacy

\* GetContract, LoadArchive and Builder.Build of a stored record succeed.
Builds(c) == c.rev \in contracts \cap Buildable /\ Validates(c)
-----------------------------------------------------------------------------
(* Beginning a job                                                         *)

Begin(r, o, a, q) ==
    /\ pc[r] = "idle" /\ ~stopping[r]
    /\ ops < MaxOps
    /\ ops' = ops + 1
    /\ job' = [job EXCEPT ![r] = [NoJob EXCEPT !.op = o, !.id = ops', !.app = a, !.req = q]]
    /\ answer' = [answer EXCEPT ![r] = "none"]
    /\ UNCHANGED <<store, seen, todo, wake, local, flags, faults>>

\* A create request must name a domain and a ZIP.
CreateBegin(r, a, q) ==
    /\ q.domain # None /\ q.idl # None
    /\ Begin(r, "create", a, q)
    /\ Goto(r, "list")

UpdateBegin(r, a, q) == Begin(r, "update", a, q) /\ Goto(r, "list")

DeleteBegin(r, a) == Begin(r, "delete", a, None) /\ Goto(r, "get")

\* The blocking list of Watch returns, with a change or after WaitTime.
Wake(r) ==
    /\ loaded[r] /\ wake[r] = 0
    /\ wake' = [wake EXCEPT ![r] = Len(log)]
    /\ UNCHANGED <<store, pc, job, seen, todo, local, flags, answer, ops, faults>>

\* Its handler gets Service.mu.
WatchBegin(r) ==
    /\ pc[r] = "idle" /\ wake[r] # 0
    /\ Goto(r, "list")
    /\ job' = [job EXCEPT ![r] = [NoJob EXCEPT !.op = "watch"]]
    /\ UNCHANGED <<store, seen, todo, wake, local, flags, answer, ops, faults>>
-----------------------------------------------------------------------------
(* Reconciliation                                                          *)

WatchedList(r) == IF job[r].op = "watch" THEN wake[r] ELSE Len(log)

\* The catalog to reconcile with: a consistent list, not the one Watch woke up with.
Listed(r) == Len(log)

OnlyRemoved(runtime, c) == c = None

\* First loop: the record no longer supports the running identity.
Revoked(runtime, c) == c = None \/ ~c.enabled \/ c.domain # runtime.domain

\* List and the first loop.
List(r) ==
    /\ pc[r] = "list" /\ ~stopping[r]
    /\ LET apps == log[Listed(r)].app
       IN  /\ todo' = [todo EXCEPT ![r] = {a \in Apps : apps[a] # None}]
           /\ running' = [running EXCEPT ![r] =
                [a \in Apps |-> IF @[a] # None /\ Revoked(@[a], apps[a]) THEN None ELSE @[a]]]
    /\ seen' = [seen EXCEPT ![r] = Listed(r)]
    /\ wake' = [wake EXCEPT ![r] = IF job[r].op = "watch" THEN 0 ELSE @]
    /\ Goto(r, "apply")
    /\ UNCHANGED <<store, job, ver, status, flags, answer, ops, faults>>

\* Also when stopping: reconcileLocked returns at once, and nothing can follow.
ListFails(r) ==
    /\ pc[r] = "list" /\ job[r].op # "boot"
    /\ Fault(r)
    /\ wake' = [wake EXCEPT ![r] = IF job[r].op = "watch" THEN 0 ELSE @]
    /\ Ends(r, "error")
    /\ UNCHANGED <<store, seen, todo, local, flags, ops>>

SameIdentity(runtime, c) == runtime # None /\ runtime.domain = c.domain /\ runtime.enabled = c.enabled

\* same(current.Config, a).
Current(runtime, c) == runtime = c

TakenDown(runtime) == None

\* What keeps running when the new record cannot be built: last known good.
Kept(runtime) == runtime

\* Second loop, one application.
Apply(r, a) ==
    /\ pc[r] = "apply" /\ a \in todo[r]
    /\ todo' = [todo EXCEPT ![r] = @ \ {a}]
    /\ LET c == log[seen[r]].app[a]
           Becomes(runtime, failed) ==
              /\ running' = [running EXCEPT ![r][a] = runtime]
              /\ status' = [status EXCEPT ![r][a] = Recorded(c, runtime, failed)]
       IN  \/ /\ ~c.enabled
              /\ Becomes(None, FALSE)
              /\ UNCHANGED <<ver, faults>>
           \/ /\ c.enabled /\ Current(running[r][a], c)
              /\ ver' = [ver EXCEPT ![r][a] = seen[r]]
              /\ UNCHANGED <<running, status, faults>>
           \/ /\ c.enabled /\ ~Current(running[r][a], c) /\ Builds(c)
              /\ Becomes(c, FALSE)
              /\ ver' = [ver EXCEPT ![r][a] = seen[r]]
              /\ UNCHANGED faults
           \/ /\ c.enabled /\ ~Current(running[r][a], c)
              /\ IF Builds(c) THEN Fault(r) ELSE UNCHANGED faults
              /\ Becomes(Kept(running[r][a]), TRUE)
              /\ UNCHANGED ver
    /\ UNCHANGED <<store, pc, job, seen, wake, flags, answer, ops>>

NotChecked(r, apps) == TRUE

\* refresh: every other application runs here exactly as recorded.
Converged(r, apps) ==
    \A a \in Apps \ (IF job[r].op = "update" THEN {job[r].app} ELSE {}) :
        apps[a] # None /\ Validates(apps[a]) /\ apps[a].enabled => Current(running[r][a], apps[a])

\* Third loop, stale statuses, loaded; then create and update go on.
Sweep(r) ==
    /\ pc[r] = "apply" /\ todo[r] = {}
    /\ LET apps == log[seen[r]].app
           gone == {a \in Apps : apps[a] = None}
       IN  /\ running' = [running EXCEPT ![r] = [a \in Apps |-> IF a \in gone THEN None ELSE @[a]]]
           /\ status' = [status EXCEPT ![r] = [a \in Apps |-> IF a \in gone THEN NoStatus ELSE @[a]]]
           /\ IF job[r].op \in {"create", "update"} /\ Converged(r, apps)
              THEN /\ Goto(r, "get")
                   /\ job' = [job EXCEPT ![r].fence = log[seen[r]].mark]
                   /\ UNCHANGED answer
              ELSE Ends(r, "error")
    /\ loaded' = [loaded EXCEPT ![r] = TRUE]
    /\ UNCHANGED <<store, seen, todo, wake, ver, stopping, ops, faults>>
-----------------------------------------------------------------------------
(* Create, update and delete                                               *)

\* Store.Get of the target, and what can be refused from the answer.
Get(r) ==
    /\ pc[r] = "get"
    /\ LET j == job[r]
           c == Tip.app[j.app]
           want == IF j.op = "create" THEN Created(j.req) ELSE Patched(c, j.req)
       IN  \/ /\ j.op = "create" /\ c = None
              /\ job' = [job EXCEPT ![r].want = want]
              /\ Goto(r, "make") /\ UNCHANGED answer
           \/ /\ j.op = "update" /\ c # None /\ Validates(want)
              /\ job' = [job EXCEPT ![r].want = want, ![r].orig = c, ![r].base = Tip.mod[j.app]]
              /\ Goto(r, "make") /\ UNCHANGED answer
           \/ /\ j.op = "delete" /\ c # None
              /\ job' = [job EXCEPT ![r].base = Tip.mod[j.app]]
              /\ Goto(r, "catalog") /\ UNCHANGED answer
           \/ /\ \/ (c = None) # (j.op = "create")
                 \/ j.op = "update" /\ c # None /\ ~Validates(want)
              /\ Ends(r, "error")
    /\ UNCHANGED <<store, seen, todo, wake, local, flags, ops, faults>>

GetFails(r) ==
    /\ pc[r] \in {"get", "catalog"}
    /\ Fault(r)
    /\ Ends(r, "error")
    /\ UNCHANGED <<store, seen, todo, wake, local, flags, ops>>

\* Nothing to write: the same contract and configuration, already in effect here.
Unchanged(r) ==
    /\ job[r].op = "update" /\ job[r].want = job[r].orig
    /\ running[r][job[r].app] # None \/ ~job[r].want.enabled

\* Resolve or GetContract, the early return, LoadArchive and Build.
Make(r) ==
    /\ pc[r] = "make"
    /\ LET j == job[r]
           a == j.app
           fetched == j.req.idl # None \/ j.want.rev \in contracts
       IN  \/ /\ fetched /\ Unchanged(r)
              /\ status' = [status EXCEPT ![r][a] = Recorded(j.want, running[r][a], FALSE)]
              /\ Ends(r, "same") /\ UNCHANGED faults
           \/ /\ fetched /\ ~Unchanged(r) /\ j.want.rev \in Buildable
              /\ Goto(r, IF j.req.idl # None THEN "put" ELSE "commit")
              /\ UNCHANGED <<job, answer, status, faults>>
           \/ /\ IF fetched /\ (Unchanged(r) \/ j.want.rev \in Buildable)
                 THEN Fault(r) ELSE UNCHANGED faults
              /\ FailureRecorded(r)
              /\ Ends(r, "error")
    /\ UNCHANGED <<store, seen, todo, wake, running, ver, flags, ops>>

NotStored(v) == contracts

\* PutContract returned nil.
Stored(v) == contracts \cup {v}

Put(r) ==
    /\ pc[r] = "put"
    /\ \/ /\ contracts' = Stored(job[r].want.rev)
          /\ Goto(r, "commit")
          /\ UNCHANGED <<job, answer, status, faults>>
       \/ /\ contracts' \in {contracts, Stored(job[r].want.rev)}
          /\ Fault(r)
          /\ FailureRecorded(r)
          /\ Ends(r, "error")
    /\ UNCHANGED <<log, inflight, seen, todo, wake, running, ver, flags, ops>>

\* Delete lists the catalog again for its fence.
DeleteCatalog(r) ==
    /\ pc[r] = "catalog"
    /\ job' = [job EXCEPT ![r].fence = Tip.mark]
    /\ Goto(r, "commit")
    /\ UNCHANGED <<store, seen, todo, wake, local, flags, answer, ops, faults>>

\* First operation of the transaction: check-index, or check-not-exists for 0.
MarkerUnchanged(t) == Tip.mark = t.fence

AnyRecord(t) == t.op = "delete" \/ Tip.mod[t.app] = t.base

\* Second operation: CAS or delete-CAS on the record's ModifyIndex.
RecordUnchanged(t) == Tip.mod[t.app] = t.base

SameMarker(fence) == 1

\* Third operation: the value written to the marker.
MarkerValue(fence) == fence + 1

Accepts(t) == MarkerUnchanged(t) /\ RecordUnchanged(t)

\* The catalog after t.  A write of the value already there advances no index.
Committed(t) ==
    LET i == Len(log) + 1
        a == t.app
        new == IF t.op = "delete" THEN None ELSE t.want
        val == MarkerValue(t.fence)
    IN  [app |-> [Tip.app EXCEPT ![a] = new],
         mod |-> [Tip.mod EXCEPT ![a] = IF new = None THEN 0 ELSE IF Tip.app[a] = new THEN @ ELSE i],
         mark |-> IF Tip.mark # 0 /\ Tip.val = val THEN Tip.mark ELSE i,
         val |-> val]

\* The transaction, inside Publish: nothing is swapped unless it succeeds.
Commit(r) ==
    /\ pc[r] = "commit"
    /\ IF Accepts(job[r])
       THEN /\ log' = Append(log, Committed(job[r]))
            /\ job' = [job EXCEPT ![r].pos = Len(log')]
            /\ Goto(r, "swap")
            /\ UNCHANGED <<answer, status>>
       ELSE FailureRecorded(r) /\ Ends(r, "error") /\ UNCHANGED log
    /\ UNCHANGED <<contracts, inflight, seen, todo, wake, running, ver, flags, ops, faults>>

\* No answer, or none in time: Consul may apply the transaction now, later or never.
CommitFails(r) ==
    /\ pc[r] = "commit"
    /\ Fault(r)
    /\ inflight' = inflight \cup {job[r]}
    /\ FailureRecorded(r)
    /\ Ends(r, "error")
    /\ UNCHANGED <<log, contracts, seen, todo, wake, running, ver, flags, ops>>

Deliver(t) ==
    /\ log' = IF Accepts(t) THEN Append(log, Committed(t)) ELSE log
    /\ inflight' = inflight \ {t}
    /\ UNCHANGED <<contracts, pc, job, seen, todo, wake, local, flags, answer, ops, faults>>

RecordedTooEarly(r, runtime) == running[r][job[r].app]

\* What record() finds in the Manager after Publish.
Published(r, runtime) == runtime

\* The local swap of Publish, and the status.
Swap(r) ==
    /\ pc[r] = "swap"
    /\ LET j == job[r]
           runtime == IF j.op = "delete" \/ ~j.want.enabled THEN None ELSE j.want
       IN  /\ running' = [running EXCEPT ![r][j.app] = runtime]
           /\ ver' = [ver EXCEPT ![r][j.app] = IF runtime = None THEN @ ELSE j.pos]
           /\ status' = [status EXCEPT ![r][j.app] =
                IF j.op = "delete" THEN NoStatus ELSE Recorded(j.want, Published(r, runtime), FALSE)]
    /\ Ends(r, "ok")
    /\ UNCHANGED <<store, seen, todo, wake, flags, ops, faults>>
-----------------------------------------------------------------------------
(* The process                                                             *)

\* Run does not come to Service.Stop before the initial reconciliation is over.
Stop(r) ==
    /\ ~stopping[r] /\ job[r].op # "boot"
    /\ faults < MaxFaults /\ faults' = faults + 1
    /\ stopping' = [stopping EXCEPT ![r] = TRUE]
    /\ UNCHANGED <<store, pc, job, seen, todo, wake, local, loaded, answer, ops>>

\* The process ends, because it was stopped or crashed, and starts again: the
\* initial list comes first, Watch and the servers only after it.
Restart(r) ==
    /\ Fault(r)
    /\ Goto(r, "list")
    /\ job' = [job EXCEPT ![r] = Boot]
    /\ seen' = [seen EXCEPT ![r] = 0]
    /\ todo' = [todo EXCEPT ![r] = {}]
    /\ wake' = [wake EXCEPT ![r] = 0]
    /\ running' = [running EXCEPT ![r] = [a \in Apps |-> None]]
    /\ ver' = [ver EXCEPT ![r] = [a \in Apps |-> 0]]
    /\ status' = [status EXCEPT ![r] = [a \in Apps |-> NoStatus]]
    /\ loaded' = [loaded EXCEPT ![r] = FALSE]
    /\ stopping' = [stopping EXCEPT ![r] = FALSE]
    /\ answer' = [answer EXCEPT ![r] = "none"]
    /\ inflight' = IF pc[r] = "commit" THEN inflight \cup {job[r]} ELSE inflight
    /\ UNCHANGED <<log, contracts, ops>>
-----------------------------------------------------------------------------
Progress(r) ==
    \/ Wake(r) \/ WatchBegin(r)
    \/ List(r) \/ ListFails(r) \/ Sweep(r) \/ \E a \in Apps : Apply(r, a)
    \/ Get(r) \/ GetFails(r) \/ Make(r) \/ Put(r)
    \/ DeleteCatalog(r) \/ Commit(r) \/ CommitFails(r) \/ Swap(r)

Asked(r) ==
    \/ \E a \in Apps, q \in Requests : CreateBegin(r, a, q) \/ UpdateBegin(r, a, q)
    \/ \E a \in Apps : DeleteBegin(r, a)

Next ==
    \/ \E r \in Replicas : Progress(r) \/ Asked(r) \/ Stop(r) \/ Restart(r)
    \/ \E t \in inflight : Deliver(t)

Spec == Init /\ [][Next]_vars

(***************************************************************************)
(* Requests have timeouts and Watch lists again after WaitTime or an       *)
(* error, so a replica always goes on; a stopped process ends within its   *)
(* shutdown deadline and is started again.  Administrators are not fair,   *)
(* nor is a transaction that was given up.                                 *)
(***************************************************************************)
Fairness ==
    \A r \in Replicas : WF_vars(Progress(r)) /\ WF_vars(stopping[r] /\ Restart(r))

FairSpec == Spec /\ Fairness
-----------------------------------------------------------------------------
(* What the catalog must stay                                              *)

Configured(c) == c # None /\ c.enabled /\ Validates(c)

\* A committed record never names a contract that is not completely stored, so
\* every replica can rebuild it after a restart: PutContract comes before the
\* transaction whatever fails in between (service.go:96, 269).
CommittedHasContract ==
    \A i \in 1 .. Len(log), a \in Apps :
        log[i].app[a] # None => log[i].app[a].rev \in contracts \cup {Legacy}

\* Optimistic concurrency over the whole catalog: a create or update commits
\* only if nothing was committed since the list the replica reconciled with,
\* by anybody, to any application (consul_store.go:153, "fences concurrent
\* different-app writes"), and only on a replica that serves all of that catalog:
\* every other enabled application runs there as recorded.  A delete, which lists
\* after it has read its record, removes no record but the one it read: nobody
\* changed or replaced it since, not even by one and back (service.go:303).
CommitsAreFenced ==
    [][\A r \in Replicas : pc[r] = "commit" /\ pc'[r] = "swap" =>
         LET j == job[r]
         IN  IF j.op = "delete"
             THEN \A i \in j.base .. Len(log) : log[i].app[j.app] = log[j.base].app[j.app]
             ELSE /\ seen[r] = Len(log)
                  /\ \A b \in Apps \ {j.app} :
                       Configured(Tip.app[b]) => running[r][b] = Tip.app[b]]_vars

\* The operations of all the replicas, crashes and lost answers included, are
\* atomic operations on one catalog.
Outcome(o, c, q) == CASE o = "create" -> Created(q) [] o = "update" -> Patched(c, q) [] o = "delete" -> None
CallOf(j) == [id |-> j.id, op |-> j.op, app |-> j.app, req |-> j.req]
Atomic == INSTANCE AppCatalog WITH
            Result <- Outcome, NoCall <- None, Ids <- 1 .. MaxOps,
            catalog <- Tip.app,
            call <- [r \in Replicas |-> IF job[r].id # 0 THEN CallOf(job[r]) ELSE None],
            effective <- [r \in Replicas |-> pc[r] = "swap"],
            orphans <- {CallOf(t) : t \in inflight}
ImplementsCatalog == Atomic!Spec
-----------------------------------------------------------------------------
(* What a replica serves                                                   *)

\* A runtime is made of a record that was committed, never of a candidate whose
\* transaction failed or of a mixture of two records.
RunningWasCommitted ==
    \A r \in Replicas, a \in Apps :
        running[r][a] # None =>
            /\ ver[r][a] \in 1 .. Len(log)
            /\ log[ver[r][a]].app[a] = running[r][a]

\* A replica follows the history of the catalog: while it lives, no application
\* goes back to an older record, however Watch and the operations interleave.
NeverBackwards ==
    [][\A r \in Replicas, a \in Apps : job'[r] # Boot => ver'[r][a] >= ver[r][a]]_vars

\* Last known good: an application that runs goes on running until its record is
\* deleted, disabled or moved to another domain.  No failure takes it down.
OnlyRevocationStops ==
    [][\A r \in Replicas, a \in Apps :
         running[r][a] # None /\ running'[r][a] = None /\ job'[r] # Boot =>
            \E i \in ver[r][a] .. Len(log) : Revoked(running[r][a], log[i].app[a])]_vars

\* A moved, disabled or deleted application does not answer under its old
\* identity while others are still being rebuilt: from the first loop on,
\* nothing runs that the list just read revokes.
RevokedFirst ==
    \A r \in Replicas, a \in Apps :
        job[r].op # "delete" /\ pc[r] \in {"apply", "get", "make", "put"} /\ running[r][a] # None =>
            LET c == log[seen[r]].app[a]
            IN  c # None /\ c.enabled /\ c.domain = running[r][a].domain
-----------------------------------------------------------------------------
(* What the console and the probe show                                     *)

\* Ready() of the replica.
Ready(r) ==
    /\ loaded[r] /\ ~stopping[r]
    /\ \A a \in Apps : status[r][a].st = "degraded" => status[r][a].cur # None

\* Between jobs, the revision a status shows is the one that runs.
StatusShowsRunning ==
    \A r \in Replicas, a \in Apps :
        pc[r] = "idle" /\ status[r][a] # NoStatus =>
            status[r][a].cur = IF running[r][a] = None THEN None ELSE running[r][a].rev

\* The probe does not send traffic to a replica that serves nothing for an
\* application it should serve.
ReadyMeansServing ==
    \A r \in Replicas, a \in Apps :
        pc[r] = "idle" /\ Ready(r) /\ Configured(log[seen[r]].app[a]) =>
            running[r][a] # None \/ status[r][a].st \in {"none", "disabled"}

\* An application that still lacks a domain does not block readiness (README.md:121).
PendingNeverBlocksReady ==
    \A r \in Replicas, a \in Apps :
        LET c == log[seen[r]].app[a]
        IN  pc[r] = "idle" /\ seen[r] = Len(log) /\ c # None /\ c.domain = None /\ c.rev # Legacy =>
                ~(status[r][a].st = "degraded" /\ status[r][a].cur = None)

\* When the administrators and the faults are done, every replica comes to run
\* exactly the enabled applications of the catalog that can be built.
Converges ==
    <>[](\A r \in Replicas, a \in Apps :
           LET c == Tip.app[a]
           IN  IF Configured(c) /\ c.rev \in Buildable THEN running[r][a] = c
               ELSE c = None \/ ~c.enabled => running[r][a] = None)
-----------------------------------------------------------------------------
(* Why: the inductive invariant                                            *)

Edits(o) == o \in {"create", "update"}

\* What an administrator asked for.
AskedFor(j) ==
    /\ Edits(j.op) => j.app \in Apps /\ j.req \in Requests
    /\ j.op = "create" => j.req.domain # None /\ j.req.idl # None
    /\ j.op = "delete" => j.app \in Apps /\ j.req = None

\* What a job is at each of its steps.
JobInv(r) ==
    LET j == job[r]
    IN  /\ (pc[r] = "idle") <=> (j.op = "none")
        /\ pc[r] \in {"list", "apply"} => j.op \in {"boot", "watch", "create", "update"}
        /\ pc[r] \in {"make", "put"} => Edits(j.op)
        /\ pc[r] = "catalog" => j.op = "delete"
        /\ pc[r] \in {"get", "commit", "swap"} => Edits(j.op) \/ j.op = "delete"
        /\ (j.id # 0) <=> (Edits(j.op) \/ j.op = "delete")
        /\ j.op = "create" => j.base = 0
        /\ pc[r] = "put" => j.req.idl # None
        /\ AskedFor(j)

\* A replica knows a position of the log from its first list on.
SeenInv(r) ==
    /\ seen[r] \in 0 .. Len(log) /\ wake[r] \in 0 .. Len(log)
    /\ seen[r] = 0 => pc[r] = "list" /\ job[r].op = "boot"
    /\ pc[r] = "apply" => \A a \in todo[r] : log[seen[r]].app[a] # None

\* What a transaction says was computed from a record that was committed.
Prepared(j) ==
    /\ j.op = "create" => j.want = Created(j.req) /\ j.base = 0
    /\ j.op = "update" =>
         /\ j.want = Patched(j.orig, j.req) /\ Validates(j.want) /\ j.base # 0
         /\ \E i \in 1 .. Len(log) : log[i].app[j.app] = j.orig /\ log[i].mod[j.app] = j.base
    /\ j.op = "delete" => j.base # 0

\* It comes after its contract.
Complete(j) == Prepared(j) /\ (j.op # "delete" => j.want.rev \in contracts)

PreparedInv(r) ==
    /\ pc[r] \in {"make", "put", "catalog"} => Prepared(job[r])
    /\ pc[r] \in {"commit", "swap"} => Complete(job[r])

\* From its reconciliation to its transaction an edit runs what it was listed, and
\* nothing the list revoked.
FenceInv(r) ==
    /\ Edits(job[r].op) /\ pc[r] \in {"get", "make", "put", "commit"} =>
         /\ job[r].fence = log[seen[r]].mark
         /\ \A b \in Apps \ {job[r].app} :
              Configured(log[seen[r]].app[b]) => running[r][b] = log[seen[r]].app[b]
    /\ job[r].op # "delete" /\ pc[r] \in {"apply", "get", "make", "put"} =>
         \A a \in Apps : running[r][a] # None =>
            LET c == log[seen[r]].app[a]
            IN  c # None /\ c.enabled /\ c.domain = running[r][a].domain

\* What runs was committed, a replica is never behind it, and what it is about to
\* run was committed too.
VerInv(r) ==
    /\ \A a \in Apps : ver[r][a] <= Len(log)
    /\ \A a \in Apps : running[r][a] # None =>
         ver[r][a] # 0 /\ log[ver[r][a]].app[a] = running[r][a]
    /\ pc[r] = "apply" => \A a \in Apps : ver[r][a] <= seen[r]
    /\ pc[r] = "swap" =>
         /\ job[r].pos \in 1 .. Len(log) /\ \A a \in Apps : ver[r][a] <= job[r].pos
         /\ log[job[r].pos].app[job[r].app] = IF job[r].op = "delete" THEN None ELSE job[r].want

\* What reconciliation has not come to yet.
Pending(r, a) == pc[r] = "apply" /\ (a \in todo[r] \/ log[seen[r]].app[a] = None)

\* Otherwise statuses are true.
StatusInv(r) ==
    \A a \in Apps : status[r][a] # NoStatus =>
        /\ seen[r] # 0
        /\ \/ Pending(r, a) /\ running[r][a] = None
           \/ /\ status[r][a].cur = IF running[r][a] = None THEN None ELSE running[r][a].rev
              /\ status[r][a].st = "ready" => running[r][a] # None
              /\ status[r][a].st = "unconfigured" =>
                   running[r][a] # None \/ Pending(r, a) \/ ~Configured(log[seen[r]].app[a])

ReplicaInv(r) ==
    JobInv(r) /\ SeenInv(r) /\ PreparedInv(r) /\ FenceInv(r) /\ VerInv(r) /\ StatusInv(r)

\* Every administrative operation has an identity of its own.
IdInv ==
    /\ \A r \in Replicas : job[r].id <= ops
    /\ \A t \in inflight : t.id \in 1 .. ops
    /\ \A r, s \in Replicas : r # s /\ job[r].id # 0 => job[r].id # job[s].id
    /\ \A t \in inflight, r \in Replicas : t.id # job[r].id
    /\ \A t, u \in inflight : t.id = u.id => t = u

\* A transaction that was given up is one that could have been committed.
InflightInv ==
    \A t \in inflight : /\ Edits(t.op) \/ t.op = "delete"
                        /\ AskedFor(t) /\ Complete(t)

\* Indexes tell the commits apart: that of a record its versions, from the commit that
\* made it to the one that ends it, that of the marker all of them, since the value
\* written is never the one that is there.
LogInv ==
    /\ Len(log) > 0
    /\ \A i \in 1 .. Len(log) : log[i].mark <= i /\ log[i].val <= log[i].mark
    /\ \A i, k \in 1 .. Len(log) : i < k => log[i].mark < log[k].mark
    /\ \A i \in 1 .. Len(log), a \in Apps :
         log[i].mod[a] <= i /\ ((log[i].mod[a] = 0) <=> (log[i].app[a] = None))
    /\ \A i, k \in 1 .. Len(log), a \in Apps :
         (log[i].mod[a] = log[k].mod[a]) => (log[i].app[a] = log[k].app[a])
    /\ \A i, k \in 1 .. Len(log), a \in Apps :
         i <= k /\ log[k].mod[a] # 0 /\ log[k].mod[a] <= i => log[i].mod[a] = log[k].mod[a]

IInv ==
    /\ TypeOK /\ LogInv /\ CommittedHasContract /\ IdInv /\ InflightInv
    /\ \A r \in Replicas : ReplicaInv(r)
=============================================================================
