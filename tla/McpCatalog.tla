------------------------------ MODULE McpCatalog ------------------------------
(***************************************************************************)
(* internal/mcp/service.go and model.go: MCP servers, tools and keys in    *)
(* one Consul document, compiled by every replica against the contracts it *)
(* runs, and the authorisation of MCP requests.                            *)
(*                                                                         *)
(* One action per Consul request or per step that another goroutine can    *)
(* see.  A replica has two workers, the goroutine of Start and an          *)
(* administrator's request, which take turns under Service.mu; MCP         *)
(* requests read the published snapshot without a lock.  Names,            *)
(* descriptions, headers and schemas are left out: a tool is the operation *)
(* it calls, which a contract revision has or has not; a key is the hash   *)
(* of its secret.  Time is counted in ticks.                               *)
(***************************************************************************)
EXTENDS Integers, Sequences

CONSTANTS Replicas, Requests, Apps, Paths, Operations, Revs,
          Servers, Tools, Keys,  \* identifiers; a new one is random, hence unused
          None,
          HasOperation,  \* pairs <<operation, revision>>: compile() succeeds
          Initial,       \* documents there may be at the start
          Mutations,     \* what administrators submit
          Switched,      \* applications that may be disabled meanwhile
          Expiry,        \* 60 seconds
          RefreshLimit, MutateLimit,  \* deadlines of Refresh and Mutate: 10 and 30 seconds
          MaxSaves, MaxFaults, MaxRuntimes, MaxTime

ServerConfigs == [app : Apps, path : Paths, enabled : BOOLEAN]
ToolConfigs == [server : Servers, op : Operations]
Grants == [Servers -> (SUBSET Tools) \cup {None}]
KeyConfigs == [enabled : BOOLEAN, hash : Nat, grants : Grants]
Catalogs == [servers : [Servers -> ServerConfigs \cup {None}],
             tools : [Tools -> ToolConfigs \cup {None}],
             keys : [Keys -> KeyConfigs \cup {None}]]

Workers == Replicas \X {"refresh", "mutate"}

ASSUME LimitsAssumption == Expiry \in Nat /\ RefreshLimit \in Nat /\ MutateLimit \in Nat
ASSUME BoundsAssumption == {MaxSaves, MaxFaults, MaxRuntimes, MaxTime} \subseteq Nat

\* The secret a save made is named by its version, the first one's by any version up to it.
ASSUME InitialAssumption ==
    /\ Initial \subseteq Catalogs
    /\ \A c \in Initial, k \in Keys : c.keys[k] # None => c.keys[k].hash <= 1

\* Nothing is no configuration.
ASSUME NoConfigAssumption == None \notin ServerConfigs \cup ToolConfigs \cup KeyConfigs

\* A mutation has a kind, the identifier of its target and what it becomes; "create" takes
\* a new identifier, "access" replaces the grants of all keys for a server.
ASSUME MutationsAssumption ==
    /\ None \notin Mutations
    /\ \A m \in Mutations :
         /\ m.how \in {"create", "update", "delete"}
         /\ \/ m.kind = "access" /\ m.id \in Servers /\ m.how = "update"
               /\ m.new \in [Keys -> (SUBSET Tools) \cup {None}]
            \/ m.kind = "server" /\ m.id \in Servers /\ (m.how # "delete" => m.new \in ServerConfigs)
            \/ m.kind = "tool" /\ m.id \in Tools /\ (m.how # "delete" => m.new \in ToolConfigs)
            \/ m.kind = "key" /\ m.id \in Keys /\ (m.how # "delete" => m.new \in KeyConfigs)

VARIABLES
    log,      \* the documents saved, with the time of each; the last one is stored
    pc, job,  \* what each worker does under Service.mu, and its locals
    current,  \* Service.current of each replica, or None
    confirmed, \* version of the last save Consul confirmed to each replica
    run,      \* the Manager's snapshot of each replica: version and revisions
    apps,     \* applications enabled in the application catalog
    reqs,     \* MCP requests underway
    now, faults

store == <<log, apps>>
served == <<current, confirmed>>
vars == <<store, pc, job, served, run, reqs, now, faults>>

NoJob == [mut |-> None, base |-> 0, cat |-> None, ver |-> 0, apps |-> {}, rt |-> None,
          start |-> 0, fresh |-> 0]
NoReq == [pc |-> "idle"]

Empty == [servers |-> [s \in Servers |-> None], tools |-> [t \in Tools |-> None],
          keys |-> [k \in Keys |-> None]]

Runtimes == [ver : Nat, rev : [Apps -> Revs \cup {None}]]
Compileds == [config : ServerConfigs, error : BOOLEAN, rev : Revs \cup {None},
              views : [Keys -> (SUBSET Tools) \cup {None}]]

Jobs == [mut : Mutations \cup {None}, base : Nat, cat : Catalogs \cup {None}, ver : Nat,
         apps : SUBSET Apps, rt : Runtimes \cup {None}, start : Nat, fresh : Nat]
Snapshots == [ver : Nat, cat : Catalogs, fresh : Nat, rtver : Nat,
              servers : [Servers -> Compileds \cup {None}]]
Lookeds == [pc : {"looked"}, replica : Replicas, server : Servers, snap : Snapshots, at : Nat]
Admitteds == [pc : {"admitted"}, server : Servers, at : Nat, hash : Nat, tool : Tools,
              op : Operations, rev : Revs]

TypeOK ==
    /\ log \in Seq([cat : Catalogs, at : Nat])
    /\ pc \in [Workers -> {"idle", "load", "list", "save", "reload", "stamp", "compile"}]
    /\ job \in [Workers -> Jobs]
    /\ current \in [Replicas -> Snapshots \cup {None}]
    /\ reqs \in [Requests -> Lookeds \cup Admitteds \cup {NoReq}]
    /\ confirmed \in [Replicas -> Nat]
    /\ run \in [Replicas -> Runtimes]
    /\ apps \subseteq Apps
    /\ now \in 0 .. MaxTime
    /\ faults \in 0 .. MaxFaults

\* The stored document, and its ModifyIndex (0 when there is none).
Stored == IF log = <<>> THEN Empty ELSE log[Len(log)].cat
Version == Len(log)

Init ==
    /\ \E c \in Initial : log = IF c = Empty THEN <<>> ELSE <<[cat |-> c, at |-> 0]>>
    /\ apps = Apps
    /\ pc = [w \in Workers |-> "idle"]
    /\ job = [w \in Workers |-> NoJob]
    /\ current = [r \in Replicas |-> None]
    /\ confirmed = [r \in Replicas |-> 0]
    /\ \E v \in Revs : run = [r \in Replicas |-> [ver |-> 1, rev |-> [a \in Apps |-> v]]]
    /\ reqs = [q \in Requests |-> NoReq]
    /\ now = 0 /\ faults = 0
-----------------------------------------------------------------------------
(* The document                                                            *)

\* validate(): distinct paths, tools of existing servers, grants of existing tools.
Valid(c) ==
    /\ \A s, t \in Servers : s # t /\ c.servers[s] # None /\ c.servers[t] # None =>
                                c.servers[s].path # c.servers[t].path
    /\ \A t \in Tools : c.tools[t] # None => c.servers[c.tools[t].server] # None
    /\ \A k \in Keys, s \in Servers : c.keys[k] # None /\ c.keys[k].grants[s] # None =>
         /\ c.servers[s] # None
         /\ \A t \in c.keys[k].grants[s] : c.tools[t] # None /\ c.tools[t].server = s

\* Whether the target of m is there, or is a new one; keys given access must be there.
Exists(c, m) ==
    LET there == CASE m.kind \in {"server", "access"} -> c.servers[m.id] # None
                   [] m.kind = "tool" -> c.tools[m.id] # None
                   [] m.kind = "key" -> c.keys[m.id] # None
    IN  /\ there = (m.how # "create")
        /\ m.kind = "access" => \A k \in Keys : m.new[k] # None => c.keys[k] # None

\* The keys of c with the grants for server s replaced by g[key].
Granting(c, s, g) ==
    [k \in Keys |-> IF c.keys[k] = None THEN None ELSE [c.keys[k] EXCEPT !.grants[s] = g[k]]]

\* Deleting a tool takes it out of every grant.
ToolRevoked(c, t) ==
    [k \in Keys |-> IF c.keys[k] = None THEN None
        ELSE [c.keys[k] EXCEPT !.grants = [s \in Servers |-> IF @[s] = None THEN None ELSE @[s] \ {t}]]]

HashAsSent(c, m) == IF m.rotate THEN Version + 1 ELSE m.new.hash

\* The secret of a key: a fresh one when it is created or rotated, otherwise kept.
Hash(c, m) == IF m.how = "create" \/ m.rotate THEN Version + 1 ELSE c.keys[m.id].hash

\* The switch of Mutate, applied to the document c.
Mutated(c, m) ==
    CASE m.kind = "access" -> [c EXCEPT !.keys = Granting(c, m.id, m.new)]
      [] m.kind = "server" /\ m.how # "delete" -> [c EXCEPT !.servers[m.id] = m.new]
      [] m.kind = "server" /\ m.how = "delete" ->
           [servers |-> [c.servers EXCEPT ![m.id] = None],
            tools |-> [t \in Tools |-> IF c.tools[t] # None /\ c.tools[t].server = m.id THEN None
                                       ELSE c.tools[t]],
            keys |-> Granting(c, m.id, [k \in Keys |-> None])]
      [] m.kind = "tool" /\ m.how # "delete" -> [c EXCEPT !.tools[m.id] = m.new]
      [] m.kind = "tool" /\ m.how = "delete" ->
           [c EXCEPT !.tools[m.id] = None, !.keys = ToolRevoked(c, m.id)]
      [] m.kind = "key" /\ m.how # "delete" ->
           [c EXCEPT !.keys[m.id] = [m.new EXCEPT !.hash = Hash(c, m)]]
      [] m.kind = "key" /\ m.how = "delete" -> [c EXCEPT !.keys[m.id] = None]
-----------------------------------------------------------------------------
(* build(): one replica's view of a document                               *)

ToolsOf(c, s) == {t \in Tools : c.tools[t] # None /\ c.tools[t].server = s}

AllCompile(c, s, v) == \A t \in ToolsOf(c, s) : <<c.tools[t].op, v>> \in HasOperation

\* The tools each enabled key sees of server s.
Views(c, s) ==
    [k \in Keys |-> IF c.keys[k] # None /\ c.keys[k].enabled /\ c.keys[k].grants[s] # None
                    THEN c.keys[k].grants[s] \cap ToolsOf(c, s) ELSE None]

SameRevision(old, ver, rt, s, v) ==
    /\ old # None
    /\ old.servers[s] # None /\ ~old.servers[s].error /\ old.servers[s].rev = v

\* The previous compilation of s may be used again.
Reusable(old, ver, rt, s, v) ==
    /\ old # None /\ old.ver = ver /\ old.rtver = rt.ver
    /\ old.servers[s] # None /\ ~old.servers[s].error /\ old.servers[s].rev = v

\* Document c of version ver compiled against runtimes rt, with the applications in on
\* enabled; readable: the servers whose contract can be read.
Built(c, ver, on, rt, old, readable) ==
    LET Bare(s) == [config |-> c.servers[s], error |-> FALSE, rev |-> None,
                    views |-> [k \in Keys |-> None]]
        One(s) ==
            LET v == rt.rev[c.servers[s].app]
            IN  CASE ~c.servers[s].enabled -> Bare(s)
                  [] c.servers[s].enabled /\ (v = None \/ c.servers[s].app \notin on) ->
                       [Bare(s) EXCEPT !.error = TRUE]
                  [] OTHER ->
                       IF Reusable(old, ver, rt, s, v) THEN old.servers[s]
                       ELSE IF s \in readable /\ AllCompile(c, s, v)
                       THEN [Bare(s) EXCEPT !.rev = v, !.views = Views(c, s)]
                       ELSE [Bare(s) EXCEPT !.rev = v, !.error = TRUE]
    IN  [s \in Servers |-> IF c.servers[s] = None THEN None ELSE One(s)]
-----------------------------------------------------------------------------
(* Refresh and Mutate.  w is a worker, w[1] its replica.                   *)

Fault == faults < MaxFaults /\ faults' = faults + 1

Goto(w, p) == pc' = [pc EXCEPT ![w] = p]

\* The worker unlocks and forgets.
Ends(w) == Goto(w, "idle") /\ job' = [job EXCEPT ![w] = NoJob]

Limit(w) == IF w[2] = "refresh" THEN RefreshLimit ELSE MutateLimit

\* The context of the job has not expired.
InTime(w) == now - job[w].start <= Limit(w)

\* What fails in time is a failed request; what comes too late fails in any case.
Late(w) == IF InTime(w) THEN Fault ELSE UNCHANGED faults

LockEach(w) == pc[w] = "idle"

\* Service.mu can be locked.
MuFree(w) == \A v \in Workers : v[1] = w[1] => pc[v] = "idle"

RefreshBegin(w) ==
    /\ w[2] = "refresh" /\ MuFree(w)
    /\ Goto(w, "load")
    /\ job' = [job EXCEPT ![w] = [NoJob EXCEPT !.start = now]]
    /\ UNCHANGED <<store, served, run, reqs, now, faults>>

\* An administrator submits m, having seen version v of the document (an old one is
\* refused whichever it is, so Next takes 0 for all of them).
MutateBegin(w, m, v) ==
    /\ w[2] = "mutate" /\ MuFree(w)
    /\ Version < MaxSaves
    /\ Goto(w, "load")
    /\ job' = [job EXCEPT ![w] = [NoJob EXCEPT !.start = now, !.mut = m, !.base = v]]
    /\ UNCHANGED <<store, served, run, reqs, now, faults>>

\* The stored document is at the version seen, and m makes sense for it.
Legal(w) ==
    /\ Version = job[w].base
    /\ Exists(Stored, job[w].mut) /\ Valid(Mutated(Stored, job[w].mut))

\* repository.Load, and everything that can be refused at once.
Load(w) ==
    /\ pc[w] = "load" /\ InTime(w)
    /\ \/ /\ w[2] = "refresh" /\ Valid(Stored)
          /\ job' = [job EXCEPT ![w].cat = Stored, ![w].ver = Version]
          /\ Goto(w, "list")
       \/ /\ w[2] = "mutate" /\ Legal(w)
          /\ job' = [job EXCEPT ![w].cat = Mutated(Stored, job[w].mut)]
          /\ Goto(w, "list")
       \/ /\ w[2] = "mutate" /\ ~Legal(w)
          /\ Ends(w)
    /\ UNCHANGED <<store, served, run, reqs, now, faults>>

\* A request before anything is saved fails or comes too late, or nothing valid is stored.
Fails(w) ==
    /\ pc[w] \in {"load", "list"}
    /\ IF pc[w] = "load" /\ w[2] = "refresh" /\ ~Valid(Stored) THEN UNCHANGED faults ELSE Late(w)
    /\ Ends(w)
    /\ UNCHANGED <<store, served, run, reqs, now>>

VersionKept(base) == base

\* "Do not reuse previous SDK views while validating a pending change."
PendingVersion(base) == 0

\* The candidate of Mutate compiles, if a server or a tool of one is saved.
CandidateAccepted(w, readable) ==
    LET m == job[w].mut
        s == IF m.kind = "tool" THEN m.new.server ELSE m.id
        built == Built(job[w].cat, PendingVersion(job[w].base), apps, run[w[1]], current[w[1]], readable)
    IN  m.kind \in {"tool", "server"} /\ m.how # "delete" =>
            ~(built[s].config.enabled /\ built[s].error)

\* List the applications and pin the Manager's snapshot; Mutate builds its candidate.
ListApps(w) ==
    /\ pc[w] = "list" /\ InTime(w)
    /\ \/ /\ w[2] = "refresh"
          /\ Goto(w, "stamp")
          /\ UNCHANGED faults
       \/ /\ w[2] = "mutate" /\ CandidateAccepted(w, Servers)
          /\ Goto(w, "save")
          /\ UNCHANGED faults
       \/ \E readable \in SUBSET Servers :
          /\ w[2] = "mutate" /\ ~CandidateAccepted(w, readable)
          /\ Goto(w, "idle")
          /\ IF readable = Servers THEN UNCHANGED faults ELSE Fault
    /\ job' = [job EXCEPT ![w] = IF pc'[w] = "idle" THEN NoJob
                                 ELSE [@ EXCEPT !.apps = apps, !.rt = run[w[1]]]]
    /\ UNCHANGED <<store, served, run, reqs, now>>

Overwritten(w) == TRUE

\* The compare-and-swap of Save.
Unmoved(w) == Version = job[w].base

\* A save of what is stored already advances nothing.
SavedLog(c) == IF log # <<>> /\ Stored = c THEN log ELSE Append(log, [cat |-> c, at |-> now])

Save(w) ==
    /\ pc[w] = "save"
    /\ \/ /\ InTime(w) /\ Unmoved(w)
          /\ log' = SavedLog(job[w].cat)
          /\ confirmed' = [confirmed EXCEPT ![w[1]] = Len(log')]
          /\ Goto(w, "reload")
          /\ UNCHANGED <<job, faults>>
       \/ /\ ~Unmoved(w)
          /\ Ends(w)
          /\ UNCHANGED <<log, confirmed, faults>>
       \/ /\ Late(w)
          /\ \/ UNCHANGED log
             \/ Unmoved(w) /\ log' = SavedLog(job[w].cat)
          /\ Ends(w)
          /\ UNCHANGED confirmed
    /\ UNCHANGED <<apps, current, run, reqs, now>>

Reload(w) ==
    /\ pc[w] = "reload" /\ InTime(w) /\ Valid(Stored)
    /\ job' = [job EXCEPT ![w].cat = Stored, ![w].ver = Version]
    /\ Goto(w, "stamp")
    /\ UNCHANGED <<store, served, run, reqs, now, faults>>

OldKept(w) == current[w[1]]

\* "Stop serving old privileges if reread fails."
AfterFailedReload(w) == None

ReloadFails(w) ==
    /\ pc[w] = "reload"
    /\ IF Valid(Stored) THEN Late(w) ELSE UNCHANGED faults
    /\ current' = [current EXCEPT ![w[1]] = AfterFailedReload(w)]
    /\ Ends(w)
    /\ UNCHANGED <<store, confirmed, run, reqs, now>>

\* The answer has arrived in time, and build() notes the time; or it is too late.
Stamp(w) ==
    /\ pc[w] = "stamp"
    /\ IF InTime(w)
       THEN /\ job' = [job EXCEPT ![w].fresh = now]
            /\ Goto(w, "compile")
            /\ UNCHANGED current
       ELSE /\ current' = IF w[2] = "refresh" THEN current
                          ELSE [current EXCEPT ![w[1]] = AfterFailedReload(w)]
            /\ Ends(w)
    /\ UNCHANGED <<store, confirmed, run, reqs, now, faults>>

\* What build() returns to w.
Snapshot(w, readable) ==
    LET j == job[w]
    IN  [ver |-> j.ver, cat |-> j.cat, fresh |-> j.fresh, rtver |-> j.rt.ver,
         servers |-> Built(j.cat, j.ver, j.apps, j.rt, current[w[1]], readable)]

PublishedIfMoved(w, readable) ==
    IF current[w[1]] # None /\ current[w[1]].rtver = job[w].rt.ver THEN current[w[1]]
    ELSE Snapshot(w, readable)

\* What is published by w.
Published(w, readable) == Snapshot(w, readable)

\* The rest of build(), which reads contracts, and current.Store.
Compile(w) ==
    /\ pc[w] = "compile"
    /\ \E readable \in SUBSET Servers :
         /\ IF readable = Servers THEN UNCHANGED faults ELSE Late(w)
         /\ current' = [current EXCEPT ![w[1]] = Published(w, readable)]
    /\ Ends(w)
    /\ UNCHANGED <<store, confirmed, run, reqs, now>>
-----------------------------------------------------------------------------
(* Requests                                                                *)

AnyAge(p) == TRUE

\* The snapshot has not expired.
Fresh(p) == now - p.fresh <= Expiry

\* First half of ServeHTTP: the snapshot, the server at the path.
Look(q, r, s) ==
    /\ reqs[q].pc = "idle"
    /\ current[r] # None
    /\ LET p == current[r]
       IN  /\ Fresh(p)
           /\ p.servers[s] # None /\ p.servers[s].config.enabled
           /\ reqs' = [reqs EXCEPT ![q] =
                [pc |-> "looked", replica |-> r, server |-> s, snap |-> p, at |-> now]]
    /\ UNCHANGED <<store, pc, job, served, run, now, faults>>

RuntimeRuns(c, rev) == rev # None

\* The leased runtime serves the contract the tools were compiled from.
Synchronized(c, rev) == rev # None /\ rev = c.rev

\* Second half: lease, key and grant.  A request that is refused just ends.
Admit(q, k, t) ==
    /\ reqs[q].pc = "looked"
    /\ LET p == reqs[q].snap
           c == p.servers[reqs[q].server]
           rev == run[reqs[q].replica].rev[c.config.app]
       IN  /\ Synchronized(c, rev)
           /\ p.cat.keys[k] # None /\ p.cat.keys[k].enabled
           /\ ~c.error /\ c.views[k] # None /\ t \in c.views[k]
           /\ reqs' = [reqs EXCEPT ![q] =
                [pc |-> "admitted", server |-> @.server, at |-> @.at,
                 hash |-> p.cat.keys[k].hash, tool |-> t, op |-> p.cat.tools[t].op, rev |-> rev]]
    /\ UNCHANGED <<store, pc, job, served, run, now, faults>>

Finish(q) ==
    /\ reqs[q].pc # "idle"
    /\ reqs' = [reqs EXCEPT ![q] = NoReq]
    /\ UNCHANGED <<store, pc, job, served, run, now, faults>>
-----------------------------------------------------------------------------
(* Surroundings: the Manager publishes, applications are switched, time.   *)

RuntimeChanges(r) ==
    /\ run[r].ver < MaxRuntimes
    /\ \E a \in Apps, v \in Revs \cup {None} :
         run' = [run EXCEPT ![r] = [ver |-> @.ver + 1, rev |-> [@.rev EXCEPT ![a] = v]]]
    /\ UNCHANGED <<store, pc, job, served, reqs, now, faults>>

AppsChange ==
    /\ \E a \in Switched \cap apps : apps' = apps \ {a}
    /\ UNCHANGED <<log, pc, job, served, run, reqs, now, faults>>

Tick ==
    /\ now < MaxTime
    /\ now' = now + 1
    /\ UNCHANGED <<store, pc, job, served, run, reqs, faults>>
-----------------------------------------------------------------------------
Work(w) ==
    \/ Load(w) \/ ListApps(w) \/ Fails(w) \/ Save(w) \/ Reload(w) \/ ReloadFails(w)
    \/ Stamp(w) \/ Compile(w)

Next ==
    \/ \E w \in Workers :
         \/ RefreshBegin(w) \/ Work(w)
         \/ \E m \in Mutations, v \in {0, Version} : MutateBegin(w, m, v)
    \/ \E q \in Requests :
         \/ \E r \in Replicas, s \in Servers : Look(q, r, s)
         \/ \E k \in Keys, t \in Tools : Admit(q, k, t)
         \/ Finish(q)
    \/ \E r \in Replicas : RuntimeChanges(r)
    \/ AppsChange \/ Tick

Spec == Init /\ [][Next]_vars

(***************************************************************************)
(* Start refreshes every five seconds whatever came of the last time; the  *)
(* mutex hands itself over in order, so Refresh is not overtaken for ever; *)
(* every request to Consul ends, by its deadline if not before.            *)
(***************************************************************************)
Fairness == \A w \in Workers : SF_vars(RefreshBegin(w)) /\ WF_vars(Work(w))

FairSpec == Spec /\ Fairness
-----------------------------------------------------------------------------
(* Properties of the document                                              *)

\* The saves form one sequence: whatever replica makes one, the document saved is
\* its administrator's change of the document stored just before.
EditsAreSequential ==
    [][log' # log => \E w \in Workers :
        pc[w] = "save" /\ job[w].mut # None /\ Stored' = Mutated(Stored, job[w].mut)]_vars

\* As long as a key is there, its secret changes only by rotation of that key:
\* no edit of a key, a server or a grant invalidates it or brings an old one back.
SecretsOnlyRotate ==
    [][\A k \in Keys : Stored.keys[k] # None /\ Stored'.keys[k] # None =>
        \/ Stored'.keys[k].hash = Stored.keys[k].hash
        \/ /\ \A i \in DOMAIN log : log[i].cat.keys[k] # None => log[i].cat.keys[k].hash # Stored'.keys[k].hash
           /\ \E w \in Workers : /\ job[w].mut # None /\ job[w].mut.kind = "key"
                                 /\ job[w].mut.id = k /\ job[w].mut.rotate]_vars

\* The server that mutation m saves, or saves a tool of, compiles in document c against
\* runtimes rt, with the applications in on enabled.
CompilesIn(c, m, on, rt) ==
    LET s == IF m.kind = "tool" THEN m.new.server ELSE m.id
        cfg == c.servers[s]
    IN  m.kind \in {"tool", "server"} /\ m.how # "delete" /\ cfg.enabled =>
            cfg.app \in on /\ AllCompile(c, s, rt.rev[cfg.app])

\* A tool or an enabled server is saved only if, with it, the server compiles
\* against the contract its application runs on the replica that saves it.
SavedToolsCompile ==
    [][log' # log => \E w \in Workers :
        /\ pc[w] = "save" /\ job[w].mut # None
        /\ CompilesIn(Stored', job[w].mut, job[w].apps, job[w].rt)]_vars
-----------------------------------------------------------------------------
(* Properties of the replicas                                              *)

\* A server served without error is what the published document says and the
\* contract it was compiled from allows: reuse by build() brings back no old grant.
ServersCurrent ==
    \A r \in Replicas, s \in Servers : current[r] # None =>
        LET c == current[r].servers[s]
        IN  c # None /\ c.config.enabled /\ ~c.error =>
                /\ c.config = current[r].cat.servers[s]
                /\ c.views = Views(current[r].cat, s)
                /\ AllCompile(current[r].cat, s, c.rev)

\* A replica that has seen a version serves no older one later on, although the
\* goroutine of Start and administrators read and publish at the same time.
NeverOlder ==
    [][\A r \in Replicas : current[r] # None /\ current'[r] # None => current'[r].ver >= current[r].ver]_vars

\* Once nobody holds Service.mu, the replica serves what Consul last confirmed to it
\* or something newer, or nothing: a change that cannot be read back stops the old one.
CommittedIsServed ==
    \A r \in Replicas :
        (\A w \in Workers : w[1] = r => pc[w] = "idle") =>
            current[r] = None \/ current[r].ver >= confirmed[r]

\* Every document saved reaches every replica, itself or a newer one.
Refreshes ==
    \A r \in Replicas, i \in 1 .. MaxSaves :
        Version = i ~> current[r] # None /\ current[r].ver >= i
-----------------------------------------------------------------------------
(* Properties of requests                                                  *)

\* An admitted request names an operation that the leased runtime's contract has,
\* although snapshot and lease were taken one after the other.
BindingsMatchRuntime ==
    \A q \in Requests : reqs[q].pc = "admitted" => <<reqs[q].op, reqs[q].rev>> \in HasOperation

\* Document c lets the holder of the secret with this hash call tool t of server s.
Authorises(c, hash, s, t) ==
    /\ c.servers[s] # None /\ c.servers[s].enabled
    /\ \E k \in Keys : /\ c.keys[k] # None /\ c.keys[k].enabled /\ c.keys[k].hash = hash
                       /\ c.keys[k].grants[s] # None /\ t \in c.keys[k].grants[s]

\* Authority expires: an admitted request was authorised by a document that was stored
\* at some time not longer ago than the expiry and the deadline of one refresh.
AuthorityExpires ==
    \A q \in Requests : reqs[q].pc = "admitted" =>
        \E i \in DOMAIN log :
            /\ Authorises(log[i].cat, reqs[q].hash, reqs[q].server, reqs[q].tool)
            /\ \/ i = Len(log)
               \/ \E limit \in {RefreshLimit, MutateLimit} :
                    log[i + 1].at + Expiry + limit >= reqs[q].at
-----------------------------------------------------------------------------
(* Why: the inductive invariant                                            *)

\* The document of version v.
Doc(v) == IF v = 0 THEN Empty ELSE log[v].cat

\* Worker w has read the document it is going to publish.
Read(w) == pc[w] \in {"stamp", "compile"} \/ (pc[w] = "list" /\ w[2] = "refresh")

\* Worker w holds a candidate that is not saved yet.
Edits(w) == pc[w] \in {"list", "save"} /\ w[2] = "mutate"

\* Save number i makes secret number i.
LogInv ==
    \A i \in DOMAIN log, k \in Keys : log[i].cat.keys[k] # None => log[i].cat.keys[k].hash <= i

\* Service.mu.
MuInv == \A v, w \in Workers : v[1] = w[1] /\ pc[v] # "idle" /\ pc[w] # "idle" => v = w

\* d is what build() may make of server s of document c, now or by reuse.
CompiledInv(c, s, d) ==
    IF c.servers[s] = None THEN d = None
    ELSE /\ d.config = c.servers[s]
         /\ d.config.enabled /\ ~d.error => d.views = Views(c, s) /\ AllCompile(c, s, d.rev)

\* A snapshot is a stored document, and was fresh a deadline after that was replaced at most.
SnapInv(p) ==
    /\ p.ver <= Version /\ p.cat = Doc(p.ver)
    /\ p.fresh <= now
    /\ p.ver < Version => \E limit \in {RefreshLimit, MutateLimit} : p.fresh <= log[p.ver + 1].at + limit
    /\ \A s \in Servers : CompiledInv(p.cat, s, p.servers[s])

WorkerInv(w) ==
    /\ pc[w] # "idle" => job[w].start <= now
    /\ w[2] = "refresh" => pc[w] \notin {"save", "reload"}
    /\ w[2] = "mutate" /\ pc[w] # "idle" => job[w].mut \in Mutations /\ job[w].base <= Version
    /\ pc[w] \in {"save", "reload", "stamp", "compile"} => job[w].rt \in Runtimes

\* As long as nothing is saved meanwhile, the candidate is the edit of what is stored.
EditInv(w) ==
    Edits(w) =>
        /\ job[w].cat \in Catalogs
        /\ Version = job[w].base =>
             /\ Exists(Stored, job[w].mut) /\ Valid(job[w].cat)
             /\ job[w].cat = Mutated(Stored, job[w].mut)
             /\ pc[w] = "save" => CompilesIn(job[w].cat, job[w].mut, job[w].apps, job[w].rt)

\* What is going to be published is no older than what is, or than what was confirmed.
ReadInv(w) ==
    /\ Read(w) =>
         /\ job[w].ver <= Version /\ job[w].cat = Doc(job[w].ver)
         /\ confirmed[w[1]] <= job[w].ver
         /\ current[w[1]] # None => current[w[1]].ver <= job[w].ver
         /\ job[w].ver < Version => job[w].start <= log[job[w].ver + 1].at
    /\ pc[w] = "compile" => job[w].fresh <= now /\ job[w].fresh <= job[w].start + Limit(w)

\* A confirmed save is read back by the worker that made it, before it unlocks.
ConfirmedInv(r) ==
    /\ confirmed[r] <= Version
    /\ \/ pc[<<r, "mutate">>] \in {"reload", "stamp", "compile"}
       \/ current[r] = None
       \/ current[r].ver >= confirmed[r]

LookedInv(q) ==
    reqs[q].pc = "looked" =>
        LET p == reqs[q].snap
        IN  /\ SnapInv(p)
            /\ reqs[q].at <= now /\ reqs[q].at <= p.fresh + Expiry
            /\ p.servers[reqs[q].server] # None /\ p.servers[reqs[q].server].config.enabled

IInv ==
    /\ TypeOK /\ LogInv /\ MuInv
    /\ \A w \in Workers : WorkerInv(w) /\ EditInv(w) /\ ReadInv(w)
    /\ \A r \in Replicas : ConfirmedInv(r) /\ (current[r] # None => SnapInv(current[r]))
    /\ \A q \in Requests : LookedInv(q) /\ (reqs[q].pc = "admitted" => reqs[q].at <= now)
    /\ BindingsMatchRuntime /\ AuthorityExpires
=============================================================================
