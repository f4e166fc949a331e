# Verification of xuandu-gateway

TLA+ models of the stateful parts of the gateway in `src/`, model-checked with
TLC and, for every value of the constants, proved with TLAPS. Paths below are
relative to `src/internal/` unless they start with `README.md` or `docs/`.

## 1. The system

The gateway is a set of identical replicas. Each of them turns HTTP and MCP
requests into Thrift calls, following application records and contract archives
that administrators change through any replica and that all replicas share
through Consul.

| Part | State | Operations | Talks to |
|---|---|---|---|
| Runtime snapshots and leases (`runtime/snapshot.go`) | `Manager.current`, `refs`, `retired`, `active`, `closed`, `drained`, `publishMu` | Acquire, Release, Publish (Replace, Remove), Close | called by every request and by the control plane |
| Contract store (`metadata/contracts.go`) | Consul keys `<digest>/000000...`, `<digest>/complete` | PutContract, GetContract | Consul KV, called by the control plane and MCP |
| Application catalog (`metadata/consul_store.go`, `model.go`) | one key per application, the `_catalog` marker | Get, List/Catalog, Create, CompareAndSwap, Delete, Watch | Consul KV and Txn |
| Control plane (`admin/service.go`) | `status`, `loaded`, `stopping`, under `mu` and `statusMu` | CreateApp, UpdateApp, DeleteApp, Reconcile, Watch, Ready, Stop | catalog, contract store, builder, Manager |
| Process (`app/app.go`, `cmd/main.go`) | the error so far, channels of results | start: list, reconcile, serve; stop: drain within 25 s, close, exit | all of the others |
| HTTP data plane (`httpgateway/`, `executor/`, `router/`, `runtime/multi_client.go`, `apperr/`) | none beyond its lease | check, match, execute, answer | Manager, the clients of a runtime |
| MCP surface (`mcp/service.go`, `model.go`) | `current` snapshot with `Fresh`, the Consul document | Refresh every 5 s, Mutate, ServeHTTP | Consul KV, contract store, Manager |
| MCP tool compiler (`mcp/compiler.go`) | none | tools and their schemas from routes; a request from arguments | |
| Builder (`runtime/builder.go`, `multi_client.go`) | what was made so far | build clients from a contract, close them | Thrift clients |
| IDL and archives (`idl/`, `archiveidl/`) | none | download, unpack, includes, routes | |
| Log writer (`logging/file.go`) | open file, size | Write, rotate, Close | the file system |
| OpenAPI (`openapi/`), domains, configuration and wiring, Admin API and console | none | conversions and plumbing | control plane |

How they interact. A request calls `Manager.Acquire`, works on one immutable
snapshot, finds its route in the table of the application, the client of that
route's IDL file, and the route once more in that client, and releases the
snapshot. An administrative operation holds `Service.mu`, lists the catalog,
reconciles the local runtimes with it, reads the record, fetches or downloads the
contract, builds a candidate, stores the contract, and calls `Manager.Publish`,
which performs the Consul transaction and only then swaps the local snapshot. The
other replicas learn of it through `Watch`, which lists again under `Service.mu`
and reconciles. The MCP surface reads its own Consul document and pins the
Manager's snapshots. The process starts all of them and, asked to stop, first
drains the servers, then cancels Watch and the refresh, then closes the Manager.

What is hard, part by part, and what correctness means:

* **Snapshots.** Requests, publishers and Close run concurrently; `Release`
  leaves the lock between its two halves; `Publish` leaves it for the durable
  write. Correct: no request calls a closed client, no runtime leaks, `drained`
  is closed exactly once and only when everything is closed, no lost update.
* **Contracts.** An upload is many requests, may stop anywhere, be resumed or
  raced. Correct: a marker means a whole contract; an upload whose
  requests are answered is not refused by what others left behind; one that succeeds
  has repaired what was damaged before it; a started read ends; a successful read is
  exact even if somebody tampered with the keys.
* **Catalog and control plane.** Optimistic concurrency on two levels (record,
  whole catalog), lost and late answers, crashes between store, transaction and
  swap, stale wake-ups, failed builds. Correct: operations are atomic on one
  catalog; every committed record can be rebuilt; replicas follow the history
  and converge; a running application survives every failure but is revoked
  first when its record says so; status and readiness tell the truth.
* **MCP.** Authority must expire; a saved change that cannot be re-read must not
  leave old privileges in force; cached servers must not be stale.
* **Data plane.** One route is looked up in three tables, for two kinds of callers,
  while contracts are replaced. Correct: the method that was chosen is the one
  that is called, on a runtime the request holds; a login cannot be avoided; no
  failure is reported as a success.
* **Builder and archives.** An archive comes from anywhere, and a constructor may
  fail or panic after others have succeeded. Correct: only sound archives are
  built from, and all of those are; whatever goes wrong, everything made is closed once.
* **Process.** Three servers, their requests, a deadline and two channels meet in one
  loop. Correct: asked to stop, the process ends; it exits with 0 only if
  no `Shutdown` failed, all servers are off, everything is closed, and nothing was
  cut off but what Hertz does not report; what was accepted is served.
* **Log writer.** A rotation that fails half way must not lose the log.

## 2. Modules

| Module | Models | Correspondence |
|---|---|---|
| `LeasedRuntimes` | abstract: pin, unpin, replace, close, shut | what `runtime` promises to requests |
| `SnapshotManager` | `runtime/snapshot.go` | one action per critical section of `Manager.mu`; `publishMu` is a variable because it is held across the durable write |
| `SnapshotManagerProofs` | theorems about it | |
| `ContractRegister` | abstract: an immutable register per digest | what `metadata/contracts.go` promises |
| `ContractStore` | `metadata/contracts.go` | one action per Consul request |
| `ContractStoreProofs` | theorems about it | |
| `AppCatalog` | abstract: atomic create, update, delete | what the control plane promises to administrators |
| `ControlPlane` | `admin/service.go`, `metadata/consul_store.go` | one action per Consul request and per step between two requests, for each replica |
| `ControlPlaneProofs` | theorems about it | |
| `McpCatalog` | `mcp/service.go`, `mcp/model.go` | one action per Consul request or step another goroutine sees; two workers per replica take turns under `Service.mu`; requests read `current` without it |
| `McpCatalogProofs` | theorems about it and the document it edits | |
| `Routing` | `router/table.go` | functions on sets of routes; Kitex's routing tree is modelled by its order of preference |
| `RequestPath` | `httpgateway/handler.go`, `executor/executor.go`, `multi_client.go`, `apperr/mapper.go`, the calls of tools in `mcp/service.go` and `compiler.go` | one action per stage of a request that others can see: arrival, choice, call, answer, release |
| `RequestPathProofs` | theorems about it | |
| `ContractArchive` | `archiveidl/fetcher.go`, `idl/loader.go`, `idl/routes.go` | functions from a download to its routes, and `SoundArchive`, a definition of what ought to be accepted |
| `RuntimeBuilder` | `runtime/builder.go` and its callers in `admin/service.go` | one action per constructor and per cleanup |
| `RuntimeBuilderProofs` | theorems about it | |
| `Lifecycle` | `app/app.go`, `cmd/main.go` | one action per statement of `App.Run` that waits, per goroutine of a `Shutdown`, per step of a request |
| `LifecycleProofs` | theorems about it | |
| `LogRotation` | `logging/file.go` | one action per system call |
| `LogRotationProofs` | theorems about it | |
| `MC*` | instances for TLC | |

Variables carry the names of the fields they model; the comment at each
declaration says which. `ControlPlane` uses the two lower layers by their
abstract specifications: storing a contract and reading it back is one step
(`ContractStore` implements `ContractRegister`), and so is the local swap
(`SnapshotManager` implements `LeasedRuntimes`). `RequestPath` and `Lifecycle`
take `LeasedRuntimes` as well: its leases are their requests, its publications
and its shutdown go on around them. The Consul log of committed
catalogs is the history of all states the catalog had; a position in it plays
the part of the raft index. `McpCatalog` does the same for its document, and takes
the Manager's snapshots and the application catalog as surroundings that may
change at any time. An MCP tool is the operation it calls, which a contract
revision has or has not; a key is the hash of its secret; time is counted in
ticks. In `LogRotation` a file is the set of entries in it, numbered in the order
they were written, and its length. In `Routing` a path is the sequence of its
segments. In `ContractArchive` so is the name of a file; a Thrift text is what the
parser finds in it (includes, services, structs, typedefs), sizes are words of
`W` bits, and constants such as `MaxFile` stand for the limits of the code. A
codec owns its provider and a client its codec, so `RuntimeBuilder` has one stage per
IDL file, and closing it closes what it was made from.

Operators that stand directly before a definition and have its parameters, such
as `CloseWhilePinned` before `Closable`, are seeded bugs: replacing the
definition by them must make a property fail. The specifications do not use them.

## 3. Runs

| Run | Instance | Shows |
|---|---|---|
| `snapshot` | 2 applications, 3 runtimes (1 invalid), 2 leases, 2 publishers, 2 closers, 3 publications, fair | safety of the Manager, `ImplementsLeases`, retired runtimes are closed |
| `contracts` | 2 writers, 1 reader, 1 contract of up to 5 bytes in chunks of 2, 2 failed requests, 1 key changed or deleted by somebody else | marker, resumption, repair by importing again, reads that end; `ImplementsRegister`: a read that succeeds gives the whole contract, also after somebody changed it |
| `control` | 2 replicas, 1 application, 2 operations, 1 failure, stop or crash | what is committed and what replicas make of it; the operations implement `AppCatalog` |
| `control_apps` | 2 replicas, 2 applications, one perhaps impossible to build, 2 operations | the fence of edits, the check for convergence, and that a delete removes only the record it read |
| `control_live` | 2 replicas, 1 application, every kind of stored record, a contract that cannot be built, 1 operation, 1 failure, fair | revocation, status, readiness, convergence |
| `control_pending` | 1 replica, every kind of stored record, 2 operations, 2 failures | a documented property that does not hold, see section 6 |
| `mcp` | 2 replicas, 1 server with a tool and a key, revocation and rotation, 1 failure, 2 further saves | edits are sequential, replicas never go back, stop serving what they could not read again, and get every document |
| `mcp_requests` | 1 replica, 1 server, 2 tools, 2 keys, every kind of edit, 2 contracts of which one lacks an operation, 1 request, 4 instants | how long a revoked grant or an old secret is honoured, which contract a call meets, what an edit may do to secrets |
| `requests` | 1 request after the other: 24 methods, paths and users, 32 ways of addressing and of filling the body, every tool with every choice of arguments; 3 contracts with overlapping routes, 2 applications, 2 domains; business codes, errors and replies at every boundary | which RPC is called for whom, and what is answered |
| `build` | every operation that builds, over downloads, ZIPs of up to 4 entries, graphs of includes and methods, one group varied at a time; a failure, panic or cancellation anywhere | which archives are accepted, what is left behind |
| `process` | 1 process with all servers or the data plane alone, 2 requests, 1 runtime, 1 server that breaks, fair | what an exit means and that it comes |
| `logs` | 3 backups, limit 3, entries of 1 to 4 bytes, 8 entries, 2 failed calls or deaths | files stay bounded, only the oldest entries are lost |

Why the bounds are enough. Two of each kind of thread, and two replicas, are
what a race needs, and no operation of this code involves three. `MaxVersion`
lets one application be published, replaced while leased, and removed while
another one changes. Archive lengths 1 to 5 with chunks of 2 include less than
one chunk, whole chunks and a rest. Two administrative operations suffice for
one replica to act on what the other made stale; a failure is a failed request,
a lost answer, a transaction applied after its sender gave up, a stop or a
crash, and one of them at every possible place is explored. Deadlock is checked
in every run; `SnapshotManager` may end after shutdown and says so in `Terminated`.

In `mcp_requests` the expiry and both deadlines are one tick and the clock shows
0 to 3: a revocation at 0 or 1 can be followed by a refresh that began just
before it, is stamped one tick later, is still fresh after another, and stale
after the next, which is the worst case of the authority bound and one step
more. One save beyond the initial document is enough there, because what a
request may do depends on the document it was compiled from and the one that
replaced it; `mcp` has no time (every tick would only let requests be late, which
its failures stand for), two replicas, and enough saves for an edit to be
overtaken by another. An administrator who saw an older version is refused
whichever it was, so version 0 stands for all of them. In `logs` three backups
and files of three bytes are filled twice over by eight entries, and two failures
allow a rotation that fails again when it is tried again.

`requests` has one request at a time, because requests meet nowhere but in the
Manager, which `snapshot` has two of; its publications and the shutdown do
interleave. The contracts put a static segment beside a parameter and a catch-all,
in the same file and in another one, with and without a login. In `build` words have
3 bits, so that two sizes can wrap; three files can make every graph of
includes that can fail (a loop, a cycle of two or of three, a file nobody
uses); an operation over one archive tells nothing about the next, so that families of
archives add up and need not be multiplied. In `process` two requests are
one that holds `publishMu` and one that waits for it, or one on each of two servers;
one runtime is enough for a client that is not closed; one server that breaks
may be any, at any time, also after the signal.

Every bound is a constant named `Max...` and appears in a guard.

## 4. Fairness

* `SnapshotManager`: a goroutine between two sections of Release, Publish or Close
  goes on, because handlers defer Release and run under a timeout, and nothing
  there waits for anything but a free lock. Nobody is obliged to acquire, to
  publish or to shut down.
* `ControlPlane`: a replica goes on with what it is doing, and Watch lists again
  after WaitTime (25 s) or an error (1 s); a stopping process ends and is started
  again. Administrators are not fair, nor is a transaction whose sender gave up.
* `McpCatalog`: whatever came of the last time, `Start` refreshes every five seconds.
  `Service.mu` may be taken again and again by administrators in between, so weak
  fairness of `RefreshBegin` would not do; a Go mutex hands itself over in order to a
  goroutine that has waited a millisecond, which is strong fairness. Under the
  mutex each step ends by the deadline of the request (10 s for Refresh, 30 s for
  Mutate). Administrators and failures are not fair.
* `Lifecycle`: the main goroutine and the goroutines that run a `Shutdown` go on; the
  deadline comes; a write under `publishMu` ends once its context is cancelled, which
  `Stop` does (`admin/service.go:464`); a runtime nobody uses is closed. Requests are not
  fair: a client may read its answer as slowly as it likes, which is what the deadline is for.
* `ContractStore`, `RequestPath`, `RuntimeBuilder` and `LogRotation` have only safety
  properties and no fairness.

## 5. Proofs

Every safety invariant and action property of the passing runs, and all three refinements
of the runs, are theorems that TLAPS checks for every value of the constants. Each
component has a module of proofs: `SnapshotManagerProofs`, `ContractStoreProofs`,
`ControlPlaneProofs`, `McpCatalogProofs`, `LifecycleProofs`, `RequestPathProofs`,
`RuntimeBuilderProofs` and `LogRotationProofs`. The invariants `IInv` they rest on (in
`RuntimeBuilder` also `AcceptInv`) are at the end of the component's module; TLC has checked each of them on the instances of the
runs before it was proved. They are not in the runs because the theorems say more.

The assumptions are named in the modules and TLC evaluates them in every run. They say

* that sets of different things are disjoint, `None` is none of them, sets of
  leases are finite, and every bound is a natural number;
* `ContractStore`: a chunk has at least one byte;
* `ControlPlane`: what is stored at the start are records, and requests have the fields
  of `UpdateAppRequest`, any of them missing;
* `McpCatalog`: mutations are well formed (what the Admin API can decode), the initial documents
  have the shape of the document, and the secrets in them are older than any a save makes;
* `RequestPath`: contracts passed `Build`, HTTP requests and tool calls are what they are
  called, an upstream's status and business code are integers;
* `RuntimeBuilder`: names of files are known; a download is a list of entries that have names and
  sizes, and a Thrift file a list of includes, whatever is in them; the limits are
  natural numbers and fit a word together; `LogRotation`: there is at least one backup and an
  entry has at least one byte.

*Snapshots.* None of the safety properties is inductive alone: that no pinned
runtime is closed depends on the counters being right, on every runtime that is
retired or listed for closing being unreachable (`DeadInv`), on a publisher's
base being the published snapshot (`LockInv`, `PublisherInv`), and on candidates
being private to their publisher (`CandidateInv`). `IInv` is the conjunction; `Invariance`
proves it, and `PinnedSafe`, `ServedSafe`, `NoLeak`, `DrainsOnce`,
`DrainedIsClean` follow; `NoLostUpdate` and `OnlyValidServed` are proved with it;
`Refinement` shows that every section is a step of `LeasedRuntimes` or a stutter.

*Contracts.* The invariant says that, while nobody tampers, a key holds nothing or
its own slice, a writer left every chunk behind it in place, and a reader past
the marker holds a prefix of the archive. `MarkerSound`, `AnsweredUploadsSucceed` and
`ReadersFinish` follow for every chunk size and every archive length. `ImportRepairs` holds with
tampering, and so cannot use any of it. It has an invariant of its own, about one upload from its
begin on (`UploadInv`): as long as nobody changes this contract meanwhile, every key the upload
has passed holds what it wrote or compared, whatever was there before, since other
uploads only create keys that are absent (`KeysOnlyCreated`). `Refinement` needs neither to know
that a read is exact, since the digest is compared last; it maps the write of the
marker, whether or not its writer learns of it, to `Store` or `Acknowledge`, the comparison of the
digest to `Read`, and all other requests to stutters.

*Control plane.* The argument starts from the marker. Consul gives a key a new
ModifyIndex only if its value changes, so a fence would be worth nothing if a transaction
could write the value that is already there. `LogInv` says why it cannot: the
value of the marker is never above its index, and what is written is an index read later; hence
the indexes of the marker strictly increase along the log and equal fences mean the same
catalog. With `FenceInv` (an edit runs what its list said until it commits) this is
`FencedByIndex` for edits. The index of a record tells its versions apart in the same way, and is that
of every catalog from the commit that made the version to the one that ends it; a delete, whose list
comes after its read, is fenced by that alone. So, too, a
transaction whose answer was lost, or that is applied after its replica gave it up or died,
still finds the record it was computed from or does nothing (`PreparedInv`, `InflightInv`).
`RecordsComplete` follows since a transaction in flight has its contract in the store already.
`VerInv` says that what runs was committed, and that no replica holds or is about to swap
in anything older than what it runs: `OnlyCommittedRuns`, `HistoryFollowed`. In the middle of a
reconciliation statuses are allowed to be behind, but only for applications it has not
come to (`Pending` in `StatusInv`), which gives `StatusIsTrue` and `ReadyIsServing` between jobs.
`LastKnownGood` and `RevocationFirst` are about the two ways a runtime is taken
down. `Refinement` maps each commit, in time or late, to the effect of one call of
`AppCatalog`; it needs that identities of calls are never reused (`IdInv`).

*MCP.* A document is named by its version, and everything is related to the document of that
name (`Doc`). What a mutation is about to save is its edit of the stored document as long as
the version is still the one it started from (`EditInv`), and the compare-and-swap saves
nothing otherwise: `NoLostEdit`, `CompiledBeforeSaved`. The mutex (`MuInv`) orders what a replica
reads and publishes, so that what is read is no older than what is published or was
confirmed (`ReadInv`, `ConfirmedInv`): `OnlyForward`, `ConfirmedIsServed`. A snapshot was read
before the next version was saved, or within the deadline of a refresh after it (`SnapInv`); this,
carried by a request from its look at the snapshot to its admission (`LookedInv`), is the bound of
`AuthorityIsRecent`. Reuse of a compiled server is confined to snapshots
of equal version, hence of equal documents: `ReuseIsCurrent`. `SecretsKept` rests on a save
making a secret of its own number (`LogInv`). `DeletionsKeepValid`: deleting a server, a tool or a
key from any valid document gives a valid one; a grant forgotten on the way would make `validate()`
refuse every later edit and refresh.

*Process.* `CleanExit` is a matter of counting: unless the deadline cut the loop of `Stop`
short, which is an error, the results still to be read are as many as `left` says
(`CollectInv`), so a loop that ends has read all three; a result that was read belongs to a
server that is down, or made `err` true (`ResultInv`), and before the deadline, or if it is the MCP
server's, no request is left there; and once
`Manager.Close` has gone on, `publishMu` is free and the operations are cancelled
(`CloseInv`), so nothing is built any more. `ServedBeforeShut` uses that `Close` comes only after the loop.

*Requests.* `RightMethod` says that a call reaches the route that was chosen, although
it is looked up again among the routes of one IDL file. The argument is about
`Routing`: "is tried before" is asymmetric, so at most one of the fitting routes is
first (`FirstIsUnique`); a first route stays first among fewer routes; hence
`LookupInFile`, the table of a file finds what the table of the application found.
Nor is a request turned away because two routes fit it: in a table that `Build` accepts the
order is total on the patterns that one path fits (`BeforeTotal`) and transitive, so a path that
any route fits gets the one tried first (`LookupDecides`). The
invariant carries the rest: what a request pinned stays open (`LeaseInv`), was
asked for (`AskedInv`), is where its route was chosen (`ChosenInv`) and called
(`CalledInv`). `LoginRequired` follows from the same invariant: the route that
was checked for its login is the one that is called. `HonestAnswers` is a property of
the conversions, for every integer a service may send as a status or a business code and every
set of errors (`AnswersAreHonest`), carried through the ways an answer comes about (`HeardInv`).

*Leases.* `RequestPath` and `Lifecycle` take their steps on the Manager from `LeasedRuntimes`, of
which `SnapshotManager` is proved to be an implementation. `LeasesOpen`, in each of their modules,
says what a request gets from that: what it calls it holds, what it holds is open, during a shutdown
as well, and it holds nothing once it is over.

*Builds.* `NoLeak` needs to know what exists at each point of `buildOne`. `IInv` says
that, until something fails, there is a client for every file of the group, what the
constructors so far made of the current file, and nothing else (`StageInv`); that group, current
and remaining files make up the bundles of the contract (`GroupInv`); and that after
a failure nothing but the group is open, and then nothing at all, each closed
once (`ClosedInv`). It holds for every archive, because what an
archive contains matters only by its bundles (`RoutesNameBundles`).

*Archives.* `Accepted` needs no stronger invariant than what each step tells of the
download (`AcceptInv`: past `Load` it passed all checks, and a build only fails after trouble),
but it needs to know what the checks amount to. That is `ArchiveSound`: a ZIP passes
`Unpack`, `LoadArchive` and the table of routes exactly when it is sound as a whole. It has
three parts:

* `UnpacksSound`: names compared with the names before them are distinct names, and sizes
  taken one by one from what is left of a limit fit exactly when their sum does, because
  what was taken so far never exceeds the limit, so that the subtraction never wraps (`TotalsFit`);
* `IncludesSound`: the depth-first search, in the middle of some files and with others done, fails
  nowhere exactly when the includes are closed, allowed and have no cycle. What it has done
  is at all times closed and free of cycles (`SearchFinds`), since a file is added after its includes
  (`ThroughAdd`); and where nothing is wrong it meets no file it is in the middle of, because
  those include one another up to the current one and would be a cycle (`SearchReturns`);
* `RoutesSound`: methods that ask for routes have routes of their own in the whole archive exactly when
  each file passes and the routes of all files make a table.

What a struct is (`IsStruct`) and which annotations and paths a single method may have
(`AnnotationFine`) are the same on both sides: `ArchiveSound` is about names, sizes, includes
and tables, where the code decides one by one what is asked of the whole.

The total of the sizes, their sum and the search are recursive functions. A recursive function has the value
its definition says only if the recursion is well founded, which here is a measure (an index, a
number of elements, the files not visited and then the includes left: `LexFounded`).
`SolutionExists` proves the recursion theorem for functions, and in the place of induction, whose
theorems take an operator as a parameter, the lemmas look at a least counterexample (`Least`,
`Founded`).

*Logs.* `RetainedIsSuffix` (what is still on disk is the newest part of what was
written) is not inductive: a rename could bury a newer file. `IInv` adds that the
files are ordered, `.1` newer than `.2` and so on (`Numbered`), that in the middle of a
rotation the number the next rename goes to is free or the last one (`Vacated`),
that the remembered size is the open file's and the entry about to be written
fits (`SizeKnown`), and that an entry under way was accepted (`Writing`). `MovedIsGood` is the heart of it: one rename to a free
or the last number keeps order and suffix. Since a failed rotation begins
again at the last number, `Vacated` holds however often it fails.

Theorems whose property is in no run: `ServedSafe`, `OnlyValidServed`, `NoLostUpdate`,
`NothingAfterClose`, `DeletionsKeepValid`, `LeasesOpen`, `LookupInFile`, `LookupDecides`,
`ArchiveSound`, the type theorems and the `Invariance` of each module (the types of `RuntimeBuilder` were checked on the downloads alone, since
membership in the set of all archives is slow to evaluate).

Only model-checked:

* liveness, since fairness and `ENABLED` are beyond the prover: `RetiredEventuallyClosed`,
  `Converges`, `Refreshes`, `EndsOnceAsked`;
* the refutation of `PendingNeverBlocksReady`, section 6.

## 6. Findings

*Readiness (run `control_pending`).* README.md:121 says that an application
created before the upgrade and lacking a domain is shown as 待配置 and does not
block the Pod's readiness. Reconciliation does that. But an update of such an
application that supplies the domain and then fails (the ZIP cannot be
downloaded or built, a conflict, a failed transaction) calls `record()` with the
patched record: its domain is no longer empty, so the status becomes `degraded`
with an empty `CurrentRevision` (`admin/service.go:114`), and `Ready()`
(`admin/service.go:417`) turns the replica not ready until the next
reconciliation, at most one Watch period later.

*Observed, no claim broken.* After a failed update of a running application its
status stays `degraded` (`admin/service.go:381` skips a runtime that is current
without recording it) until something else changes. An enabled application that
cannot be built makes all creates, and all updates of others, fail on the replica
(`admin/service.go:457`).

A save of the MCP document that is reported as failed (`mcp/service.go:430`) may
have been applied: the replica goes on serving the old privileges until its next
refresh, or until they expire. The authority of a request is older than the
expiry alone suggests, by as much as a refresh may take between reading the document
and noting the time in `build()` (`mcp/service.go:84`); `AuthorityExpires` states
the bound that holds.

Every attempt at a rotation first shifts the backups. If the last rename, of
`xuandu.log` itself (`logging/file.go:58`), keeps failing, each further entry shifts
them once more and the oldest is overwritten although nothing new was rotated.
The entries kept are still the newest ones.

An upload finds a key in place when another replica wrote it, or when its own write took effect
although the answer was lost. It then reads the key back, and a failure of that read is reported
as "persisted contract content conflict" (`metadata/contracts.go:50-52`) like a different value,
although nothing conflicts; a failure of the write is not. The same upload begun again succeeds.
`UploadsResume` excepts an upload one of whose own requests failed.

Exit code 0 does not say that every request was answered. Hertz returns no error from a `Shutdown`
that the deadline ends (external), so `App.Run` counts that server as drained (`app/app.go:60`); if the
leases are returned in time as well, a request of the data or admin server that holds none may be
cut off and the exit is 0. `CleanExitIsClean` says that this is the only case: not before the
deadline, and never for the MCP server.

Told to stop before its data or admin server came up, `App.Run` gets an error from
`Shutdown` of that server (`app/app.go:60`), which then comes up and accepts requests
until the process ends: those are turned away by the closed Manager. The exit is
not 0, as it should be. `AcceptedIsServed` excepts these requests.
`Manager.Close` waits for `publishMu` whatever the deadline says
(`runtime/snapshot.go:150`); the process ends in time only because `Service.Stop` has
cancelled the operations that could hold it. `Mutate` of the MCP surface is not among
these operations, and may save a document after `Stop`.

## 7. Not modelled, and what is left

Not modelled:

* `openapi/generate.go` and the schemas of `mcp/compiler.go`: translations of types into
  JSON, without state, whose result is nothing but data. Of the compiler, the path that
  the arguments of a tool make is in `RequestPath`.
* `domain/`, `config/`, `apperr` beyond the mapping, `app/wire.go`: functions on strings,
  and plumbing done once.
* `internal/admin/handler.go`, `web/`: they map requests to the operations of the
  control plane and have no state.
* The parsers of Thrift and ZIP, Kitex, Hertz, Consul: external, modelled by what the
  code relies on. HTTP framing, headers and JSON appear as kinds of requests and replies.

Of `McpCatalog`, the start with two servers and the creation of servers are defined
but not part of an instance.

Left to do: the start with two servers as an instance of `McpCatalog`, and the composition of
`ControlPlane` with `McpCatalog`, which now meet only in what a refresh reads.
