---------------------------- MODULE RuntimeBuilder ----------------------------
(***************************************************************************)
(* runtime/builder.go: a runtime is built from a contract, one Kitex client *)
(* per IDL file with routes, each out of a provider and a codec, and       *)
(* whatever goes wrong on the way must leave none of them behind.  With it *)
(* the callers in admin/service.go (build, CreateApp, UpdateAppWithRequest,*)
(* reconcileLocked), who close the candidate unless the Manager took it.   *)
(*                                                                         *)
(* A codec owns its provider and a client its codec: closing one closes    *)
(* what it was made from, so stage[f] is all there is to close of file f.  *)
(***************************************************************************)
EXTENDS ContractArchive

CONSTANTS Files,     \* names of thrift files
          Downloads  \* what a URL, or the contract store, may deliver

VARIABLES
    pc,         \* where the operation is
    op,         \* [kind, enabled]
    download,
    current,    \* the bundle buildOne is at
    left,       \* bundles it has not come to
    stage,      \* stage[f]: what there is of the client of f
    closes,     \* closes[f]: how often it was closed
    group,      \* files in multiClient.clients
    held,       \* history: the Manager has the runtime
    cancelled,  \* the context of the operation is over
    troubled    \* history: something besides the archive went wrong

\* Files has every name that an archive which unpacks may hold.
ASSUME NamesAreFiles ==
    /\ None \notin Files /\ \A fs \in SUBSET Files : fs # None
    /\ \A d \in Downloads : Unpacks(d) => DOMAIN FilesOf(d) \subseteq Files

ASSUME DownloadsAreTyped == \A d \in Downloads : TypedEntries(d.entries)

vars == <<pc, op, download, current, left, stage, closes, group, held, cancelled, troubled>>

\* CreateApp; UpdateAppWithRequest with a new ZIP and without; reconcileLocked.
Kinds == {"create", "import", "update", "reconcile"}

Fetches(o) == o.kind \in {"create", "import"}

Stages == {"none", "provider", "codec", "client", "closed"}
Open(f) == stage[f] \in {"provider", "codec", "client"}

TypeOK ==
    /\ pc \in {"idle", "fetching", "loading", "building", "provider", "codec", "resolver", "client",
               "late", "failed", "built", "publishing", "unwanted", "done"}
    /\ download \in Downloads \cup {None} /\ (pc # "idle" => download \in Downloads)
    /\ current \in Files \cup {None} /\ left \subseteq Files /\ group \subseteq Files
    /\ stage \in [Files -> Stages]
    /\ closes \in [Files -> Nat]
    /\ {held, cancelled, troubled} \subseteq BOOLEAN

Init ==
    /\ pc = "idle"
    /\ op = None /\ download = None /\ current = None
    /\ left = {} /\ group = {}
    /\ stage = [f \in Files |-> "none"]
    /\ closes = [f \in Files |-> 0]
    /\ held = FALSE /\ cancelled = FALSE /\ troubled = FALSE

CloseAll(fs) ==
    /\ stage' = [f \in Files |-> IF f \in fs THEN "closed" ELSE stage[f]]
    /\ closes' = [f \in Files |-> IF f \in fs THEN closes[f] + 1 ELSE closes[f]]

Goto(l) == pc' = l

Trouble(b) == troubled' = (troubled \/ b)
-----------------------------------------------------------------------------
(* The contract                                                            *)

\* An operation with a validated application; only an enabled one is reconciled.
Begin(o, d) ==
    /\ pc = "idle"
    /\ o.kind = "reconcile" => o.enabled
    /\ op' = o /\ download' = d
    /\ Goto("fetching")
    /\ UNCHANGED <<current, left, stage, closes, group, held, cancelled, troubled>>

\* The operation is given up: a timeout, the shutdown, the client gone.
CancelOperation ==
    /\ pc \notin {"idle", "done"} /\ ~cancelled
    /\ cancelled' = TRUE
    /\ UNCHANGED <<pc, op, download, current, left, stage, closes, group, held, troubled>>

\* Fetcher.Resolve or Store.GetContract, neither of which answers a finished context.
Fetch ==
    /\ pc = "fetching"
    /\ \/ /\ ~cancelled
          /\ IF Fetches(op) => Downloaded(download) THEN Goto("loading") ELSE Goto("done")
          /\ UNCHANGED troubled
       \/ Goto("done") /\ Trouble(TRUE)
    /\ UNCHANGED <<op, download, current, left, stage, closes, group, held, cancelled>>

Contract == FilesOf(download)

\* Unpack, LoadArchive and the first thing Build does.
Load ==
    /\ pc = "loading"
    /\ IF Unpacks(download) /\ Loads(Contract) /\ Buildable(AllRoutes(Contract))
       THEN Goto("building") /\ left' = Bundles(Contract)
       ELSE Goto("done") /\ UNCHANGED left
    /\ UNCHANGED <<op, download, current, stage, closes, group, held, cancelled, troubled>>
-----------------------------------------------------------------------------
(* buildOne                                                                *)

\* The order of the files, that of their names, is left open.
TakeBundle(f) ==
    /\ pc = "building" /\ f \in left
    /\ current' = f /\ left' = left \ {f}
    /\ IF Buildable(ExtractRoutes(Contract, f)) /\ ~cancelled
       THEN Goto("provider") /\ UNCHANGED troubled
       ELSE Goto("failed") /\ Trouble(cancelled)
    /\ UNCHANGED <<op, download, stage, closes, group, held, cancelled>>

\* What the constructors make, one after the other; the resolver is nothing to close.
Constructors == {"provider", "codec", "resolver", "client"}
Makes(l) == IF l = "resolver" THEN "codec" ELSE l

Then(l) == IF l = "provider" THEN "codec"
           ELSE IF l = "codec" THEN "resolver"
           ELSE IF l = "resolver" THEN "client"
           ELSE "late"

Construct ==
    /\ pc \in Constructors
    /\ stage' = [stage EXCEPT ![current] = Makes(pc)]
    /\ Goto(Then(pc))
    /\ UNCHANGED <<op, download, current, left, closes, group, held, cancelled, troubled>>

ErrorsOnly(panic) == IF panic THEN {} ELSE {f \in {current} : Open(f)}

\* What is closed when a constructor returns an error, by the branch it is in, or
\* panics, by the deferred cleanup.
CleanedUp(panic) == {f \in {current} : Open(f)}

ConstructFails(panic) ==
    /\ pc \in Constructors
    /\ CloseAll(CleanedUp(panic))
    /\ Goto("failed") /\ Trouble(TRUE)
    /\ UNCHANGED <<op, download, current, left, group, held, cancelled>>

\* The context once more, now that there is a client to close.
FinishOne ==
    /\ pc = "late"
    /\ IF cancelled
       THEN CloseAll({current}) /\ Goto("failed") /\ Trouble(TRUE) /\ UNCHANGED group
       ELSE group' = group \cup {current} /\ Goto("building") /\ UNCHANGED <<stage, closes, troubled>>
    /\ UNCHANGED <<op, download, current, left, held, cancelled>>
-----------------------------------------------------------------------------
(* Build and its callers                                                   *)

\* The deferred group.Close of a build that did not succeed.
BuildFails ==
    /\ pc = "failed"
    /\ CloseAll(group)
    /\ Goto("done")
    /\ UNCHANGED <<op, download, current, left, group, held, cancelled, troubled>>

BuildEnds ==
    /\ pc = "building" /\ left = {}
    /\ IF Buildable(UNION {ExtractRoutes(Contract, f) : f \in group}) THEN Goto("built") ELSE Goto("failed")
    /\ UNCHANGED <<op, download, current, left, stage, closes, group, held, cancelled, troubled>>

\* A ZIP that was downloaded is stored, before anybody can refer to it.
Put ==
    /\ pc = "built"
    /\ \/ Goto("publishing") /\ UNCHANGED troubled
       \/ Fetches(op) /\ Goto("unwanted") /\ Trouble(TRUE)
    /\ UNCHANGED <<op, download, current, left, stage, closes, group, held, cancelled>>

ErrorsAlone(published) == ~published

\* The callers close the candidate on an error, and when it was built only to see
\* that it can be.
NotHandedOver(published) == ~published \/ ~op.enabled

\* Manager.Publish or ReplaceApp: persisted and swapped in, or refused.
PublishCandidate(published) ==
    /\ pc = "publishing"
    /\ IF NotHandedOver(published) THEN Goto("unwanted") ELSE Goto("done")
    /\ held' = (published /\ op.enabled)
    /\ Trouble(~published)
    /\ UNCHANGED <<op, download, current, left, stage, closes, group, cancelled>>

\* ServiceRuntime.Close by way of multiClient.Close: the callers' of a candidate
\* nobody wants, the Manager's of a runtime that nobody uses any more.
CloseRuntime ==
    /\ pc = "unwanted" \/ (pc = "done" /\ held)
    /\ CloseAll(group)
    /\ held' = FALSE
    /\ Goto("done")
    /\ UNCHANGED <<op, download, current, left, group, cancelled, troubled>>

\* The operation has returned; the next one.
Return ==
    /\ pc = "done" /\ ~held
    /\ Goto("idle")
    /\ op' = None /\ download' = None /\ current' = None
    /\ left' = {} /\ group' = {}
    /\ stage' = [f \in Files |-> "none"]
    /\ closes' = [f \in Files |-> 0]
    /\ held' = FALSE /\ cancelled' = FALSE /\ troubled' = FALSE
-----------------------------------------------------------------------------
Next ==
    \/ \E o \in [kind : Kinds, enabled : BOOLEAN], d \in Downloads : Begin(o, d)
    \/ CancelOperation \/ Fetch \/ Load
    \/ \E f \in Files : TakeBundle(f)
    \/ Construct \/ \E panic \in BOOLEAN : ConstructFails(panic)
    \/ FinishOne \/ BuildFails \/ BuildEnds \/ Put
    \/ \E published \in BOOLEAN : PublishCandidate(published)
    \/ CloseRuntime \/ Return

Spec == Init /\ [][Next]_vars
-----------------------------------------------------------------------------
\* Clients are built from an archive exactly when it is sound as a whole, includes
\* that nobody uses and routes of different files taken together, however sizes wrap
\* and whichever order the files come in (loader.go:32, fetcher.go:112,
\* docs/xuandu-v1-development-design.md:74).
AcceptedIffSound ==
    /\ pc \in {"built", "publishing", "unwanted"} \/ held =>
         SoundArchive(download) /\ (Fetches(op) => Downloaded(download))
    /\ pc = "done" /\ ~troubled /\ group = {} =>
         ~(SoundArchive(download) /\ (Fetches(op) => Downloaded(download)))

\* When an operation is over, every provider, codec and client it made was closed,
\* once, by whichever of the five cleanups it fell to, unless the Manager has the
\* runtime: that one has a working client for the file of every route (builder.go:27,
\* builder.go:84, service.go:171).
NothingLeaks ==
    /\ \A f \in Files : closes[f] <= 1
    /\ pc = "done" => \A f \in Files : Open(f) => held
    /\ held => {r.file : r \in AllRoutes(Contract)} = {f \in Files : stage[f] = "client"}
-----------------------------------------------------------------------------
(* Why nothing leaks: the inductive invariant                              *)

\* What there is of the current file before each step of buildOne.
Made(l) == IF l = "provider" THEN "none"
           ELSE IF l = "codec" THEN "provider"
           ELSE IF l \in {"resolver", "client"} THEN "codec"
           ELSE "client"

InBuildOne == pc \in Constructors \cup {"late"}
Built == pc \in {"built", "publishing", "unwanted"} \/ held

\* Until something fails there is a client for every file of the group, the beginning
\* of one for the current file, and nothing else.
StageInv ==
    pc \in {"idle", "fetching", "loading", "building"} \/ InBuildOne \/ Built =>
        \A f \in Files :
            stage[f] = IF f \in group THEN "client" ELSE IF InBuildOne /\ f = current THEN Made(pc) ELSE "none"

\* Every bundle is in the group, or being built, or still to come.
GroupInv ==
    /\ pc \in {"idle", "fetching", "loading"} => group = {}
    /\ pc = "building" => group \cup left = Bundles(Contract) /\ group \cap left = {}
    /\ InBuildOne => /\ current \in Files \ (group \cup left)
                     /\ group \cup left \cup {current} = Bundles(Contract) /\ group \cap left = {}
    /\ Built => group = Bundles(Contract)

\* After a failure nothing is open but the group, and then nothing at all.
ClosedInv ==
    /\ \A f \in Files : closes[f] = IF stage[f] = "closed" THEN 1 ELSE 0
    /\ held => pc = "done"
    /\ pc = "failed" => \A f \in Files : IF f \in group THEN stage[f] = "client" ELSE ~Open(f)
    /\ pc = "done" /\ ~held => \A f \in Files : ~Open(f)

IInv == TypeOK /\ StageInv /\ GroupInv /\ ClosedInv

\* What each step of the way tells of the download, given that invariant: a build that
\* nothing else disturbs goes through from Load on.
Passes(d) == Unpacks(d) /\ Loads(FilesOf(d)) /\ Buildable(AllRoutes(FilesOf(d)))
Fetched == Fetches(op) => Downloaded(download)

AcceptInv ==
    /\ pc \notin {"idle", "fetching", "done"} \/ held => Fetched
    /\ pc \in {"building", "failed"} \/ InBuildOne \/ Built => Passes(download)
    /\ pc = "failed" => troubled
    /\ pc = "done" /\ ~troubled /\ group = {} => ~(Fetched /\ Passes(download))
=============================================================================
