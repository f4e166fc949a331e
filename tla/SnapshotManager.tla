---------------------------- MODULE SnapshotManager ----------------------------
(***************************************************************************)
(* internal/runtime/snapshot.go: the Manager that publishes immutable      *)
(* snapshots of application runtimes, counts the leases that pin them and  *)
(* closes a runtime's clients once it is retired and unpinned.             *)
(*                                                                         *)
(* Manager.mu protects short sections that never block, so each of them    *)
(* is one action.  Manager.publishMu is held across the durable write and  *)
(* is a variable.  Publishers, leases and closers are goroutines.          *)
(***************************************************************************)
EXTENDS Integers, FiniteSets

CONSTANTS Apps, Runtimes, Leases, Publishers, Closers,
          None,         \* the nil runtime, and the free publishMu
          WellFormed,   \* runtimes whose domain and routes pass validation
          MaxVersion    \* bound on publications

ASSUME LeasesFinite == IsFiniteSet(Leases)
ASSUME NoneIsNone == None \notin Apps \cup Runtimes \cup Publishers \cup Closers
ASSUME ThreadsDisjoint == Publishers \cap Closers = {}
ASSUME WellFormedAssumption == WellFormed \subseteq Runtimes
ASSUME MaxVersionAssumption == MaxVersion \in Nat

VARIABLES
    current,    \* Manager.current: the Runtimes map of the published snapshot
    version,    \* Snapshot.Version of the published snapshot
    refs,       \* ServiceRuntime.refs
    retired,    \* ServiceRuntime.retired, as the set of retired runtimes
    closed,     \* runtimes whose closeOnce has run
    built,      \* runtimes handed to a Publish so far: each is a new object
    mgrClosed,  \* Manager.closed
    active,     \* Manager.active
    drained,    \* how often close(m.drained) was called; twice would panic
    publishMu,  \* the thread holding Manager.publishMu, or None
    lpc, lsnap, ldoomed,                \* leases
    ppc, papp, pnext, pold, pver, pdoomed,  \* publishers
    cpc, cdoomed                        \* closers

mgrVars   == <<current, version, mgrClosed, publishMu>>
rtVars    == <<refs, retired, built>>
leaseVars == <<lpc, lsnap, ldoomed>>
pubVars   == <<ppc, papp, pnext, pold, pver, pdoomed>>
closeVars == <<cpc, cdoomed>>
vars == <<mgrVars, rtVars, closed, active, drained, leaseVars, pubVars, closeVars>>

Snapshots == [Apps -> Runtimes \cup {None}]

\* The runtimes of a snapshot.
Pinned(s) == {s[a] : a \in Apps} \ {None}

TypeOK ==
    /\ current \in Snapshots
    /\ version \in Nat
    /\ refs \in [Runtimes -> Int]
    /\ retired \subseteq Runtimes
    /\ closed \subseteq Runtimes
    /\ built \subseteq Runtimes
    /\ mgrClosed \in BOOLEAN
    /\ active \in Int
    /\ drained \in Nat
    /\ publishMu \in Publishers \cup Closers \cup {None}
    /\ lpc \in [Leases -> {"idle", "held", "closing"}]
    /\ lsnap \in [Leases -> Snapshots]
    /\ ldoomed \in [Leases -> SUBSET Runtimes]
    /\ ppc \in [Publishers -> {"idle", "persist", "swap", "close", "abandon"}]
    /\ papp \in [Publishers -> Apps \cup {None}]
    /\ pnext \in [Publishers -> Runtimes \cup {None}]
    /\ pold \in [Publishers -> Snapshots]
    /\ pver \in [Publishers -> Nat]
    /\ pdoomed \in [Publishers -> SUBSET Runtimes]
    /\ cpc \in [Closers -> {"idle", "closing", "waiting", "drained", "timeout"}]
    /\ cdoomed \in [Closers -> SUBSET Runtimes]

EmptySnapshot == [a \in Apps |-> None]

Init ==
    /\ current = EmptySnapshot
    /\ version = 0
    /\ refs = [r \in Runtimes |-> 0]
    /\ retired = {} /\ closed = {} /\ built = {}
    /\ mgrClosed = FALSE /\ active = 0 /\ drained = 0
    /\ publishMu = None
    /\ lpc = [l \in Leases |-> "idle"]
    /\ lsnap = [l \in Leases |-> EmptySnapshot]
    /\ ldoomed = [l \in Leases |-> {}]
    /\ ppc = [p \in Publishers |-> "idle"]
    /\ papp = [p \in Publishers |-> None]
    /\ pnext = [p \in Publishers |-> None]
    /\ pold = [p \in Publishers |-> EmptySnapshot]
    /\ pver = [p \in Publishers |-> 0]
    /\ pdoomed = [p \in Publishers |-> {}]
    /\ cpc = [c \in Closers |-> "idle"]
    /\ cdoomed = [c \in Closers |-> {}]
-----------------------------------------------------------------------------
(* Leases: the request path.  Release runs its three sections once.        *)

\* refs after adding d for every runtime of snapshot s.
Counted(old, s, d) == [r \in Runtimes |-> IF r \in Pinned(s) THEN old[r] + d ELSE old[r]]

CloseWhilePinned(S, rf, rt) == S \cap rt

NobodyCloses(S, rf, rt) == {}

\* The runtimes of S whose clients this thread must close now.
Closable(S, rf, rt) == {r \in S : rf[r] = 0 /\ r \in rt}

\* Acquire counts the leases it hands out under the same mu as the swap.
Acquire(l) ==
    /\ lpc[l] = "idle"
    /\ ~mgrClosed
    /\ lpc' = [lpc EXCEPT ![l] = "held"]
    /\ lsnap' = [lsnap EXCEPT ![l] = current]
    /\ refs' = Counted(refs, current, 1)
    /\ active' = active + 1
    /\ UNCHANGED <<mgrVars, retired, built, closed, drained, ldoomed, pubVars, closeVars>>

\* First section of Release: drop the references, collect what became closable.
Release(l) ==
    /\ lpc[l] = "held"
    /\ refs' = Counted(refs, lsnap[l], -1)
    /\ ldoomed' = [ldoomed EXCEPT ![l] = Closable(Pinned(lsnap[l]), refs', retired)]
    /\ lpc' = [lpc EXCEPT ![l] = "closing"]
    /\ lsnap' = [lsnap EXCEPT ![l] = EmptySnapshot]
    /\ UNCHANGED <<mgrVars, retired, built, closed, active, drained, pubVars, closeVars>>

\* Outside mu: r.Close() for each collected runtime, one after the other.
CloseDoomed(l) ==
    /\ lpc[l] = "closing"
    /\ \E r \in ldoomed[l] :
         /\ closed' = closed \cup {r}
         /\ ldoomed' = [ldoomed EXCEPT ![l] = @ \ {r}]
    /\ UNCHANGED <<mgrVars, rtVars, active, drained, lpc, lsnap, pubVars, closeVars>>

DrainedWhileOneLeft(isClosed, n) == isClosed /\ n <= 1

\* Whether a thread that left n leases active closes m.drained.
SignalsDrained(isClosed, n) == isClosed /\ n = 0

\* Second section of Release: only now is the lease no longer active.
ReleaseDone(l) ==
    /\ lpc[l] = "closing" /\ ldoomed[l] = {}
    /\ active' = active - 1
    /\ drained' = IF SignalsDrained(mgrClosed, active') THEN drained + 1 ELSE drained
    /\ lpc' = [lpc EXCEPT ![l] = "idle"]
    /\ UNCHANGED <<mgrVars, rtVars, closed, lsnap, ldoomed, pubVars, closeVars>>
-----------------------------------------------------------------------------
(* Publishers: create, update, delete and reconcile                        *)

\* publishMu can be locked.
PublishMuFree == publishMu = None

\* Leave Publish: unlock, forget the locals.
Return(p, pc) ==
    /\ publishMu' = None
    /\ ppc' = [ppc EXCEPT ![p] = pc]
    /\ pold' = [pold EXCEPT ![p] = EmptySnapshot]
    /\ pver' = [pver EXCEPT ![p] = 0]
    /\ papp' = [papp EXCEPT ![p] = None]

\* Publish of n for application a, up to the durable write.  n is a runtime
\* just built by the caller, or None for a removal.
PublishBegin(p, a, n) ==
    /\ ppc[p] = "idle"
    /\ PublishMuFree
    /\ version < MaxVersion
    /\ n \notin built
    /\ built' = built \cup ({n} \ {None})
    /\ pnext' = [pnext EXCEPT ![p] = n]
    /\ IF mgrClosed
       THEN /\ ppc' = [ppc EXCEPT ![p] = "abandon"]
            /\ UNCHANGED <<papp, pold, pver, publishMu>>
       ELSE /\ publishMu' = p
            /\ ppc' = [ppc EXCEPT ![p] = "persist"]
            /\ papp' = [papp EXCEPT ![p] = a]
            /\ pold' = [pold EXCEPT ![p] = current]
            /\ pver' = [pver EXCEPT ![p] = version]
    /\ UNCHANGED <<current, version, mgrClosed, refs, retired, closed, active, drained,
                   leaseVars, pdoomed, closeVars>>

\* The runtimes of the next snapshot.
Replaced(old, a, n) == [old EXCEPT ![a] = n]

\* Every runtime of the next snapshot has a domain and unambiguous routes.
Valid(s) == Pinned(s) \subseteq WellFormed

\* Validation, then persist(): either may fail, and the candidate is not published.
Persist(p) ==
    /\ ppc[p] = "persist"
    /\ \/ /\ Valid(Replaced(pold[p], papp[p], pnext[p]))
          /\ ppc' = [ppc EXCEPT ![p] = "swap"]
          /\ UNCHANGED <<publishMu, pold, pver, papp>>
       \/ Return(p, "abandon")
    /\ UNCHANGED <<current, version, mgrClosed, rtVars, closed, active, drained,
                   leaseVars, pnext, pdoomed, closeVars>>

NothingRetired(s, a, n) == {}

\* What the swap takes out of service.
Superseded(s, a, n) == {s[a]} \ {None, n}

\* One section under mu: store the snapshot, retire the old runtime.
Swap(p) ==
    /\ ppc[p] = "swap"
    /\ current' = Replaced(pold[p], papp[p], pnext[p])
    /\ version' = pver[p] + 1
    /\ LET out == Superseded(pold[p], papp[p], pnext[p])
       IN  /\ retired' = retired \cup out
           /\ pdoomed' = [pdoomed EXCEPT ![p] = Closable(out, refs, retired')]
    /\ ppc' = [ppc EXCEPT ![p] = "close"]
    /\ pnext' = [pnext EXCEPT ![p] = None]
    /\ UNCHANGED <<mgrClosed, publishMu, refs, built, closed, active, drained,
                   leaseVars, papp, pold, pver, closeVars>>

\* retired.Close() if nobody held it, then the deferred unlock.
PublishDone(p) ==
    /\ ppc[p] = "close"
    /\ closed' = closed \cup pdoomed[p]
    /\ pdoomed' = [pdoomed EXCEPT ![p] = {}]
    /\ Return(p, "idle")
    /\ UNCHANGED <<current, version, mgrClosed, rtVars, active, drained,
                   leaseVars, pnext, closeVars>>

\* The caller of a failed Publish closes the candidate it built.
AbandonCandidate(p) ==
    /\ ppc[p] = "abandon"
    /\ closed' = closed \cup ({pnext[p]} \ {None})
    /\ pnext' = [pnext EXCEPT ![p] = None]
    /\ ppc' = [ppc EXCEPT ![p] = "idle"]
    /\ UNCHANGED <<mgrVars, rtVars, active, drained, leaseVars, papp, pold, pver,
                   pdoomed, closeVars>>
-----------------------------------------------------------------------------
(* Close: shutdown of the gateway                                          *)

EveryCloseShuts(isClosed) == TRUE

\* Only the first Close retires the snapshot.
MustShut(isClosed) == ~isClosed

CloseBegin(c) ==
    /\ cpc[c] = "idle"
    /\ PublishMuFree
    /\ publishMu' = c
    /\ cpc' = [cpc EXCEPT ![c] = "closing"]
    /\ IF MustShut(mgrClosed)
       THEN /\ mgrClosed' = TRUE
            /\ retired' = retired \cup Pinned(current)
            /\ cdoomed' = [cdoomed EXCEPT ![c] = Closable(Pinned(current), refs, retired')]
            /\ drained' = IF SignalsDrained(TRUE, active) THEN drained + 1 ELSE drained
       ELSE UNCHANGED <<mgrClosed, retired, cdoomed, drained>>
    /\ UNCHANGED <<current, version, refs, built, closed, active, leaseVars, pubVars>>

CloseOne(c) ==
    /\ cpc[c] = "closing"
    /\ \E r \in cdoomed[c] :
         /\ closed' = closed \cup {r}
         /\ cdoomed' = [cdoomed EXCEPT ![c] = @ \ {r}]
    /\ UNCHANGED <<mgrVars, rtVars, active, drained, leaseVars, pubVars, cpc>>

CloseUnlock(c) ==
    /\ cpc[c] = "closing" /\ cdoomed[c] = {}
    /\ publishMu' = None
    /\ cpc' = [cpc EXCEPT ![c] = "waiting"]
    /\ UNCHANGED <<current, version, mgrClosed, rtVars, closed, active, drained,
                   leaseVars, pubVars, cdoomed>>

\* select: the channel is closed, or the caller's deadline has passed.
CloseReturn(c) ==
    /\ cpc[c] = "waiting"
    /\ \/ drained > 0 /\ cpc' = [cpc EXCEPT ![c] = "drained"]
       \/ cpc' = [cpc EXCEPT ![c] = "timeout"]
    /\ UNCHANGED <<mgrVars, rtVars, closed, active, drained, leaseVars, pubVars, cdoomed>>

\* Shut down, nothing left to do.
Terminated ==
    /\ \A c \in Closers : cpc[c] \in {"drained", "timeout"}
    /\ \A l \in Leases : lpc[l] = "idle"
    /\ \A p \in Publishers : ppc[p] = "idle"
    /\ UNCHANGED vars
-----------------------------------------------------------------------------
LeaseNext(l) == Acquire(l) \/ Release(l) \/ CloseDoomed(l) \/ ReleaseDone(l)

PublisherNext(p) ==
    \/ \E a \in Apps, n \in Runtimes \cup {None} : PublishBegin(p, a, n)
    \/ Persist(p) \/ Swap(p) \/ PublishDone(p) \/ AbandonCandidate(p)

CloserNext(c) == CloseBegin(c) \/ CloseOne(c) \/ CloseUnlock(c) \/ CloseReturn(c)

Next ==
    \/ \E l \in Leases : LeaseNext(l)
    \/ \E p \in Publishers : PublisherNext(p)
    \/ \E c \in Closers : CloserNext(c)
    \/ Terminated

Spec == Init /\ [][Next]_vars

(***************************************************************************)
(* Every handler defers Release and runs under a request timeout, Publish  *)
(* runs under operationContext and never blocks between its sections, and  *)
(* Close never blocks before it has unlocked publishMu.  Nothing obliges   *)
(* anybody to acquire, to publish or to shut down.                         *)
(***************************************************************************)
Fairness ==
    /\ \A l \in Leases : WF_vars(Release(l) \/ CloseDoomed(l) \/ ReleaseDone(l))
    /\ \A p \in Publishers : WF_vars(Persist(p) \/ Swap(p) \/ PublishDone(p) \/ AbandonCandidate(p))
    /\ \A c \in Closers : WF_vars(CloseOne(c) \/ CloseUnlock(c))

FairSpec == Spec /\ Fairness
-----------------------------------------------------------------------------
(* What the request path relies on                                         *)

\* A request never calls a client that was closed under it: no runtime of the
\* snapshot a held lease carries is closed (snapshot.go:14, "eliminating the
\* load-then-increment retirement race").
PinnedNeverClosed == \A l \in Leases : Pinned(lsnap[l]) \cap closed = {}

\* While the gateway accepts requests, everything it would hand out is open.
ServedNeverClosed == ~mgrClosed => Pinned(current) \cap closed = {}

\* No runtime leaks its connections: one that was built is closed, or served,
\* or pinned by a lease, or some thread still holds it and is about to close
\* or publish it.  At rest only the served ones are open.
EveryRuntimeAccounted ==
    \A r \in built :
        \/ r \in closed
        \/ ~mgrClosed /\ r \in Pinned(current)
        \/ \E l \in Leases : r \in Pinned(lsnap[l]) \cup ldoomed[l]
        \/ \E p \in Publishers : r \in {pnext[p]} \cup pdoomed[p]
        \/ \E c \in Closers : r \in cdoomed[c]

\* Several threads may observe the last lease going away, but close(m.drained)
\* runs once: a second close of the channel panics.
DrainedOnce == drained <= 1

\* A Close that reports success leaves nothing behind: every runtime that was
\* ever taken out of service, the last snapshot's included, has been closed.
DrainedMeansClosed ==
    (\E c \in Closers : cpc[c] = "drained") =>
        /\ retired \subseteq closed
        /\ Pinned(current) \subseteq retired

\* No lost update: a publication starts from the snapshot it replaces, so it
\* changes the runtime of one application and the version advances by one.
OneAppPerPublication ==
    [][current' # current \/ version' # version =>
         /\ version' = version + 1
         /\ \A a, b \in Apps : current'[a] # current[a] /\ current'[b] # current[b] => a = b]_vars

\* A snapshot that fails validation never serves.
ServedIsValid == Pinned(current) \subseteq WellFormed

\* Every retired runtime is eventually closed, whoever turns out to be last.
RetiredEventuallyClosed == \A r \in Runtimes : r \in retired ~> r \in closed

\* SnapshotManager implements the lease discipline of LeasedRuntimes.
Leased == INSTANCE LeasedRuntimes WITH
            published <- current,
            pinned <- [l \in Leases |-> Pinned(lsnap[l])],
            open <- ~mgrClosed
ImplementsLeases == Leased!Spec
-----------------------------------------------------------------------------
(* Why the properties hold: the inductive invariant                        *)

InPublish == {"persist", "swap", "close"}

\* The leases whose snapshot holds r, and those not yet fully released.
Holders(r) == {l \in Leases : r \in Pinned(lsnap[l])}
Busy == {l \in Leases : lpc[l] # "idle"}

\* Nobody can reach r any more: it is out of service and not about to enter.
Gone(r) ==
    /\ r \in built
    /\ mgrClosed \/ r \notin Pinned(current)
    /\ \A p \in Publishers : pnext[p] # r

Dead(r) == Gone(r) /\ Holders(r) = {}

\* publishMu is a lock, and shutdown has flushed every publisher out of it.
LockInv ==
    /\ \A p \in Publishers : ppc[p] \in InPublish => publishMu = p /\ ~mgrClosed
    /\ \A c \in Closers : cpc[c] = "closing" => publishMu = c
    /\ \A c \in Closers : cpc[c] # "idle" => mgrClosed

\* A publisher's locals: its base is still the published snapshot.
PublisherInv ==
    \A p \in Publishers :
        /\ ppc[p] \in {"persist", "swap"} =>
               papp[p] \in Apps /\ pold[p] = current /\ pver[p] = version
        /\ pnext[p] # None => ppc[p] \in {"persist", "swap", "abandon"}
        /\ pdoomed[p] # {} => ppc[p] = "close"
        /\ \A r, s \in pdoomed[p] : r = s

\* A candidate belongs to one publisher and has never been published.
CandidateInv ==
    \A p \in Publishers : pnext[p] # None =>
        /\ pnext[p] \in built
        /\ pnext[p] \notin Pinned(current)
        /\ \A l \in Leases : pnext[p] \notin Pinned(lsnap[l])
        /\ \A q \in Publishers : pnext[q] = pnext[p] => q = p

\* A runtime serves one application; what a lease pins is served or retired.
SnapshotInv ==
    /\ Pinned(current) \subseteq built
    /\ \A a, b \in Apps : current[a] = current[b] /\ current[a] # None => a = b
    /\ mgrClosed => Pinned(current) \subseteq retired
    /\ \A l \in Leases :
         /\ Pinned(lsnap[l]) \subseteq built
         /\ Pinned(lsnap[l]) \subseteq retired \cup Pinned(current)
         /\ lpc[l] # "held" => lsnap[l] = EmptySnapshot
         /\ lpc[l] # "closing" => ldoomed[l] = {}

\* The counters count, and drained is signalled exactly when they say so.
CountInv ==
    /\ \A r \in Runtimes : refs[r] = Cardinality(Holders(r))
    /\ active = Cardinality(Busy)
    /\ drained = IF mgrClosed /\ active = 0 THEN 1 ELSE 0

\* Closed, or listed for closing, implies unreachable.
DeadInv ==
    /\ \A r \in retired : Gone(r)
    /\ \A r \in closed : Dead(r)
    /\ \A l \in Leases : \A r \in ldoomed[l] : Dead(r)
    /\ \A p \in Publishers : \A r \in pdoomed[p] : Dead(r)
    /\ \A c \in Closers : \A r \in cdoomed[c] : Dead(r)

\* The first Close finishes closing before any Close starts to wait.
CloserInv ==
    /\ \A c \in Closers : cdoomed[c] # {} => cpc[c] = "closing"
    /\ (\E c \in Closers : cpc[c] \in {"waiting", "drained", "timeout"}) =>
           \A c \in Closers : cdoomed[c] = {}
    /\ (\E c \in Closers : cpc[c] = "drained") => drained > 0

IInv ==
    /\ TypeOK /\ LockInv /\ PublisherInv /\ CandidateInv /\ SnapshotInv
    /\ CountInv /\ DeadInv /\ CloserInv
    /\ EveryRuntimeAccounted
=============================================================================
