------------------------ MODULE SnapshotManagerProofs ------------------------
(***************************************************************************)
(* Safety of internal/runtime/snapshot.go for any number of applications,  *)
(* requests, publishers and callers of Close.                              *)
(***************************************************************************)
EXTENDS SnapshotManager, FiniteSetTheorems, TLAPS

\* An empty snapshot pins nothing (NewManager, and a lease given back).
LEMMA EmptyPins == Pinned(EmptySnapshot) = {}
  BY DEF Pinned, EmptySnapshot

\* A snapshot pins runtimes only.
LEMMA PinnedType == ASSUME NEW s \in Snapshots PROVE Pinned(s) \subseteq Runtimes
  BY DEF Pinned, Snapshots

\* What Publish assembles is a snapshot again, with n in and the old runtime out.
LEMMA ReplacedPins ==
  ASSUME NEW s \in Snapshots, NEW a \in Apps, NEW n \in Runtimes \cup {None},
         \A b, c \in Apps : s[b] = s[c] /\ s[b] # None => b = c
  PROVE  /\ Replaced(s, a, n) \in Snapshots
         /\ Pinned(Replaced(s, a, n)) = (Pinned(s) \ {s[a]}) \cup ({n} \ {None})
  BY DEF Replaced, Pinned, Snapshots

\* The leases pinning a runtime, and the busy ones, can be counted.
LEMMA FiniteHolders ==
  /\ \A r \in Runtimes : IsFiniteSet(Holders(r)) /\ Cardinality(Holders(r)) \in Nat
  /\ IsFiniteSet(Busy) /\ Cardinality(Busy) \in Nat
<1>1. \A r \in Runtimes : Holders(r) \subseteq Leases
  BY DEF Holders
<1>2. Busy \subseteq Leases
  BY DEF Busy
<1> QED BY <1>1, <1>2, FS_Subset, FS_CardinalityType, LeasesFinite

\* A reference count is zero exactly when no lease pins the runtime.
LEMMA ZeroMeansFree ==
  ASSUME CountInv, NEW r \in Runtimes, refs[r] = 0 PROVE Holders(r) = {}
  BY FiniteHolders, FS_EmptySet DEF CountInv

\* Init establishes the invariant.
LEMMA InitInv == Init => IInv
<1> SUFFICES ASSUME Init PROVE IInv
  OBVIOUS
<1>1. EmptySnapshot \in Snapshots
  BY DEF EmptySnapshot, Snapshots
<1>2. TypeOK
  <2>1. /\ refs \in [Runtimes -> Int] /\ lpc \in [Leases -> {"idle", "held", "closing"}]
        /\ lsnap \in [Leases -> Snapshots] /\ ldoomed \in [Leases -> SUBSET Runtimes]
    BY <1>1, SMT DEF Init
  <2>2. /\ ppc \in [Publishers -> {"idle", "persist", "swap", "close", "abandon"}]
        /\ papp \in [Publishers -> Apps \cup {None}]
        /\ pnext \in [Publishers -> Runtimes \cup {None}]
        /\ pold \in [Publishers -> Snapshots] /\ pver \in [Publishers -> Nat]
        /\ pdoomed \in [Publishers -> SUBSET Runtimes]
    BY <1>1, SMT DEF Init
  <2>3. /\ cpc \in [Closers -> {"idle", "closing", "waiting", "drained", "timeout"}]
        /\ cdoomed \in [Closers -> SUBSET Runtimes]
    BY SMT DEF Init
  <2>4. /\ current \in Snapshots /\ version \in Nat /\ active \in Int /\ drained \in Nat
        /\ publishMu \in Publishers \cup Closers \cup {None}
        /\ retired \subseteq Runtimes /\ closed \subseteq Runtimes /\ built \subseteq Runtimes
    BY <1>1 DEF Init
  <2>5. mgrClosed \in BOOLEAN
    BY Zenon DEF Init
  <2> QED BY <2>1, <2>2, <2>3, <2>4, <2>5 DEF TypeOK
<1>3. LockInv /\ PublisherInv /\ CandidateInv /\ CloserInv
  BY DEF Init, LockInv, PublisherInv, CandidateInv, CloserInv, InPublish
<1>4. SnapshotInv /\ DeadInv
  BY EmptyPins DEF Init, SnapshotInv, DeadInv, EmptySnapshot
<1>5. CountInv
  <2>1. \A r \in Runtimes : Holders(r) = {}
    BY EmptyPins DEF Init, Holders
  <2>2. Busy = {}
    BY DEF Init, Busy
  <2> QED BY <2>1, <2>2, FS_EmptySet DEF Init, CountInv
<1>6. EveryRuntimeAccounted
  BY DEF Init, EveryRuntimeAccounted
<1> QED BY <1>2, <1>3, <1>4, <1>5, <1>6 DEF IInv

LEMMA AcquireInv ==
  ASSUME IInv, NEW l \in Leases, Acquire(l) PROVE IInv'
<1> USE DEF IInv
<1>1. TypeOK'
  <2>1. Pinned(current) \subseteq Runtimes /\ current \in Snapshots
    BY PinnedType DEF TypeOK
  <2>2. refs' \in [Runtimes -> Int] /\ active' \in Int
    BY DEF Acquire, Counted, TypeOK
  <2> QED BY <2>1, <2>2 DEF Acquire, TypeOK, mgrVars, pubVars, closeVars
<1>2. LockInv' /\ PublisherInv' /\ CloserInv'
  BY DEF Acquire, LockInv, PublisherInv, CloserInv, mgrVars, pubVars, closeVars
<1>3. /\ lsnap' = [lsnap EXCEPT ![l] = current] /\ lpc' = [lpc EXCEPT ![l] = "held"]
      /\ current' = current /\ retired' = retired /\ built' = built /\ pnext' = pnext
      /\ mgrClosed = FALSE /\ mgrClosed' = FALSE /\ closed' = closed /\ ldoomed' = ldoomed
      /\ pdoomed' = pdoomed /\ cdoomed' = cdoomed
      /\ lsnap \in [Leases -> Snapshots] /\ lpc[l] = "idle"
      /\ lpc \in [Leases -> {"idle", "held", "closing"}]
  BY DEF Acquire, mgrVars, pubVars, closeVars, TypeOK
<1>4. lsnap'[l] = current /\ (\A m \in Leases \ {l} : lsnap'[m] = lsnap[m] /\ lpc'[m] = lpc[m])
  BY <1>3
<1>5. CandidateInv'
  BY <1>3, <1>4 DEF CandidateInv
<1>6. SnapshotInv'
  BY <1>3, <1>4 DEF SnapshotInv
<1>7. \A r : r \notin Pinned(current) => Holders(r)' = Holders(r)
  BY <1>3, <1>4, EmptyPins DEF Holders, SnapshotInv
<1>8. \A r : r \in Pinned(current) => l \notin Holders(r) /\ Holders(r)' = Holders(r) \cup {l}
  BY <1>3, <1>4, EmptyPins DEF Holders, SnapshotInv
<1>9. DeadInv'
  <2>1. \A r : Gone(r) => Gone(r)'
    BY <1>3 DEF Gone
  <2>2. \A r : Dead(r) => Dead(r)'
    BY <1>3, <1>7, <2>1 DEF Dead, Gone
  <2> QED BY <2>1, <2>2, <1>3 DEF DeadInv
<1>10. CountInv'
  <2>1. \A r \in Runtimes : refs'[r] = Cardinality(Holders(r)')
    <3> TAKE r \in Runtimes
    <3>1. CASE r \in Pinned(current)
      BY <3>1, <1>8, FiniteHolders, FS_AddElement DEF CountInv, Acquire, Counted
    <3>2. CASE r \notin Pinned(current)
      BY <3>2, <1>7 DEF CountInv, Acquire, Counted
    <3> QED BY <3>1, <3>2
  <2>2. l \notin Busy /\ Busy' = Busy \cup {l}
    BY <1>3, <1>4 DEF Busy
  <2>3. active' = Cardinality(Busy')
    BY <2>2, FiniteHolders, FS_AddElement DEF CountInv, Acquire
  <2>4. drained' = IF mgrClosed' /\ active' = 0 THEN 1 ELSE 0
    BY <1>3 DEF CountInv, Acquire
  <2> QED BY <2>1, <2>3, <2>4 DEF CountInv
<1>11. EveryRuntimeAccounted'
  BY <1>3, <1>4, EmptyPins DEF EveryRuntimeAccounted, SnapshotInv
<1> QED BY <1>1, <1>2, <1>5, <1>6, <1>9, <1>10, <1>11

LEMMA ReleaseInv ==
  ASSUME IInv, NEW l \in Leases, Release(l) PROVE IInv'
<1> USE DEF IInv
<1>1. /\ lpc[l] = "held"
      /\ lpc' = [lpc EXCEPT ![l] = "closing"]
      /\ lsnap' = [lsnap EXCEPT ![l] = EmptySnapshot]
      /\ refs' = Counted(refs, lsnap[l], -1)
      /\ ldoomed' = [ldoomed EXCEPT ![l] = Closable(Pinned(lsnap[l]), refs', retired)]
      /\ UNCHANGED <<mgrVars, retired, built, closed, active, drained, pubVars, closeVars>>
      /\ UNCHANGED <<current, mgrClosed, pnext, pdoomed, cdoomed>>
      /\ lsnap \in [Leases -> Snapshots] /\ lsnap[l] \in Snapshots
      /\ ldoomed \in [Leases -> SUBSET Runtimes]
      /\ lpc \in [Leases -> {"idle", "held", "closing"}]
  BY DEF Release, mgrVars, pubVars, closeVars, TypeOK
<1>2. /\ lsnap'[l] = EmptySnapshot /\ lpc'[l] = "closing"
      /\ ldoomed'[l] = {r \in Pinned(lsnap[l]) : refs'[r] = 0 /\ r \in retired}
      /\ \A m \in Leases \ {l} : lsnap'[m] = lsnap[m] /\ lpc'[m] = lpc[m] /\ ldoomed'[m] = ldoomed[m]
  BY <1>1 DEF Closable
<1>3. Pinned(lsnap[l]) \subseteq Runtimes
  BY <1>1, PinnedType
<1>4. TypeOK'
  <2>1. EmptySnapshot \in Snapshots
    BY DEF EmptySnapshot, Snapshots
  <2>2. refs' \in [Runtimes -> Int]
    BY <1>1 DEF Counted, TypeOK
  <2>3. ldoomed' \in [Leases -> SUBSET Runtimes]
    BY <1>1, <1>3 DEF Closable
  <2>4. lpc' \in [Leases -> {"idle", "held", "closing"}] /\ lsnap' \in [Leases -> Snapshots]
    BY <1>1, <2>1
  <2> QED BY <1>1, <2>2, <2>3, <2>4 DEF TypeOK, mgrVars, pubVars, closeVars
<1>5. LockInv' /\ PublisherInv' /\ CloserInv'
  BY <1>1 DEF LockInv, PublisherInv, CloserInv, mgrVars, pubVars, closeVars
<1>6. CandidateInv'
  BY <1>1, <1>2, EmptyPins DEF CandidateInv
<1>7. SnapshotInv'
  BY <1>1, <1>2, EmptyPins DEF SnapshotInv
<1>8. \A r : r \notin Pinned(lsnap[l]) => Holders(r)' = Holders(r)
  BY <1>1, <1>2, EmptyPins DEF Holders
<1>9. \A r : r \in Pinned(lsnap[l]) => l \in Holders(r) /\ Holders(r)' = Holders(r) \ {l}
  BY <1>1, <1>2, EmptyPins DEF Holders
<1>10. CountInv'
  <2>1. \A r \in Runtimes : refs'[r] = Cardinality(Holders(r)')
    <3> TAKE r \in Runtimes
    <3>1. CASE r \in Pinned(lsnap[l])
      BY <3>1, <1>1, <1>9, FiniteHolders, FS_RemoveElement DEF CountInv, Counted
    <3>2. CASE r \notin Pinned(lsnap[l])
      BY <3>2, <1>1, <1>8 DEF CountInv, Counted
    <3> QED BY <3>1, <3>2
  <2>2. Busy' = Busy
    BY <1>1, <1>2 DEF Busy
  <2> QED BY <2>1, <2>2, <1>1 DEF CountInv
<1>11. DeadInv'
  <2>1. \A r : Gone(r) => Gone(r)'
    BY <1>1 DEF Gone
  <2>2. \A r : Dead(r) => Dead(r)'
    BY <1>8, <1>9, <2>1 DEF Dead
  <2>3. \A r \in ldoomed'[l] : Dead(r)'
    <3> TAKE r \in ldoomed'[l]
    <3>1. r \in Runtimes /\ refs'[r] = 0 /\ r \in retired
      BY <1>2, <1>3
    <3>2. Holders(r)' = {}
      BY <3>1, <1>10, FiniteHolders, FS_EmptySet, FS_Subset, LeasesFinite DEF CountInv, Holders
    <3> QED BY <3>1, <3>2, <2>1 DEF Dead, DeadInv
  <2> QED BY <2>1, <2>2, <2>3, <1>1, <1>2 DEF DeadInv
<1>12. EveryRuntimeAccounted'
  <2> SUFFICES ASSUME NEW r \in built PROVE
        \/ r \in closed
        \/ ~mgrClosed /\ r \in Pinned(current)
        \/ \E m \in Leases : r \in Pinned(lsnap'[m]) \cup ldoomed'[m]
        \/ \E p \in Publishers : r \in {pnext[p]} \cup pdoomed[p]
        \/ \E c \in Closers : r \in cdoomed[c]
    BY <1>1 DEF EveryRuntimeAccounted
  <2>1. CASE r \in Pinned(lsnap[l])
    <3>1. CASE Holders(r)' = {}
      <4>1. refs'[r] = 0
        BY <3>1, <2>1, <1>3, <1>10, FS_EmptySet DEF CountInv
      <4>2. r \in retired \/ (~mgrClosed /\ r \in Pinned(current))
        BY <2>1 DEF SnapshotInv
      <4> QED BY <4>1, <4>2, <2>1, <1>2
    <3>2. CASE Holders(r)' # {}
      BY <3>2 DEF Holders
    <3> QED BY <3>1, <3>2
  <2>2. CASE r \notin Pinned(lsnap[l])
    <3>1. ldoomed[l] = {}
      BY <1>1 DEF SnapshotInv
    <3> QED BY <3>1, <2>2, <1>2 DEF EveryRuntimeAccounted
  <2> QED BY <2>1, <2>2
<1> QED BY <1>4, <1>5, <1>6, <1>7, <1>10, <1>11, <1>12

LEMMA CloseDoomedInv ==
  ASSUME IInv, NEW l \in Leases, CloseDoomed(l) PROVE IInv'
<1> USE DEF IInv
<1>1. PICK r \in ldoomed[l] : /\ closed' = closed \cup {r}
                              /\ ldoomed' = [ldoomed EXCEPT ![l] = @ \ {r}]
  BY DEF CloseDoomed
<1>2. /\ lpc[l] = "closing" /\ lpc' = lpc /\ ldoomed \in [Leases -> SUBSET Runtimes]
      /\ UNCHANGED <<mgrVars, rtVars, active, drained, lpc, lsnap, pubVars, closeVars>>
  BY DEF CloseDoomed, TypeOK
<1>3. \A m \in Leases : ldoomed'[m] \subseteq ldoomed[m] /\ ldoomed[m] \subseteq ldoomed'[m] \cup {r}
  BY <1>1, <1>2
<1>4. TypeOK'
  BY <1>1, <1>2 DEF TypeOK, mgrVars, rtVars, pubVars, closeVars
<1>5. LockInv' /\ PublisherInv' /\ CloserInv' /\ CandidateInv'
  BY <1>2 DEF LockInv, PublisherInv, CloserInv, CandidateInv, mgrVars, rtVars, pubVars, closeVars
<1>6. SnapshotInv'
  BY <1>2, <1>3 DEF SnapshotInv, mgrVars, rtVars
<1>7. CountInv'
  BY <1>2 DEF CountInv, Holders, Busy, mgrVars, rtVars
<1>8. DeadInv'
  BY <1>1, <1>2, <1>3 DEF DeadInv, Dead, Gone, Holders, mgrVars, rtVars, pubVars, closeVars
<1>9. EveryRuntimeAccounted'
  BY <1>1, <1>2, <1>3 DEF EveryRuntimeAccounted, mgrVars, rtVars, pubVars, closeVars
<1> QED BY <1>4, <1>5, <1>6, <1>7, <1>8, <1>9

LEMMA ReleaseDoneInv ==
  ASSUME IInv, NEW l \in Leases, ReleaseDone(l) PROVE IInv'
<1> USE DEF IInv
<1>1. /\ lpc[l] = "closing" /\ ldoomed[l] = {}
      /\ active' = active - 1
      /\ drained' = IF mgrClosed /\ active' = 0 THEN drained + 1 ELSE drained
      /\ lpc' = [lpc EXCEPT ![l] = "idle"]
      /\ UNCHANGED <<mgrVars, rtVars, closed, lsnap, ldoomed, pubVars, closeVars>>
      /\ lpc \in [Leases -> {"idle", "held", "closing"}]
  BY DEF ReleaseDone, SignalsDrained, TypeOK
<1>2. lpc'[l] = "idle" /\ \A m \in Leases \ {l} : lpc'[m] = lpc[m]
  BY <1>1
<1>3. TypeOK'
  BY <1>1 DEF TypeOK, mgrVars, rtVars, pubVars, closeVars
<1>4. LockInv' /\ PublisherInv' /\ CandidateInv'
  BY <1>1 DEF LockInv, PublisherInv, CandidateInv, mgrVars, rtVars, pubVars, closeVars
<1>5. SnapshotInv'
  BY <1>1, <1>2 DEF SnapshotInv, mgrVars, rtVars
<1>6. DeadInv' /\ EveryRuntimeAccounted'
  BY <1>1 DEF DeadInv, Dead, Gone, Holders, EveryRuntimeAccounted, mgrVars, rtVars, pubVars, closeVars
<1>7. CountInv'
  <2>1. \A r \in Runtimes : refs'[r] = Cardinality(Holders(r)')
    BY <1>1 DEF CountInv, Holders, rtVars
  <2>2. l \in Busy /\ Busy' = Busy \ {l}
    BY <1>1, <1>2 DEF Busy
  <2>3. Cardinality(Busy') = Cardinality(Busy) - 1 /\ Cardinality(Busy) # 0
    BY <2>2, FiniteHolders, FS_RemoveElement, FS_EmptySet
  <2> QED BY <2>1, <2>3, <1>1, FiniteHolders DEF CountInv, mgrVars
<1>8. CloserInv'
  <2>1. drained' >= drained
    BY <1>1 DEF TypeOK
  <2> QED BY <1>1, <2>1 DEF CloserInv, closeVars, TypeOK
<1> QED BY <1>3, <1>4, <1>5, <1>6, <1>7, <1>8

\* Publishing: the lock makes the base of a publication the current snapshot.
LEMMA PublishBeginInv ==
  ASSUME IInv, NEW p \in Publishers, NEW a \in Apps, NEW n \in Runtimes \cup {None},
         PublishBegin(p, a, n)
  PROVE IInv'
<1> USE DEF IInv
<1>1. /\ ppc[p] = "idle" /\ publishMu = None /\ n \notin built
      /\ built' = built \cup ({n} \ {None})
      /\ pnext' = [pnext EXCEPT ![p] = n]
      /\ UNCHANGED <<current, version, mgrClosed, refs, retired, closed, active, drained,
                     lpc, lsnap, ldoomed, pdoomed, cpc, cdoomed>>
  BY DEF PublishBegin, PublishMuFree, leaseVars, closeVars
<1>2. \/ /\ mgrClosed
         /\ ppc' = [ppc EXCEPT ![p] = "abandon"]
         /\ UNCHANGED <<papp, pold, pver, publishMu>>
      \/ /\ ~mgrClosed /\ publishMu' = p
         /\ ppc' = [ppc EXCEPT ![p] = "persist"]
         /\ papp' = [papp EXCEPT ![p] = a]
         /\ pold' = [pold EXCEPT ![p] = current]
         /\ pver' = [pver EXCEPT ![p] = version]
  BY DEF PublishBegin
<1>3. TypeOK
  OBVIOUS
<1>4. pnext'[p] = n /\ (\A q \in Publishers \ {p} : pnext'[q] = pnext[q] /\ ppc'[q] = ppc[q])
  BY <1>1, <1>2 DEF TypeOK
<1>5. TypeOK'
  <2>1. mgrClosed \in BOOLEAN /\ built' \subseteq Runtimes
        /\ pnext' \in [Publishers -> Runtimes \cup {None}]
    BY <1>1 DEF TypeOK
  <2>2. /\ ppc' \in [Publishers -> {"idle", "persist", "swap", "close", "abandon"}]
        /\ papp' \in [Publishers -> Apps \cup {None}]
        /\ pold' \in [Publishers -> Snapshots] /\ pver' \in [Publishers -> Nat]
        /\ publishMu' \in Publishers \cup Closers \cup {None}
    BY <1>2 DEF TypeOK
  <2> QED BY <1>1, <2>1, <2>2 DEF TypeOK
<1>6. LockInv'
  BY <1>1, <1>2, NoneIsNone, <1>3 DEF LockInv, InPublish, TypeOK
<1>7. PublisherInv'
  BY <1>1, <1>2, NoneIsNone, <1>3 DEF PublisherInv, TypeOK
<1>8. CandidateInv'
  <2>1. n # None => /\ n \notin Pinned(current)
                    /\ \A m \in Leases : n \notin Pinned(lsnap[m])
    BY <1>1 DEF SnapshotInv
  <2>2. n # None => \A q \in Publishers \ {p} : pnext[q] # n
    BY <1>1 DEF CandidateInv
  <2> QED BY <1>1, <1>4, <2>1, <2>2 DEF CandidateInv
<1>9. SnapshotInv'
  BY <1>1 DEF SnapshotInv
<1>10. CountInv' /\ CloserInv'
  BY <1>1 DEF CountInv, CloserInv, Holders, Busy
<1>11. DeadInv'
  <2>1. \A r : Gone(r) => Gone(r)'
    BY <1>1, <1>4 DEF Gone
  <2> QED BY <1>1, <2>1 DEF DeadInv, Dead, Holders
<1>12. EveryRuntimeAccounted'
  <2>1. \A r \in built : EveryRuntimeAccounted => r \in closed
        \/ (~mgrClosed /\ r \in Pinned(current))
        \/ (\E m \in Leases : r \in Pinned(lsnap[m]) \cup ldoomed[m])
        \/ (\E q \in Publishers : r \in {pnext[q]} \cup pdoomed[q])
        \/ (\E c \in Closers : r \in cdoomed[c])
    BY DEF EveryRuntimeAccounted
  <2>2. pnext[p] = None /\ None \notin built
    BY <1>1, NoneIsNone DEF PublisherInv, TypeOK
  <2> QED BY <1>1, <1>4, <2>1, <2>2 DEF EveryRuntimeAccounted
<1> QED BY <1>5, <1>6, <1>7, <1>8, <1>9, <1>10, <1>11, <1>12

LEMMA PersistInv ==
  ASSUME IInv, NEW p \in Publishers, Persist(p) PROVE IInv'
<1> USE DEF IInv
<1>1. /\ ppc[p] = "persist"
      /\ UNCHANGED <<current, version, mgrClosed, refs, retired, built, closed, active, drained,
                     lpc, lsnap, ldoomed, pnext, pdoomed, cpc, cdoomed>>
  BY DEF Persist, rtVars, leaseVars, closeVars
<1>2. \/ /\ ppc' = [ppc EXCEPT ![p] = "swap"]
         /\ UNCHANGED <<publishMu, pold, pver, papp>>
      \/ /\ ppc' = [ppc EXCEPT ![p] = "abandon"]
         /\ publishMu' = None
         /\ pold' = [pold EXCEPT ![p] = EmptySnapshot]
         /\ pver' = [pver EXCEPT ![p] = 0]
         /\ papp' = [papp EXCEPT ![p] = None]
  BY DEF Persist, Return
<1>3. TypeOK /\ EmptySnapshot \in Snapshots
  BY DEF EmptySnapshot, Snapshots
<1>4. TypeOK'
  <2>1. /\ ppc' \in [Publishers -> {"idle", "persist", "swap", "close", "abandon"}]
        /\ papp' \in [Publishers -> Apps \cup {None}]
        /\ pold' \in [Publishers -> Snapshots] /\ pver' \in [Publishers -> Nat]
        /\ publishMu' \in Publishers \cup Closers \cup {None}
    BY <1>2, <1>3 DEF TypeOK
  <2> QED BY <1>1, <2>1 DEF TypeOK
<1>5. LockInv' /\ PublisherInv'
  <2>1. publishMu = p /\ \A q \in Publishers \ {p} : ppc[q] \notin InPublish
    BY <1>1 DEF LockInv, InPublish
  <2>2. \A c \in Closers : cpc[c] # "closing"
    BY <2>1, ThreadsDisjoint DEF LockInv
  <2>3. \A q \in Publishers \ {p} : ppc'[q] = ppc[q]
    BY <1>2, <1>3 DEF TypeOK
  <2>4. ppc'[p] \in {"swap", "abandon"} /\ (ppc'[p] = "swap" => UNCHANGED <<publishMu, pold, pver, papp>>)
    BY <1>2, <1>3 DEF TypeOK
  <2>5. LockInv'
    BY <1>1, <2>1, <2>2, <2>3, <2>4 DEF LockInv, InPublish
  <2>6. PublisherInv'
    BY <1>1, <2>1, <2>3, <2>4 DEF PublisherInv, InPublish
  <2> QED BY <2>5, <2>6
<1>6. CandidateInv' /\ SnapshotInv' /\ CountInv' /\ CloserInv'
  BY <1>1 DEF CandidateInv, SnapshotInv, CountInv, CloserInv, Holders, Busy
<1>7. DeadInv' /\ EveryRuntimeAccounted'
  BY <1>1 DEF DeadInv, Dead, Gone, Holders, EveryRuntimeAccounted
<1> QED BY <1>4, <1>5, <1>6, <1>7

LEMMA SwapInv ==
  ASSUME IInv, NEW p \in Publishers, Swap(p) PROVE IInv'
<1> USE DEF IInv
<1> DEFINE a == papp[p]
           n == pnext[p]
           out == {current[a]} \ {None, n}
<1>1. /\ ppc[p] = "swap" /\ a \in Apps /\ pold[p] = current /\ pver[p] = version
      /\ n \in Runtimes \cup {None} /\ current \in Snapshots /\ publishMu = p /\ ~mgrClosed
  BY DEF Swap, PublisherInv, TypeOK, LockInv, InPublish
<1>2. /\ current' = Replaced(current, a, n)
      /\ version' = version + 1
      /\ retired' = retired \cup out
      /\ pdoomed' = [pdoomed EXCEPT ![p] = Closable(out, refs, retired')]
      /\ ppc' = [ppc EXCEPT ![p] = "close"]
      /\ pnext' = [pnext EXCEPT ![p] = None]
      /\ UNCHANGED <<mgrClosed, publishMu, refs, built, closed, active, drained,
                     lpc, lsnap, ldoomed, papp, pold, pver, cpc, cdoomed>>
  BY <1>1 DEF Swap, Superseded, leaseVars, closeVars
<1>3. TypeOK
  OBVIOUS
<1>4. /\ current' \in Snapshots
      /\ Pinned(current') = (Pinned(current) \ {current[a]}) \cup ({n} \ {None})
  BY <1>1, <1>2, ReplacedPins DEF SnapshotInv
<1>5. /\ pnext'[p] = None /\ ppc'[p] = "close"
      /\ pdoomed'[p] = {r \in out : refs[r] = 0}
      /\ \A q \in Publishers \ {p} : /\ pnext'[q] = pnext[q]
                                     /\ ppc'[q] = ppc[q] /\ pdoomed'[q] = pdoomed[q]
  BY <1>2, <1>3 DEF TypeOK, Closable
<1>6. out \subseteq Pinned(current) /\ out \subseteq Runtimes /\ n \notin Pinned(current)
  BY <1>1, NoneIsNone DEF Pinned, Snapshots, CandidateInv
<1>7. TypeOK'
  <2>1. /\ retired' \subseteq Runtimes /\ version' \in Nat
        /\ pdoomed' \in [Publishers -> SUBSET Runtimes]
    BY <1>2, <1>3, <1>6 DEF TypeOK, Closable
  <2>2. /\ ppc' \in [Publishers -> {"idle", "persist", "swap", "close", "abandon"}]
        /\ pnext' \in [Publishers -> Runtimes \cup {None}]
    BY <1>2, <1>3 DEF TypeOK
  <2> QED BY <1>2, <1>4, <2>1, <2>2 DEF TypeOK
<1>8. LockInv'
  BY <1>1, <1>2, <1>5 DEF LockInv, InPublish
<1>9. PublisherInv'
  <2>1. \A q \in Publishers \ {p} : ppc[q] \notin InPublish
    BY <1>1 DEF LockInv
  <2>2. \A r, s \in pdoomed'[p] : r = s
    BY <1>5
  <2>3. \A q \in Publishers \ {p} : ppc'[q] \notin {"persist", "swap"}
    BY <1>5, <2>1 DEF InPublish
  <2> QED BY <1>5, <2>2, <2>3 DEF PublisherInv
<1>10. CandidateInv'
  BY <1>2, <1>4, <1>5 DEF CandidateInv
<1>11. SnapshotInv'
  <2>1. Pinned(current') \subseteq built
    BY <1>4 DEF SnapshotInv, CandidateInv
  <2>2. \A b, c \in Apps : current'[b] = current'[c] /\ current'[b] # None => b = c
    <3>1. n # None => \A b \in Apps : current[b] # n
      BY <1>6 DEF Pinned
    <3> QED BY <3>1, <1>1, <1>2 DEF Replaced, SnapshotInv, Snapshots
  <2>3. \A m \in Leases : Pinned(lsnap[m]) \subseteq retired' \cup Pinned(current')
    <3>1. \A m \in Leases : n # None => n \notin Pinned(lsnap[m])
      BY DEF CandidateInv
    <3> QED BY <1>2, <1>4, <3>1 DEF SnapshotInv, Pinned
  <2> QED BY <1>1, <1>2, <2>1, <2>2, <2>3 DEF SnapshotInv
<1>12. CountInv' /\ CloserInv'
  BY <1>2 DEF CountInv, CloserInv, Holders, Busy
<1>13. DeadInv'
  <2>1. \A r : Gone(r) => Gone(r)'
    <3>1. \A r : Gone(r) => r # n /\ r \notin Pinned(current)
      BY <1>1 DEF Gone
    <3>2. \A r : Gone(r) => r \in built /\ \A q \in Publishers \ {p} : pnext[q] # r
      BY DEF Gone
    <3>3. \A r : r \in built => r # None
      BY <1>3, NoneIsNone DEF TypeOK
    <3> QED BY <3>1, <3>2, <3>3, <1>2, <1>4, <1>5 DEF Gone
  <2>2. \A r \in out : Gone(r)'
    <3> TAKE r \in out
    <3>1. r \in built /\ r \notin Pinned(current')
      BY <1>4, <1>6 DEF SnapshotInv
    <3>2. \A q \in Publishers : pnext'[q] # r
      BY <1>5, <1>6 DEF CandidateInv
    <3> QED BY <3>1, <3>2, <1>2 DEF Gone
  <2>3. \A r : Dead(r) => Dead(r)'
    BY <1>2, <2>1 DEF Dead, Holders
  <2>4. \A r \in pdoomed'[p] : Dead(r)'
    <3> TAKE r \in pdoomed'[p]
    <3>1. Holders(r) = {}
      BY <1>5, <1>6, ZeroMeansFree
    <3> QED BY <1>2, <1>5, <2>2, <3>1 DEF Dead, Holders
  <2> QED BY <1>2, <1>5, <2>1, <2>2, <2>3, <2>4 DEF DeadInv
<1>14. EveryRuntimeAccounted'
  <2> SUFFICES ASSUME NEW r \in built PROVE
        \/ r \in closed
        \/ r \in Pinned(current')
        \/ \E m \in Leases : r \in Pinned(lsnap[m]) \cup ldoomed[m]
        \/ \E q \in Publishers : r \in {pnext'[q]} \cup pdoomed'[q]
        \/ \E c \in Closers : r \in cdoomed[c]
    BY <1>1, <1>2 DEF EveryRuntimeAccounted
  <2>1. CASE r \in out
    <3>1. CASE refs[r] = 0
      BY <2>1, <3>1, <1>5
    <3>2. CASE refs[r] # 0
      <4>1. Holders(r) # {}
        BY <3>2, <2>1, <1>6, FS_EmptySet DEF CountInv
      <4> QED BY <4>1 DEF Holders
    <3> QED BY <3>1, <3>2
  <2>2. CASE r = n
    BY <2>2, <1>3, <1>4, NoneIsNone DEF TypeOK
  <2>3. CASE r # n /\ r \notin out
    <3>1. r \in Pinned(current) => r \in Pinned(current')
      BY <2>3, <1>4 DEF Pinned
    <3>2. pdoomed[p] = {}
      BY <1>1 DEF PublisherInv
    <3> QED BY <2>3, <3>1, <3>2, <1>5 DEF EveryRuntimeAccounted
  <2> QED BY <2>1, <2>2, <2>3
<1> QED BY <1>7, <1>8, <1>9, <1>10, <1>11, <1>12, <1>13, <1>14

LEMMA PublishDoneInv ==
  ASSUME IInv, NEW p \in Publishers, PublishDone(p) PROVE IInv'
<1> USE DEF IInv
<1>1. /\ ppc[p] = "close"
      /\ closed' = closed \cup pdoomed[p]
      /\ pdoomed' = [pdoomed EXCEPT ![p] = {}]
      /\ publishMu' = None
      /\ ppc' = [ppc EXCEPT ![p] = "idle"]
      /\ pold' = [pold EXCEPT ![p] = EmptySnapshot]
      /\ pver' = [pver EXCEPT ![p] = 0]
      /\ papp' = [papp EXCEPT ![p] = None]
      /\ UNCHANGED <<current, version, mgrClosed, refs, retired, built, active, drained,
                     lpc, lsnap, ldoomed, pnext, cpc, cdoomed>>
  BY DEF PublishDone, Return, rtVars, leaseVars, closeVars
<1>2. TypeOK /\ EmptySnapshot \in Snapshots
  BY DEF EmptySnapshot, Snapshots
<1>3. TypeOK'
  <2>1. /\ closed' \subseteq Runtimes /\ publishMu' \in Publishers \cup Closers \cup {None}
        /\ pdoomed' \in [Publishers -> SUBSET Runtimes]
        /\ ppc' \in [Publishers -> {"idle", "persist", "swap", "close", "abandon"}]
    BY <1>1, <1>2 DEF TypeOK
  <2>2. /\ papp' \in [Publishers -> Apps \cup {None}]
        /\ pold' \in [Publishers -> Snapshots] /\ pver' \in [Publishers -> Nat]
    BY <1>1, <1>2 DEF TypeOK
  <2> QED BY <1>1, <2>1, <2>2 DEF TypeOK
<1>4. /\ pdoomed'[p] = {} /\ ppc'[p] = "idle"
      /\ \A q \in Publishers \ {p} : pdoomed'[q] = pdoomed[q] /\ ppc'[q] = ppc[q]
  BY <1>1, <1>2 DEF TypeOK
<1>5. publishMu = p /\ (\A q \in Publishers \ {p} : ppc[q] \notin InPublish)
      /\ \A c \in Closers : cpc[c] # "closing"
  BY <1>1, ThreadsDisjoint DEF LockInv, InPublish
<1>6. LockInv'
  BY <1>1, <1>4, <1>5 DEF LockInv, InPublish
<1>7. PublisherInv'
  <2>1. pnext[p] = None
    BY <1>1 DEF PublisherInv
  <2>2. \A q \in Publishers \ {p} : ppc'[q] \notin {"persist", "swap"}
    BY <1>4, <1>5 DEF InPublish
  <2> QED BY <1>1, <1>4, <2>1, <2>2 DEF PublisherInv
<1>8. CandidateInv' /\ SnapshotInv' /\ CountInv' /\ CloserInv'
  BY <1>1 DEF CandidateInv, SnapshotInv, CountInv, CloserInv, Holders, Busy
<1>9. DeadInv'
  BY <1>1, <1>4 DEF DeadInv, Dead, Gone, Holders
<1>10. EveryRuntimeAccounted'
  BY <1>1, <1>4 DEF EveryRuntimeAccounted
<1> QED BY <1>3, <1>6, <1>7, <1>8, <1>9, <1>10

LEMMA AbandonCandidateInv ==
  ASSUME IInv, NEW p \in Publishers, AbandonCandidate(p) PROVE IInv'
<1> USE DEF IInv
<1>1. /\ ppc[p] = "abandon"
      /\ closed' = closed \cup ({pnext[p]} \ {None})
      /\ pnext' = [pnext EXCEPT ![p] = None]
      /\ ppc' = [ppc EXCEPT ![p] = "idle"]
      /\ UNCHANGED <<current, version, mgrClosed, publishMu, refs, retired, built, active, drained,
                     lpc, lsnap, ldoomed, papp, pold, pver, pdoomed, cpc, cdoomed>>
  BY DEF AbandonCandidate, mgrVars, rtVars, leaseVars, closeVars
<1>2. TypeOK
  OBVIOUS
<1>3. TypeOK'
  <2>1. /\ closed' \subseteq Runtimes
        /\ pnext' \in [Publishers -> Runtimes \cup {None}]
        /\ ppc' \in [Publishers -> {"idle", "persist", "swap", "close", "abandon"}]
    BY <1>1, <1>2 DEF TypeOK
  <2> QED BY <1>1, <2>1 DEF TypeOK
<1>4. /\ pnext'[p] = None /\ ppc'[p] = "idle"
      /\ \A q \in Publishers \ {p} : pnext'[q] = pnext[q] /\ ppc'[q] = ppc[q]
  BY <1>1, <1>2 DEF TypeOK
<1>5. LockInv' /\ PublisherInv' /\ CandidateInv'
  BY <1>1, <1>4 DEF LockInv, PublisherInv, CandidateInv, InPublish
<1>6. SnapshotInv' /\ CountInv' /\ CloserInv'
  BY <1>1 DEF SnapshotInv, CountInv, CloserInv, Holders, Busy
<1>7. DeadInv'
  <2>1. \A r : Gone(r) => Gone(r)'
    <3>1. \A r : r \in built => r # None
      BY <1>2, NoneIsNone DEF TypeOK
    <3> QED BY <3>1, <1>1, <1>4 DEF Gone
  <2>2. \A r : Dead(r) => Dead(r)'
    BY <2>1, <1>1 DEF Dead, Holders
  <2>3. \A r : r = pnext[p] /\ r # None => Dead(r)'
    <3> SUFFICES ASSUME NEW r, r = pnext[p], r # None PROVE Dead(r)'
      OBVIOUS
    <3>1. Gone(r)'
      BY <1>1, <1>4 DEF Gone, CandidateInv
    <3> QED BY <3>1, <1>1 DEF Dead, Holders, CandidateInv
  <2>4. \A r \in closed' : Dead(r)'
    BY <2>2, <2>3, <1>1 DEF DeadInv
  <2> QED BY <2>1, <2>2, <2>4, <1>1 DEF DeadInv
<1>8. EveryRuntimeAccounted'
  <2>1. None \notin built
    BY <1>2, NoneIsNone DEF TypeOK
  <2> QED BY <2>1, <1>1, <1>4 DEF EveryRuntimeAccounted
<1> QED BY <1>3, <1>5, <1>6, <1>7, <1>8

\* Close retires the published snapshot once and flushes the publishers.
LEMMA CloseBeginInv ==
  ASSUME IInv, NEW c \in Closers, CloseBegin(c) PROVE IInv'
<1> USE DEF IInv
<1>1. /\ cpc[c] = "idle" /\ publishMu = None /\ publishMu' = c
      /\ cpc' = [cpc EXCEPT ![c] = "closing"]
      /\ UNCHANGED <<current, version, refs, built, closed, active, lpc, lsnap, ldoomed,
                     ppc, papp, pnext, pold, pver, pdoomed>>
  BY DEF CloseBegin, PublishMuFree, leaseVars, pubVars
<1>2. \/ /\ ~mgrClosed /\ mgrClosed' = TRUE
         /\ retired' = retired \cup Pinned(current)
         /\ cdoomed' = [cdoomed EXCEPT ![c] = Closable(Pinned(current), refs, retired')]
         /\ drained' = IF active = 0 THEN drained + 1 ELSE drained
      \/ mgrClosed /\ UNCHANGED <<mgrClosed, retired, cdoomed, drained>>
  BY DEF CloseBegin, MustShut, SignalsDrained
<1>3. TypeOK /\ Pinned(current) \subseteq Runtimes
  BY PinnedType DEF TypeOK
<1>4. TypeOK'
  <2>1. /\ cpc' \in [Closers -> {"idle", "closing", "waiting", "drained", "timeout"}]
        /\ publishMu' \in Publishers \cup Closers \cup {None}
    BY <1>1, <1>3 DEF TypeOK
  <2>2. /\ retired' \subseteq Runtimes /\ drained' \in Nat
        /\ cdoomed' \in [Closers -> SUBSET Runtimes]
    BY <1>2, <1>3 DEF TypeOK, Closable
  <2>3. mgrClosed' \in BOOLEAN
    <3>1. mgrClosed' = TRUE \/ mgrClosed' = mgrClosed
      BY <1>2
    <3> QED BY <3>1, <1>3, Zenon DEF TypeOK
  <2> QED BY <1>1, <2>1, <2>2, <2>3, <1>3 DEF TypeOK
<1>5. cpc'[c] = "closing" /\ (\A d \in Closers \ {c} : cpc'[d] = cpc[d])
  BY <1>1, <1>3 DEF TypeOK
<1>6. mgrClosed' /\ (\A p \in Publishers : ppc[p] \notin InPublish)
      /\ (\A d \in Closers : cpc[d] # "closing")
  <2>1. mgrClosed'
    BY <1>2
  <2> QED BY <2>1, <1>1, NoneIsNone DEF LockInv
<1>7. LockInv'
  BY <1>1, <1>5, <1>6 DEF LockInv
<1>8. PublisherInv' /\ CandidateInv'
  BY <1>1 DEF PublisherInv, CandidateInv
<1>9. SnapshotInv'
  <2>1. retired \subseteq retired' /\ Pinned(current) \subseteq retired'
    BY <1>2 DEF SnapshotInv
  <2> QED BY <2>1, <1>1 DEF SnapshotInv
<1>10. CountInv'
  BY <1>1, <1>2 DEF CountInv, Busy, Holders
<1>11. DeadInv'
  <2>1. \A r : Gone(r) => Gone(r)'
    BY <1>1, <1>6 DEF Gone
  <2>2. \A r : Dead(r) => Dead(r)'
    BY <2>1, <1>1 DEF Dead, Holders
  <2>3. \A r \in Pinned(current) : Gone(r)'
    <3> TAKE r \in Pinned(current)
    <3>1. r \in built' /\ \A p \in Publishers : pnext'[p] # r
      <4>1. r # None
        BY DEF Pinned
      <4> QED BY <4>1, <1>1 DEF SnapshotInv, CandidateInv
    <3> QED BY <3>1, <1>6 DEF Gone
  <2>4. \A d \in Closers : \A r \in cdoomed'[d] : r \in cdoomed[d] \/ (r \in Pinned(current) /\ refs[r] = 0)
    BY <1>2, <1>3 DEF TypeOK, Closable
  <2>5. \A r \in Pinned(current) : refs[r] = 0 => Dead(r)'
    BY <2>3, <1>3, <1>1, ZeroMeansFree DEF Dead, Holders
  <2> QED BY <1>1, <1>2, <2>1, <2>2, <2>3, <2>4, <2>5 DEF DeadInv
<1>12. CloserInv'
  BY <1>1, <1>2, <1>3, <1>5 DEF CloserInv, LockInv, TypeOK
<1>13. EveryRuntimeAccounted'
  <2> SUFFICES ASSUME NEW r \in built PROVE
        \/ r \in closed
        \/ \E m \in Leases : r \in Pinned(lsnap[m]) \cup ldoomed[m]
        \/ \E q \in Publishers : r \in {pnext[q]} \cup pdoomed[q]
        \/ \E d \in Closers : r \in cdoomed'[d]
    BY <1>1 DEF EveryRuntimeAccounted
  <2>1. CASE ~mgrClosed /\ r \in Pinned(current)
    <3>1. CASE refs[r] = 0
      BY <2>1, <3>1, <1>2, <1>3 DEF Closable, TypeOK
    <3>2. CASE refs[r] # 0
      <4>1. Holders(r) # {}
        BY <3>2, <2>1, <1>3, FS_EmptySet DEF CountInv
      <4> QED BY <4>1 DEF Holders
    <3> QED BY <3>1, <3>2
  <2>2. CASE ~(~mgrClosed /\ r \in Pinned(current))
    <3>1. \A d \in Closers : cdoomed[d] \subseteq cdoomed'[d]
      BY <1>2, <1>3, <1>6 DEF CloserInv, TypeOK
    <3> QED BY <2>2, <3>1 DEF EveryRuntimeAccounted
  <2> QED BY <2>1, <2>2
<1> QED BY <1>4, <1>7, <1>8, <1>9, <1>10, <1>11, <1>12, <1>13

LEMMA CloseOneInv ==
  ASSUME IInv, NEW c \in Closers, CloseOne(c) PROVE IInv'
<1> USE DEF IInv
<1>1. PICK r \in cdoomed[c] : /\ closed' = closed \cup {r}
                              /\ cdoomed' = [cdoomed EXCEPT ![c] = @ \ {r}]
  BY DEF CloseOne
<1>2. /\ UNCHANGED <<mgrVars, rtVars, active, drained, leaseVars, pubVars, cpc>>
      /\ cdoomed \in [Closers -> SUBSET Runtimes]
  BY DEF CloseOne, TypeOK
<1>3. \A d \in Closers : cdoomed'[d] \subseteq cdoomed[d] /\ cdoomed[d] \subseteq cdoomed'[d] \cup {r}
  BY <1>1, <1>2
<1>4. TypeOK'
  BY <1>1, <1>2 DEF TypeOK, mgrVars, rtVars, leaseVars, pubVars
<1>5. LockInv' /\ PublisherInv' /\ CandidateInv' /\ SnapshotInv' /\ CountInv'
  BY <1>2 DEF LockInv, PublisherInv, CandidateInv, SnapshotInv, CountInv, Holders, Busy,
              mgrVars, rtVars, leaseVars, pubVars
<1>6. CloserInv'
  BY <1>2, <1>3 DEF CloserInv
<1>7. DeadInv'
  BY <1>1, <1>2, <1>3 DEF DeadInv, Dead, Gone, Holders, mgrVars, rtVars, leaseVars, pubVars
<1>8. EveryRuntimeAccounted'
  BY <1>1, <1>2, <1>3 DEF EveryRuntimeAccounted, mgrVars, rtVars, leaseVars, pubVars
<1> QED BY <1>4, <1>5, <1>6, <1>7, <1>8

LEMMA CloseUnlockInv ==
  ASSUME IInv, NEW c \in Closers, CloseUnlock(c) PROVE IInv'
<1> USE DEF IInv
<1>1. /\ cpc[c] = "closing" /\ cdoomed[c] = {} /\ publishMu' = None
      /\ cpc' = [cpc EXCEPT ![c] = "waiting"]
      /\ UNCHANGED <<current, version, mgrClosed, refs, retired, built, closed, active, drained,
                     lpc, lsnap, ldoomed, ppc, papp, pnext, pold, pver, pdoomed, cdoomed>>
  BY DEF CloseUnlock, rtVars, leaseVars, pubVars
<1>2. TypeOK
  OBVIOUS
<1>3. cpc'[c] = "waiting" /\ (\A d \in Closers \ {c} : cpc'[d] = cpc[d])
  BY <1>1, <1>2 DEF TypeOK
<1>4. publishMu = c /\ (\A p \in Publishers : ppc[p] \notin InPublish)
      /\ (\A d \in Closers \ {c} : cpc[d] # "closing")
  BY <1>1, ThreadsDisjoint DEF LockInv
<1>5. TypeOK'
  BY <1>1, <1>2 DEF TypeOK
<1>6. LockInv' /\ CloserInv'
  BY <1>1, <1>3, <1>4 DEF LockInv, CloserInv
<1>7. PublisherInv' /\ CandidateInv' /\ SnapshotInv' /\ CountInv'
  BY <1>1 DEF PublisherInv, CandidateInv, SnapshotInv, CountInv, Holders, Busy
<1>8. DeadInv' /\ EveryRuntimeAccounted'
  BY <1>1 DEF DeadInv, Dead, Gone, Holders, EveryRuntimeAccounted
<1> QED BY <1>5, <1>6, <1>7, <1>8

LEMMA CloseReturnInv ==
  ASSUME IInv, NEW c \in Closers, CloseReturn(c) PROVE IInv'
<1> USE DEF IInv
<1>1. /\ cpc[c] = "waiting"
      /\ \/ drained > 0 /\ cpc' = [cpc EXCEPT ![c] = "drained"]
         \/ cpc' = [cpc EXCEPT ![c] = "timeout"]
      /\ UNCHANGED <<current, version, mgrClosed, publishMu, refs, retired, built, closed, active,
                     drained, lpc, lsnap, ldoomed, ppc, papp, pnext, pold, pver, pdoomed, cdoomed>>
  BY DEF CloseReturn, mgrVars, rtVars, leaseVars, pubVars
<1>2. TypeOK
  OBVIOUS
<1>3. /\ cpc'[c] \in {"drained", "timeout"} /\ (cpc'[c] = "drained" => drained > 0)
      /\ \A d \in Closers \ {c} : cpc'[d] = cpc[d]
  BY <1>1, <1>2 DEF TypeOK
<1>4. TypeOK'
  BY <1>1, <1>2 DEF TypeOK
<1>5. LockInv' /\ CloserInv'
  BY <1>1, <1>3 DEF LockInv, CloserInv
<1>6. PublisherInv' /\ CandidateInv' /\ SnapshotInv' /\ CountInv'
  BY <1>1 DEF PublisherInv, CandidateInv, SnapshotInv, CountInv, Holders, Busy
<1>7. DeadInv' /\ EveryRuntimeAccounted'
  BY <1>1 DEF DeadInv, Dead, Gone, Holders, EveryRuntimeAccounted
<1> QED BY <1>4, <1>5, <1>6, <1>7

LEMMA StutterInv ==
  ASSUME IInv, UNCHANGED vars PROVE IInv'
<1> USE DEF vars, mgrVars, rtVars, leaseVars, pubVars, closeVars, IInv
<1>1. TypeOK' /\ LockInv' /\ PublisherInv' /\ CandidateInv'
  BY DEF TypeOK, LockInv, PublisherInv, CandidateInv
<1>2. SnapshotInv' /\ CountInv' /\ CloserInv'
  BY DEF SnapshotInv, CountInv, CloserInv, Holders, Busy
<1>3. DeadInv' /\ EveryRuntimeAccounted'
  BY DEF DeadInv, Dead, Gone, Holders, EveryRuntimeAccounted
<1> QED BY <1>1, <1>2, <1>3

\* The invariant is inductive: every section of every thread preserves it.
LEMMA NextInv == IInv /\ [Next]_vars => IInv'
<1> SUFFICES ASSUME IInv, [Next]_vars PROVE IInv'
  OBVIOUS
<1>1. ASSUME NEW l \in Leases, LeaseNext(l) PROVE IInv'
  BY <1>1, AcquireInv, ReleaseInv, CloseDoomedInv, ReleaseDoneInv DEF LeaseNext
<1>2. ASSUME NEW p \in Publishers, PublisherNext(p) PROVE IInv'
  BY <1>2, PublishBeginInv, PersistInv, SwapInv, PublishDoneInv, AbandonCandidateInv
     DEF PublisherNext
<1>3. ASSUME NEW c \in Closers, CloserNext(c) PROVE IInv'
  BY <1>3, CloseBeginInv, CloseOneInv, CloseUnlockInv, CloseReturnInv DEF CloserNext
<1>4. CASE Terminated \/ UNCHANGED vars
  BY <1>4, StutterInv DEF Terminated
<1> QED BY <1>1, <1>2, <1>3, <1>4 DEF Next

\* Every reachable state satisfies the inductive invariant.
THEOREM Invariance == Spec => []IInv
  BY InitInv, NextInv, PTL DEF Spec

\* Every variable of the Manager stays in its type.
THEOREM TypeCorrect == Spec => []TypeOK
  BY Invariance, PTL DEF IInv

\* Release and Publish never close a runtime some request holds.
THEOREM PinnedSafe == Spec => []PinnedNeverClosed
<1>1. IInv => PinnedNeverClosed
  BY DEF IInv, DeadInv, Dead, Holders, PinnedNeverClosed
<1> QED BY <1>1, Invariance, PTL

\* What Acquire would hand out is open until the gateway shuts down.
THEOREM ServedSafe == Spec => []ServedNeverClosed
<1>1. IInv => ServedNeverClosed
  BY DEF IInv, DeadInv, Dead, Gone, ServedNeverClosed
<1> QED BY <1>1, Invariance, PTL

\* No path through Publish, Release or Close forgets a runtime.
THEOREM NoLeak == Spec => []EveryRuntimeAccounted
  BY Invariance, PTL DEF IInv

\* close(m.drained) never runs twice, whichever lease or Close comes last.
THEOREM DrainsOnce == Spec => []DrainedOnce
<1>1. IInv => DrainedOnce
  BY DEF IInv, CountInv, DrainedOnce
<1> QED BY <1>1, Invariance, PTL

\* A Close that reports success has seen every retired runtime closed.
THEOREM DrainedIsClean == Spec => []DrainedMeansClosed
<1>1. IInv => DrainedMeansClosed
  <2> SUFFICES ASSUME IInv, NEW c \in Closers, cpc[c] = "drained"
               PROVE  retired \subseteq closed /\ Pinned(current) \subseteq retired
    BY DEF DrainedMeansClosed
  <2> USE DEF IInv
  <2>1. mgrClosed /\ active = 0 /\ Busy = {}
    <3>1. mgrClosed /\ active = 0
      BY DEF LockInv, CloserInv, CountInv
    <3> QED BY <3>1, FiniteHolders, FS_EmptySet DEF CountInv
  <2>2. \A l \in Leases : lpc[l] # "held" /\ lpc[l] # "closing"
    BY <2>1 DEF Busy
  <2>3. \A l \in Leases : Pinned(lsnap[l]) \cup ldoomed[l] = {}
    BY <2>2, EmptyPins DEF SnapshotInv
  <2>4. \A p \in Publishers : pdoomed[p] = {}
    BY <2>1 DEF PublisherInv, LockInv, InPublish
  <2>5. \A d \in Closers : cdoomed[d] = {}
    BY DEF CloserInv
  <2>6. retired \subseteq closed
    <3> SUFFICES ASSUME NEW r \in retired PROVE r \in closed
      OBVIOUS
    <3>1. r \in built /\ \A p \in Publishers : pnext[p] # r
      BY DEF DeadInv, Gone
    <3> QED BY <3>1, <2>1, <2>3, <2>4, <2>5 DEF EveryRuntimeAccounted
  <2> QED BY <2>1, <2>6 DEF SnapshotInv
<1> QED BY <1>1, Invariance, PTL

\* A publication replaces one application's runtime and no other's: publishMu
\* makes the read of the old snapshot and the swap one step.
THEOREM NoLostUpdate == Spec => OneAppPerPublication
<1> DEFINE OneApp == current' # current \/ version' # version =>
              /\ version' = version + 1
              /\ \A a, b \in Apps : current'[a] # current[a] /\ current'[b] # current[b] => a = b
<1>1. ASSUME IInv, NEW p \in Publishers, Swap(p) PROVE OneApp
  BY <1>1 DEF Swap, Replaced, IInv, PublisherInv, TypeOK, Snapshots
<1>2. IInv /\ [Next]_vars => (\E p \in Publishers : Swap(p)) \/ UNCHANGED <<current, version>>
  BY DEF Next, LeaseNext, PublisherNext, CloserNext, Acquire, Release, CloseDoomed, ReleaseDone,
         PublishBegin, Persist, Swap, PublishDone, AbandonCandidate, CloseBegin, CloseOne,
         CloseUnlock, CloseReturn, Terminated, vars, mgrVars
<1>3. IInv /\ [Next]_vars => OneApp
  BY <1>1, <1>2
<1> QED BY <1>3, Invariance, PTL DEF Spec, OneAppPerPublication

\* What is about to be swapped in has been validated under publishMu.
SwapIsValid ==
    \A p \in Publishers : ppc[p] = "swap" => Valid(Replaced(pold[p], papp[p], pnext[p]))

\* A snapshot that failed NormalizeDomain or router.Build is never served.
THEOREM OnlyValidServed == Spec => []ServedIsValid
<1>1. Init => ServedIsValid /\ SwapIsValid
  BY EmptyPins DEF Init, ServedIsValid, SwapIsValid, Valid
<1>2. IInv /\ ServedIsValid /\ SwapIsValid /\ [Next]_vars => ServedIsValid' /\ SwapIsValid'
  <2> SUFFICES ASSUME IInv, ServedIsValid, SwapIsValid, [Next]_vars
               PROVE  ServedIsValid' /\ SwapIsValid'
    OBVIOUS
  <2> USE DEF IInv, TypeOK
  <2>1. ASSUME NEW p \in Publishers, NEW a \in Apps, NEW n \in Runtimes \cup {None},
               PublishBegin(p, a, n)
        PROVE  ServedIsValid' /\ SwapIsValid'
    BY <2>1 DEF PublishBegin, ServedIsValid, SwapIsValid, Valid
  <2>2. ASSUME NEW p \in Publishers, Persist(p) PROVE ServedIsValid' /\ SwapIsValid'
    BY <2>2 DEF Persist, Return, ServedIsValid, SwapIsValid, Valid
  <2>3. ASSUME NEW p \in Publishers, Swap(p) PROVE ServedIsValid' /\ SwapIsValid'
    <3>1. ServedIsValid'
      BY <2>3 DEF Swap, ServedIsValid, SwapIsValid, Valid
    <3>2. \A q \in Publishers \ {p} : ppc'[q] # "swap"
      BY <2>3 DEF Swap, LockInv, InPublish
    <3>3. ppc'[p] # "swap"
      BY <2>3 DEF Swap
    <3> QED BY <3>1, <3>2, <3>3 DEF SwapIsValid
  <2>4. ASSUME NEW p \in Publishers, PublishDone(p) \/ AbandonCandidate(p)
        PROVE  ServedIsValid' /\ SwapIsValid'
    BY <2>4 DEF PublishDone, AbandonCandidate, Return, mgrVars, ServedIsValid, SwapIsValid, Valid
  <2>5. CASE UNCHANGED <<current, pubVars>>
    BY <2>5 DEF pubVars, ServedIsValid, SwapIsValid, Valid
  <2>6. CASE UNCHANGED vars
    BY <2>6, <2>5 DEF vars, mgrVars
  <2> QED BY <2>1, <2>2, <2>3, <2>4, <2>5, <2>6
          DEF Next, LeaseNext, PublisherNext, CloserNext, Acquire, Release, CloseDoomed,
              ReleaseDone, CloseBegin, CloseOne, CloseUnlock, CloseReturn, Terminated, mgrVars
<1> QED BY <1>1, <1>2, Invariance, PTL DEF Spec
-----------------------------------------------------------------------------
(* Refinement: every section is a step of LeasedRuntimes, or a stutter.    *)

\* Publication, retirement and the lease counts implement the lease discipline.
THEOREM Refinement == Spec => ImplementsLeases
<1> USE DEF Leased!Pin, Leased!Unpin, Leased!Replace, Leased!Close, Leased!Shut,
        Leased!InUse, Leased!Serving, Leased!vars, Leased!Next
<1> DEFINE pins == [l \in Leases |-> Pinned(lsnap[l])]
<1>1. Init => Leased!Init
  BY EmptyPins DEF Init, Leased!Init, EmptySnapshot
<1>2. ASSUME IInv, NEW l \in Leases, Acquire(l) PROVE Leased!Pin(l)
  <2>1. pins[l] = {}
    BY <1>2, EmptyPins DEF Acquire, IInv, SnapshotInv
  <2>2. pins' = [pins EXCEPT ![l] = Pinned(current)]
    BY <1>2 DEF Acquire, IInv, TypeOK
  <2>3. ~mgrClosed /\ UNCHANGED <<current, closed, mgrClosed>>
    BY <1>2 DEF Acquire, mgrVars
  <2> QED BY <2>1, <2>2, <2>3 DEF Pinned
<1>3. ASSUME IInv, NEW l \in Leases, Release(l) PROVE Leased!Unpin(l)
  <2>1. pins' = [pins EXCEPT ![l] = {}]
    BY <1>3, EmptyPins DEF Release, IInv, TypeOK
  <2> QED BY <1>3, <2>1 DEF Release, mgrVars
<1>4. ASSUME IInv, NEW r \in Runtimes, Dead(r), closed' = closed \cup {r},
             UNCHANGED <<current, mgrClosed, lsnap>>
      PROVE  Leased!Close(r)
  <2>1. \A l \in Leases : r \notin Pinned(lsnap[l])
    BY <1>4 DEF Dead, Holders
  <2>2. mgrClosed \/ \A a \in Apps : current[a] # r
    BY <1>4, NoneIsNone DEF Dead, Gone, Pinned
  <2> QED BY <1>4, <2>1, <2>2
<1>5. ASSUME IInv, NEW l \in Leases, CloseDoomed(l) PROVE \E r \in Runtimes : Leased!Close(r)
  <2>1. PICK r \in ldoomed[l] : closed' = closed \cup {r}
    BY <1>5 DEF CloseDoomed
  <2>2. r \in Runtimes /\ Dead(r) /\ UNCHANGED <<current, mgrClosed, lsnap>>
    BY <1>5, <2>1 DEF CloseDoomed, mgrVars, IInv, TypeOK, DeadInv
  <2> QED BY <1>4, <1>5, <2>1, <2>2
<1>6. ASSUME IInv, NEW c \in Closers, CloseOne(c) PROVE \E r \in Runtimes : Leased!Close(r)
  <2>1. PICK r \in cdoomed[c] : closed' = closed \cup {r}
    BY <1>6 DEF CloseOne
  <2>2. r \in Runtimes /\ Dead(r) /\ UNCHANGED <<current, mgrClosed, lsnap>>
    BY <1>6, <2>1 DEF CloseOne, mgrVars, leaseVars, IInv, TypeOK, DeadInv
  <2> QED BY <1>4, <1>6, <2>1, <2>2
<1>7. ASSUME IInv, NEW p \in Publishers, PublishDone(p)
      PROVE  (\E r \in Runtimes : Leased!Close(r)) \/ UNCHANGED Leased!vars
  <2>1. UNCHANGED <<current, mgrClosed, lsnap>> /\ closed' = closed \cup pdoomed[p]
    BY <1>7 DEF PublishDone, leaseVars
  <2>2. CASE pdoomed[p] = {}
    BY <2>1, <2>2
  <2>3. CASE pdoomed[p] # {}
    <3>1. PICK r \in pdoomed[p] : pdoomed[p] = {r}
      BY <1>7, <2>3 DEF IInv, PublisherInv
    <3>2. r \in Runtimes /\ Dead(r)
      BY <1>7, <3>1 DEF IInv, TypeOK, DeadInv
    <3> QED BY <1>4, <1>7, <2>1, <3>1, <3>2
  <2> QED BY <2>2, <2>3
<1>8. ASSUME IInv, NEW p \in Publishers, AbandonCandidate(p)
      PROVE  (\E r \in Runtimes : Leased!Close(r)) \/ UNCHANGED Leased!vars
  <2>1. UNCHANGED <<current, mgrClosed, lsnap>> /\ closed' = closed \cup ({pnext[p]} \ {None})
    BY <1>8 DEF AbandonCandidate, mgrVars, leaseVars
  <2>2. CASE pnext[p] = None
    BY <2>1, <2>2
  <2>3. CASE pnext[p] # None
    <3>1. pnext[p] \in Runtimes /\ pnext[p] \notin Pinned(current)
          /\ \A l \in Leases : pnext[p] \notin Pinned(lsnap[l])
      BY <1>8, <2>3 DEF IInv, TypeOK, CandidateInv
    <3>2. \A a \in Apps : current[a] # pnext[p]
      BY <3>1, <2>3 DEF Pinned
    <3> QED BY <2>1, <2>3, <3>1, <3>2
  <2> QED BY <2>2, <2>3
<1>9. ASSUME IInv, NEW p \in Publishers, Swap(p)
      PROVE  \E a \in Apps, n \in Runtimes \cup {None} : Leased!Replace(a, n)
  <2>1. papp[p] \in Apps /\ pold[p] = current /\ ~mgrClosed /\ pnext[p] \in Runtimes \cup {None}
    BY <1>9 DEF Swap, IInv, PublisherInv, TypeOK, LockInv, InPublish
  <2>2. pnext[p] # None => /\ pnext[p] \notin closed
                           /\ \A l \in Leases : pnext[p] \notin Pinned(lsnap[l])
                           /\ \A a \in Apps : current[a] # pnext[p]
    BY <1>9 DEF IInv, DeadInv, Dead, Gone, CandidateInv, Pinned
  <2>3. current' = [current EXCEPT ![papp[p]] = pnext[p]] /\ UNCHANGED <<lsnap, closed, mgrClosed>>
    BY <1>9, <2>1 DEF Swap, Replaced, leaseVars
  <2> QED BY <2>1, <2>2, <2>3
<1>10. ASSUME NEW c \in Closers, CloseBegin(c) PROVE Leased!Shut \/ UNCHANGED Leased!vars
  <2>1. mgrClosed' = TRUE \/ mgrClosed' = mgrClosed
    BY <1>10 DEF CloseBegin
  <2> QED BY <1>10, <2>1 DEF CloseBegin, leaseVars
<1>11. ASSUME UNCHANGED <<current, lsnap, closed, mgrClosed>> PROVE UNCHANGED Leased!vars
  BY <1>11
<1>12. IInv /\ [Next]_vars => [Leased!Next]_(Leased!vars)
  <2> SUFFICES ASSUME IInv, [Next]_vars PROVE Leased!Next \/ UNCHANGED Leased!vars
    OBVIOUS
  <2>1. ASSUME NEW l \in Leases, LeaseNext(l) PROVE Leased!Next \/ UNCHANGED Leased!vars
    <3>1. CASE ReleaseDone(l)
      BY <3>1, <1>11 DEF ReleaseDone, mgrVars
    <3> QED BY <2>1, <3>1, <1>2, <1>3, <1>5 DEF LeaseNext
  <2>2. ASSUME NEW p \in Publishers, PublisherNext(p) PROVE Leased!Next \/ UNCHANGED Leased!vars
    <3>1. ASSUME NEW a \in Apps, NEW n \in Runtimes \cup {None}, PublishBegin(p, a, n)
          PROVE  UNCHANGED Leased!vars
      BY <3>1, <1>11 DEF PublishBegin, leaseVars
    <3>2. CASE Persist(p)
      BY <3>2, <1>11 DEF Persist, leaseVars
    <3> QED BY <2>2, <3>1, <3>2, <1>7, <1>8, <1>9 DEF PublisherNext
  <2>3. ASSUME NEW c \in Closers, CloserNext(c) PROVE Leased!Next \/ UNCHANGED Leased!vars
    <3>1. CASE CloseUnlock(c)
      BY <3>1, <1>11 DEF CloseUnlock, leaseVars
    <3>2. CASE CloseReturn(c)
      BY <3>2, <1>11 DEF CloseReturn, mgrVars, leaseVars
    <3> QED BY <2>3, <3>1, <3>2, <1>6, <1>10 DEF CloserNext
  <2>4. CASE Terminated \/ UNCHANGED vars
    BY <2>4, <1>11 DEF Terminated, vars, mgrVars, leaseVars
  <2> QED BY <2>1, <2>2, <2>3, <2>4 DEF Next
<1> QED BY <1>1, <1>12, Invariance, PTL DEF Spec, ImplementsLeases, Leased!Spec
=============================================================================
