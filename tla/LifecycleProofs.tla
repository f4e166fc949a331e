--------------------------- MODULE LifecycleProofs ---------------------------
(***************************************************************************)
(* Why the exit of the process says the truth, for every set of            *)
(* applications, runtimes and requests, every set of configurations and    *)
(* any number of servers that fail.  IInv of Lifecycle is inductive: one   *)
(* lemma for each action, under it one step for each part of IInv that the *)
(* action can disturb.                                                     *)
(***************************************************************************)
EXTENDS Lifecycle, FiniteSetTheorems, TLAPS

\* One result is awaited from each of the three servers.
LEMMA ThreeResults == IsFiniteSet(Servers) /\ Results = 3
<1>1. Cardinality({}) = 0
  BY FS_EmptySet
<1>2. IsFiniteSet({"data"}) /\ Cardinality({"data"}) = 1
  BY FS_Singleton
<1>3. IsFiniteSet({"data", "admin"}) /\ Cardinality({"data", "admin"}) = 2
  <2>1. {"data", "admin"} = {"data"} \cup {"admin"} /\ "admin" \notin {"data"}
    OBVIOUS
  <2> QED
    BY <1>2, <2>1, FS_AddElement
<1>4. Servers = {"data", "admin"} \cup {"mcp"} /\ "mcp" \notin {"data", "admin"}
  BY DEF Servers
<1> QED
  BY <1>3, <1>4, FS_AddElement DEF Results

\* The servers are finitely many, so the loop of Stop counts its results.
LEMMA UnreadFinite == IsFiniteSet(Servers) /\ IsFiniteSet(Unread)
  BY ThreeResults, FS_Subset DEF Unread

LEMMA InitInv == Init => IInv
<1> SUFFICES ASSUME Init PROVE IInv
  OBVIOUS
<1>1. TypeOK /\ StartInv
  <2>1. server \in [Servers -> {"off", "starting", "running", "draining", "down"}]
    BY DEF Init
  <2>2. result \in [Servers -> {"none", "pending", "ok", "error", "read"}]
    BY DEF Init
  <2>3. request \in [Requests -> [at : Servers \cup {None},
                                  st : {"idle", "accepted", "leased", "writing", "refused"}]]
    BY DEF Init, Nowhere
  <2>4. failures \in 0 .. MaxFailures /\ left \in 0 .. 3
    BY BoundAssumption DEF Init
  <2> QED
    BY <2>1, <2>2, <2>3, <2>4 DEF Init, Leased!Init, TypeOK, StartInv
<1>2. RequestInv /\ AcceptedIsServed
  BY NowhereAssumption DEF Init, RequestInv, AcceptedIsServed, Idle, Nowhere
<1>3. \A s \in Servers : ResultInv(s)
  BY DEF Init, ResultInv, Returned
<1>4. CollectInv /\ CloseInv /\ CleanExitIsClean
  BY DEF Init, Leased!Init, CollectInv, CloseInv, CleanExitIsClean
<1> QED
  BY <1>1, <1>2, <1>3, <1>4 DEF IInv

USE DEF leaseVars, mainVars, serverVars

\* The process ends with an error before anything was started.
LEMMA ListFailsKeeps == IInv /\ ListFails => IInv'
<1> SUFFICES ASSUME IInv, ListFails PROVE IInv'
  OBVIOUS
<1>1. TypeOK'
  BY DEF IInv, TypeOK, ListFails, Leased!Shut
<1>2. StartInv'
  BY DEF IInv, StartInv, TypeOK, ListFails, Leased!Shut
<1>3. RequestInv'
  BY DEF IInv, RequestInv, TypeOK, StartInv, Idle, ListFails, Leased!Shut
<1>4. \A t \in Servers : ResultInv(t)'
  BY DEF IInv, ResultInv, Returned, Idle, TypeOK, StartInv, RequestInv, ListFails, Leased!Shut
<1>5. CollectInv'
  BY DEF IInv, CollectInv, Unread, TypeOK, ListFails, Leased!Shut
<1>6. CloseInv'
  BY DEF IInv, CloseInv, PublishMuFree, TypeOK, ListFails, Leased!Shut
<1>7. CleanExitIsClean'
  BY DEF IInv, CleanExitIsClean, TypeOK, CloseInv, CollectInv, ResultInv, Returned, Unread, PublishMuFree, ListFails, Leased!Shut
<1>8. AcceptedIsServed'
  BY DEF IInv, AcceptedIsServed, TypeOK, CloseInv, CollectInv, ResultInv, Returned, Unread, Idle, ListFails, Leased!Shut
<1> QED
  BY <1>1, <1>2, <1>3, <1>4, <1>5, <1>6, <1>7, <1>8 DEF IInv

\* A server that breaks down is neither asked to stop nor reported as stopped.
LEMMA BreaksKeeps == ASSUME NEW s \in Servers, IInv, Breaks(s) PROVE IInv'
<1>1. TypeOK'
  BY BoundAssumption DEF IInv, TypeOK, Breaks, Alive
<1>2. StartInv'
  BY DEF IInv, StartInv, TypeOK, Breaks, Alive
<1>3. RequestInv'
  BY DEF IInv, RequestInv, TypeOK, StartInv, Idle, Breaks, Alive
<1>4. \A t \in Servers : ResultInv(t)'
  BY DEF IInv, ResultInv, Returned, Idle, TypeOK, StartInv, RequestInv, Breaks, Alive
<1>5. CollectInv'
  BY DEF IInv, CollectInv, Unread, TypeOK, Breaks, Alive
<1>6. CloseInv'
  BY DEF IInv, CloseInv, PublishMuFree, TypeOK, Breaks, Alive
<1>7. CleanExitIsClean'
  BY DEF IInv, CleanExitIsClean, TypeOK, CloseInv, CollectInv, ResultInv, Returned, Unread, PublishMuFree, Breaks, Alive
<1>8. AcceptedIsServed'
  BY DEF IInv, AcceptedIsServed, TypeOK, CloseInv, CollectInv, ResultInv, Returned, Unread, Idle, Breaks, Alive
<1> QED
  BY <1>1, <1>2, <1>3, <1>4, <1>5, <1>6, <1>7, <1>8 DEF IInv

\* Three results are awaited; the one of an admin server that is off is there at once.
LEMMA StopKeeps == IInv /\ Stop => IInv'
<1> SUFFICES ASSUME IInv, Stop PROVE IInv'
  OBVIOUS
<1>1. TypeOK'
  <2>1. left' \in 0 .. 3
    BY ThreeResults DEF Stop
  <2>2. result' \in [Servers -> {"none", "pending", "ok", "error", "read"}]
    BY DEF Stop
  <2> QED
    BY <2>1, <2>2 DEF IInv, TypeOK, Stop
<1>2. StartInv'
  BY DEF IInv, StartInv, TypeOK, Stop
<1>3. RequestInv'
  BY DEF IInv, RequestInv, TypeOK, StartInv, Idle, Stop
<1>4. \A t \in Servers : ResultInv(t)'
  BY DEF IInv, ResultInv, Returned, Idle, TypeOK, StartInv, RequestInv, Stop
<1>5. CollectInv'
  <2>1. Unread' = Servers
    BY DEF Unread, Stop
  <2> QED
    BY <2>1 DEF CollectInv, Results, Stop
<1>6. CloseInv'
  BY DEF IInv, CloseInv, PublishMuFree, TypeOK, Stop
<1>7. CleanExitIsClean'
  BY DEF IInv, CleanExitIsClean, TypeOK, CloseInv, CollectInv, ResultInv, Returned, Unread, PublishMuFree, Stop
<1>8. AcceptedIsServed'
  BY DEF IInv, AcceptedIsServed, TypeOK, CloseInv, CollectInv, ResultInv, Returned, Unread, Idle, Stop
<1> QED
  BY <1>1, <1>2, <1>3, <1>4, <1>5, <1>6, <1>7, <1>8 DEF IInv

\* A Hertz server that is not running is recorded as not drained, with its error.
LEMMA ShutdownBeginsKeeps == ASSUME NEW s \in Servers, IInv, ShutdownBegins(s) PROVE IInv'
<1>1. TypeOK'
  BY DEF IInv, TypeOK, ShutdownBegins, Returns, Alive
<1>2. StartInv'
  BY DEF IInv, StartInv, TypeOK, ShutdownBegins, Returns, Alive
<1>3. RequestInv'
  BY DEF IInv, RequestInv, TypeOK, StartInv, Idle, ShutdownBegins, Returns, Alive
<1>4. \A t \in Servers : ResultInv(t)'
  BY DEF IInv, ResultInv, Returned, Idle, TypeOK, StartInv, RequestInv, ShutdownBegins, Returns, Alive
<1>5. CollectInv'
  <2>1. Unread' = Unread
    BY DEF IInv, TypeOK, Unread, ShutdownBegins, Returns
  <2> QED
    BY <2>1 DEF IInv, CollectInv, ShutdownBegins
<1>6. CloseInv'
  BY DEF IInv, CloseInv, PublishMuFree, TypeOK, ShutdownBegins, Returns, Alive
<1>7. CleanExitIsClean'
  BY DEF IInv, CleanExitIsClean, TypeOK, CloseInv, CollectInv, ResultInv, Returned, Unread, PublishMuFree, ShutdownBegins, Returns, Alive
<1>8. AcceptedIsServed'
  BY DEF IInv, AcceptedIsServed, TypeOK, CloseInv, CollectInv, ResultInv, Returned, Unread, Idle, ShutdownBegins, Returns, Alive
<1> QED
  BY <1>1, <1>2, <1>3, <1>4, <1>5, <1>6, <1>7, <1>8 DEF IInv

\* Before the deadline a server stops only when it is idle.
LEMMA ShutdownEndsKeeps == ASSUME NEW s \in Servers, IInv, ShutdownEnds(s) PROVE IInv'
<1>1. TypeOK'
  BY DEF IInv, TypeOK, ShutdownEnds, Returns, Alive
<1>2. StartInv'
  BY DEF IInv, StartInv, TypeOK, ShutdownEnds, Returns, Alive
<1>3. RequestInv'
  BY DEF IInv, RequestInv, TypeOK, StartInv, Idle, ShutdownEnds, Returns, Alive
<1>4. \A t \in Servers : ResultInv(t)'
  BY DEF IInv, ResultInv, Returned, Idle, TypeOK, StartInv, RequestInv, ShutdownEnds, Returns, Alive
<1>5. CollectInv'
  <2>1. Unread' = Unread
    <3>1. \A t \in Servers : (result'[t] # "read") <=> (result[t] # "read")
      BY DEF IInv, TypeOK, ShutdownEnds, Returns
    <3> QED BY <3>1 DEF Unread
  <2>2. UNCHANGED mainVars
    BY DEF ShutdownEnds
  <2> QED BY <2>1, <2>2 DEF IInv, CollectInv, mainVars
<1>6. CloseInv'
  BY DEF IInv, CloseInv, PublishMuFree, TypeOK, ShutdownEnds, Returns, Alive
<1>7. CleanExitIsClean'
  BY DEF IInv, CleanExitIsClean, TypeOK, CloseInv, CollectInv, ResultInv, Returned, Unread, PublishMuFree, ShutdownEnds, Returns, Alive
<1>8. AcceptedIsServed'
  BY DEF IInv, AcceptedIsServed, TypeOK, CloseInv, CollectInv, ResultInv, Returned, Unread, Idle, ShutdownEnds, Returns, Alive
<1> QED
  BY <1>1, <1>2, <1>3, <1>4, <1>5, <1>6, <1>7, <1>8 DEF IInv

\* A result read is one fewer left; a deadline read instead is an error.
LEMMA CollectKeeps == IInv /\ Collect => IInv'
<1> SUFFICES ASSUME IInv, Collect PROVE IInv'
  OBVIOUS
<1> USE DEF IInv, TypeOK
<1>1. CASE \E t \in Servers :
              result[t] \in {"ok", "error"} /\ err' = (err \/ result[t] = "error") /\ Returns(t, "read")
  <2> PICK t \in Servers :
              result[t] \in {"ok", "error"} /\ err' = (err \/ result[t] = "error") /\ Returns(t, "read")
    BY <1>1
  <2>1. TypeOK'
    BY DEF Collect, Returns
  <2>2. StartInv' /\ RequestInv' /\ CloseInv' /\ CleanExitIsClean' /\ AcceptedIsServed'
    BY DEF StartInv, RequestInv, CloseInv, CleanExitIsClean, AcceptedIsServed, PublishMuFree, Idle, Collect
  <2>3. ASSUME NEW u \in Servers PROVE ResultInv(u)'
    BY DEF ResultInv, Returned, Idle, Collect, Returns
  <2>4. CollectInv'
    <3>1. Unread' = Unread \ {t} /\ t \in Unread
      BY DEF Unread, Returns
    <3>2. Cardinality(Unread') = Cardinality(Unread) - 1
      BY <3>1, UnreadFinite, FS_RemoveElement
    <3> QED
      BY <3>2 DEF CollectInv, Collect
  <2> QED
    BY <2>1, <2>2, <2>3, <2>4
<1>2. CASE expired /\ err' = TRUE /\ UNCHANGED result
  <2>1. TypeOK' /\ CollectInv'
    BY <1>2 DEF CollectInv, Collect
  <2>2. StartInv' /\ RequestInv' /\ CloseInv' /\ CleanExitIsClean' /\ AcceptedIsServed'
    BY <1>2 DEF StartInv, RequestInv, CloseInv, CleanExitIsClean, AcceptedIsServed, PublishMuFree, Idle, Collect
  <2>3. ASSUME NEW u \in Servers PROVE ResultInv(u)'
    BY <1>2 DEF ResultInv, Returned, Idle, Collect
  <2> QED
    BY <2>1, <2>2, <2>3
<1> QED
  BY <1>1, <1>2 DEF Collect

\* Nobody is writing when the manager is shut, and nobody can begin to.
LEMMA CloseKeeps == IInv /\ Close => IInv'
<1> SUFFICES ASSUME IInv, Close PROVE IInv'
  OBVIOUS
<1>1. TypeOK'
  BY DEF IInv, TypeOK, Close, Leased!Shut
<1>2. StartInv'
  BY DEF IInv, StartInv, TypeOK, Close, Leased!Shut
<1>3. RequestInv'
  BY DEF IInv, RequestInv, TypeOK, StartInv, Idle, Close, Leased!Shut
<1>4. \A t \in Servers : ResultInv(t)'
  BY DEF IInv, ResultInv, Returned, Idle, TypeOK, StartInv, RequestInv, Close, Leased!Shut
<1>5. CollectInv'
  BY DEF IInv, CollectInv, Unread, TypeOK, Close, Leased!Shut
<1>6. CloseInv'
  BY DEF IInv, CloseInv, PublishMuFree, TypeOK, Close, Leased!Shut
<1>7. CleanExitIsClean'
  BY DEF IInv, CleanExitIsClean, TypeOK, CloseInv, CollectInv, ResultInv, Returned, Unread, PublishMuFree, Close, Leased!Shut
<1>8. AcceptedIsServed'
  BY DEF IInv, AcceptedIsServed, TypeOK, CloseInv, CollectInv, ResultInv, Returned, Unread, Idle, Close, Leased!Shut
<1> QED
  BY <1>1, <1>2, <1>3, <1>4, <1>5, <1>6, <1>7, <1>8 DEF IInv
-----------------------------------------------------------------------------
(* The other actions disturb so little of IInv that one look at all of its  *)
(* parts settles each.                                                      *)

USE DEF IInv, TypeOK, StartInv, RequestInv, ResultInv, Returned, CollectInv, CloseInv, Unread,
        CleanExitIsClean, AcceptedIsServed, Idle, PublishMuFree

LEMMA AskKeeps == IInv /\ Ask => IInv'
  BY DEF Ask

LEMMA ListSucceedsKeeps == IInv /\ ListSucceeds => IInv'
  BY DEF ListSucceeds

LEMMA ReconcileKeeps ==
    ASSUME NEW a \in Apps, NEW r \in Runtimes, IInv, Reconcile(a, r) PROVE IInv'
  BY DEF Reconcile, Alive, Leased!Replace

LEMMA ServeKeeps == IInv /\ Serve => IInv'
  BY DEF Serve

LEMMA ComesUpKeeps == ASSUME NEW s \in Servers, IInv, ComesUp(s) PROVE IInv'
  BY DEF ComesUp, Alive

LEMMA ExpireKeeps == IInv /\ Expire => IInv'
  BY DEF Expire

LEMMA CancelKeeps == IInv /\ Cancel => IInv'
  BY UnreadFinite, FS_EmptySet DEF Cancel

LEMMA ExitKeeps == IInv /\ Exit => IInv'
  BY DEF Exit, CloseReturns, Drained

LEMMA AcceptKeeps ==
    ASSUME NEW q \in Requests, NEW s \in Servers, IInv, Accept(q, s) PROVE IInv'
  BY DEF Accept, Alive, Nowhere

LEMMA AcquireKeeps == ASSUME NEW q \in Requests, IInv, Acquire(q) PROVE IInv'
  BY DEF Acquire, Alive, At, Leased!Pin

LEMMA WriteKeeps == ASSUME NEW q \in Requests, IInv, Write(q) PROVE IInv'
  BY DEF Write, Alive, At

LEMMA WrittenKeeps == ASSUME NEW q \in Requests, IInv, Written(q) PROVE IInv'
  BY NowhereAssumption DEF Written, Alive, Nowhere

LEMMA RespondKeeps == ASSUME NEW q \in Requests, IInv, Respond(q) PROVE IInv'
  BY NowhereAssumption DEF Respond, Alive, Nowhere, Leased!Unpin

LEMMA DisposeKeeps == ASSUME NEW r \in Runtimes, IInv, Dispose(r) PROVE IInv'
  BY DEF Dispose, Alive, Leased!Close

LEMMA StutterKeeps == IInv /\ UNCHANGED vars => IInv'
  BY DEF vars

HIDE DEF IInv, TypeOK, StartInv, RequestInv, ResultInv, Returned, CollectInv, CloseInv, Unread,
        CleanExitIsClean, AcceptedIsServed, Idle, PublishMuFree
-----------------------------------------------------------------------------
LEMMA NextKeeps == IInv /\ [Next]_vars => IInv'
<1> SUFFICES ASSUME IInv, [Next]_vars PROVE IInv'
  OBVIOUS
<1>1. CASE Main
  BY <1>1, ListFailsKeeps, ListSucceedsKeeps, ServeKeeps, StopKeeps, CollectKeeps, CancelKeeps,
     CloseKeeps, ExitKeeps DEF Main
<1>2. CASE Ask \/ Expire \/ Ended \/ UNCHANGED vars
  BY <1>2, AskKeeps, ExpireKeeps, StutterKeeps DEF Ended
<1>3. CASE \E a \in Apps, r \in Runtimes : Reconcile(a, r)
  BY <1>3, ReconcileKeeps
<1>4. CASE \E r \in Runtimes : Dispose(r)
  BY <1>4, DisposeKeeps
<1>5. CASE \E s \in Servers : ComesUp(s) \/ Breaks(s) \/ ShutdownBegins(s) \/ ShutdownEnds(s)
  BY <1>5, ComesUpKeeps, BreaksKeeps, ShutdownBeginsKeeps, ShutdownEndsKeeps
<1>6. CASE \E q \in Requests : \E s \in Servers : Accept(q, s)
  BY <1>6, AcceptKeeps
<1>7. CASE \E q \in Requests : Acquire(q) \/ Write(q) \/ Written(q) \/ Respond(q)
  BY <1>7, AcquireKeeps, WriteKeeps, WrittenKeeps, RespondKeeps
<1> QED
  BY <1>1, <1>2, <1>3, <1>4, <1>5, <1>6, <1>7 DEF Next

\* The inductive invariant: whatever is accepted, fails or comes late.
THEOREM Invariance == Spec => []IInv
<1>1. Init => IInv
  BY InitInv
<1>2. IInv /\ [Next]_vars => IInv'
  BY NextKeeps
<1> QED
  BY <1>1, <1>2, PTL DEF Spec

\* TypeOK: the state of App.Run and of its servers keeps its shape.
THEOREM TypeCorrect == Spec => []TypeOK
<1>1. IInv => TypeOK
  BY DEF IInv
<1> QED
  BY <1>1, Invariance, PTL

\* CleanExitIsClean: when Run returns nil, it has read from all three servers that
\* they stopped, Manager.Close has waited for the leases and every client is closed;
\* what was accepted has been answered, unless the deadline came first and cut off
\* a request of a Hertz server, which does not say so.
THEOREM CleanExit == Spec => []CleanExitIsClean
<1>1. IInv => CleanExitIsClean
  BY DEF IInv
<1> QED
  BY <1>1, Invariance, PTL

\* AcceptedIsServed: the manager is shut only after every server that was running
\* has served what it accepted, or after the deadline.
THEOREM ServedBeforeShut == Spec => []AcceptedIsServed
<1>1. IInv => AcceptedIsServed
  BY DEF IInv
<1> QED
  BY <1>1, Invariance, PTL
-----------------------------------------------------------------------------
(* Leases                                                                  *)

\* What is pinned is open, and so is what the next request would get.
HeldOpen ==
    /\ DOMAIN pinned = Requests
    /\ \A q \in Requests : pinned[q] # {} => request[q].st = "leased" /\ pinned[q] \cap closed = {}
    /\ DOMAIN published = Apps /\ closed \subseteq built
    /\ open => \A a \in Apps : published[a] \notin closed

LEMMA HeldOpenKeeps == ASSUME IInv, HeldOpen, [Next]_vars PROVE HeldOpen'
<1>1. request \in [Requests -> [at : Servers \cup {None}, st : {"idle", "accepted", "leased", "writing", "refused"}]]
  BY DEF IInv, TypeOK
<1> USE DEF HeldOpen, Leased!Pin, Leased!Unpin, Leased!Replace, Leased!Close, Leased!Shut, Leased!InUse,
        Leased!Serving
<1>2. CASE ListFails \/ Close
  BY <1>2 DEF ListFails, Close
<1>3. CASE ListSucceeds \/ Serve \/ Stop \/ Collect \/ Cancel \/ Exit \/ Ask \/ Expire \/ Ended \/ UNCHANGED vars
  BY <1>3 DEF ListSucceeds, Serve, Stop, Collect, Cancel, Exit, Ask, Expire, Ended, vars, leaseVars
<1>4. ASSUME NEW a \in Apps, NEW r \in Runtimes, Reconcile(a, r) PROVE HeldOpen'
  BY <1>4 DEF Reconcile
<1>5. ASSUME NEW r \in Runtimes, Dispose(r) PROVE HeldOpen'
  BY <1>5 DEF Dispose
<1>6. ASSUME NEW s \in Servers, ComesUp(s) \/ Breaks(s) \/ ShutdownBegins(s) \/ ShutdownEnds(s) PROVE HeldOpen'
  BY <1>6 DEF ComesUp, Breaks, ShutdownBegins, ShutdownEnds, leaseVars
<1>7. ASSUME NEW q \in Requests, Acquire(q) PROVE HeldOpen'
  BY <1>1, <1>7 DEF Acquire, At, leaseVars
<1>8. ASSUME NEW q \in Requests, Respond(q) PROVE HeldOpen'
  BY <1>1, <1>8 DEF Respond
<1>9. ASSUME NEW q \in Requests, Write(q) \/ Written(q) \/ \E s \in Servers : Accept(q, s) PROVE HeldOpen'
  BY <1>1, <1>9 DEF Write, Written, Accept, At, Nowhere, leaseVars
<1> QED BY <1>2, <1>3, <1>4, <1>5, <1>6, <1>7, <1>8, <1>9 DEF Next, Main

\* Around a shutdown as before it, what a request holds stays open until it answers, and
\* a request that has answered holds nothing, so Manager.Close waits for no more than the
\* requests still running (snapshot.go:150).
THEOREM LeasesOpen ==
  Spec => [](\A q \in Requests : pinned[q] # {} => request[q].st = "leased" /\ pinned[q] \cap closed = {})
<1>1. Init => HeldOpen
  BY DEF Init, HeldOpen, Leased!Init
<1>2. HeldOpen => \A q \in Requests : pinned[q] # {} => request[q].st = "leased" /\ pinned[q] \cap closed = {}
  BY DEF HeldOpen
<1> QED BY <1>1, <1>2, HeldOpenKeeps, Invariance, PTL DEF Spec
=============================================================================
