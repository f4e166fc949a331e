---------------------------- MODULE LeasedRuntimes ----------------------------
(***************************************************************************)
(* What internal/runtime promises to the request path, without its locks,  *)
(* counters or goroutines: a request pins the whole published set of       *)
(* runtimes at once, publication replaces the runtime of one application,  *)
(* and a runtime's clients are closed only when nobody can be using them.  *)
(* SnapshotManager is shown to implement this specification.               *)
(***************************************************************************)
CONSTANTS Apps, Runtimes, Leases, None

VARIABLES published,  \* published[a]: the runtime serving application a, or None
          pinned,     \* pinned[l]: the runtimes lease l may be calling
          closed,     \* runtimes whose clients have been closed
          open        \* FALSE once the gateway refuses new leases

vars == <<published, pinned, closed, open>>

InUse(r) == \E l \in Leases : r \in pinned[l]

Serving(r) == open /\ \E a \in Apps : published[a] = r

Init ==
    /\ published = [a \in Apps |-> None]
    /\ pinned = [l \in Leases |-> {}]
    /\ closed = {}
    /\ open = TRUE

Pin(l) ==
    /\ open
    /\ pinned[l] = {}
    /\ pinned' = [pinned EXCEPT ![l] = {published[a] : a \in Apps} \ {None}]
    /\ UNCHANGED <<published, closed, open>>

Unpin(l) ==
    /\ pinned' = [pinned EXCEPT ![l] = {}]
    /\ UNCHANGED <<published, closed, open>>

\* A published runtime is a fresh one: never closed, not in anybody's hands.
Replace(a, n) ==
    /\ open
    /\ n = None \/ (n \in Runtimes \ closed /\ ~InUse(n) /\ ~Serving(n))
    /\ published' = [published EXCEPT ![a] = n]
    /\ UNCHANGED <<pinned, closed, open>>

Close(r) ==
    /\ ~InUse(r) /\ ~Serving(r)
    /\ closed' = closed \cup {r}
    /\ UNCHANGED <<published, pinned, open>>

Shut ==
    /\ open' = FALSE
    /\ UNCHANGED <<published, pinned, closed>>

Next ==
    \/ \E l \in Leases : Pin(l) \/ Unpin(l)
    \/ \E a \in Apps, n \in Runtimes \cup {None} : Replace(a, n)
    \/ \E r \in Runtimes : Close(r)
    \/ Shut

Spec == Init /\ [][Next]_vars
=============================================================================
