------------------------------ MODULE AppCatalog ------------------------------
(***************************************************************************)
(* What the control plane promises to the administrators of the gateway,   *)
(* whichever replica they talk to: the applications are one object, an     *)
(* operation takes effect on it at most once and all at once, a positive   *)
(* answer means that it did, and an application never names a contract     *)
(* that is not stored.  An operation answered with an error may still take *)
(* effect later, once.  ControlPlane implements this specification.        *)
(***************************************************************************)
CONSTANTS Apps, Replicas, Requests, Revs, None, NoCall, InitialApps,
          Ids   \* tells one call from the next

\* The record an operation leaves behind, given the record it found.
CONSTANT Result(_, _, _)

VARIABLES catalog,    \* catalog[a]: the record of application a, or None
          contracts,  \* the contracts that are stored
          call,       \* call[r]: the operation replica r is executing
          effective,  \* effective[r]: it has taken effect
          answer,     \* answer[r]: what the last operation of r was answered
          orphans     \* operations answered with an error that may yet happen

vars == <<catalog, contracts, call, effective, answer, orphans>>

Operations == {"create", "update", "delete"}

\* Operation c applied to the catalog as it is now.
Happens(c) ==
    /\ (catalog[c.app] = None) = (c.op = "create")
    /\ LET new == Result(c.op, catalog[c.app], c.req)
       IN  /\ new # None => new.rev \in contracts
           /\ catalog' = [catalog EXCEPT ![c.app] = new]

Init ==
    /\ catalog \in InitialApps
    /\ \A a \in Apps : catalog[a] # None /\ catalog[a].rev \in Revs => catalog[a].rev \in contracts
    /\ call = [r \in Replicas |-> NoCall]
    /\ effective = [r \in Replicas |-> FALSE]
    /\ answer = [r \in Replicas |-> "none"]
    /\ orphans = {}

Call(r) ==
    /\ call[r] = NoCall
    /\ UNCHANGED <<catalog, contracts, effective, orphans>>
    /\ answer' = [answer EXCEPT ![r] = "none"]
    /\ \E i \in Ids, o \in Operations, a \in Apps, q \in Requests \cup {None} :
          /\ \A c \in orphans \cup {call[s] : s \in Replicas} : c # NoCall => c.id # i
          /\ call' = [call EXCEPT ![r] = [id |-> i, op |-> o, app |-> a, req |-> q]]

Store(v) ==
    /\ contracts' = contracts \cup {v}
    /\ UNCHANGED <<catalog, call, effective, answer, orphans>>

Effect(r) ==
    /\ call[r] # NoCall /\ ~effective[r]
    /\ Happens(call[r])
    /\ effective' = [effective EXCEPT ![r] = TRUE]
    /\ UNCHANGED <<contracts, call, answer, orphans>>

LateEffect(c) ==
    /\ Happens(c)
    /\ orphans' = orphans \ {c}
    /\ UNCHANGED <<contracts, call, effective, answer>>

Answered(r, how) ==
    /\ call[r] # NoCall
    /\ call' = [call EXCEPT ![r] = NoCall]
    /\ effective' = [effective EXCEPT ![r] = FALSE]
    /\ answer' = [answer EXCEPT ![r] = how]
    /\ UNCHANGED catalog

\* "same": an update found nothing to change.
Succeed(r) ==
    /\ Answered(r, IF effective[r] THEN "ok" ELSE "same")
    /\ effective[r] \/ call[r].op = "update"
    /\ UNCHANGED <<contracts, orphans>>

\* A failed operation may have stored its contract, and may be underway still.
Fail(r) ==
    /\ ~effective[r]
    /\ Answered(r, "error")
    /\ contracts' \in {contracts} \cup {contracts \cup {v} : v \in Revs}
    /\ orphans' \in {orphans, orphans \cup {call[r]}}

\* The replica restarts and answers nobody; or an operation is lost for good.
Forget ==
    /\ \/ \E r \in Replicas :
            /\ call' = [call EXCEPT ![r] = NoCall]
            /\ effective' = [effective EXCEPT ![r] = FALSE]
            /\ answer' = [answer EXCEPT ![r] = "none"]
            /\ \/ UNCHANGED orphans
               \/ call[r] # NoCall /\ ~effective[r] /\ orphans' = orphans \cup {call[r]}
       \/ \E c \in orphans : orphans' = orphans \ {c} /\ UNCHANGED <<call, effective, answer>>
    /\ UNCHANGED <<catalog, contracts>>

Next ==
    \/ \E r \in Replicas : Call(r) \/ Effect(r) \/ Succeed(r) \/ Fail(r)
    \/ \E v \in Revs : Store(v)
    \/ \E c \in orphans : LateEffect(c)
    \/ Forget

Spec == Init /\ [][Next]_vars
=============================================================================
