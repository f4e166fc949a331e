--------------------------- MODULE ContractRegister ---------------------------
(***************************************************************************)
(* What internal/metadata/contracts.go promises its callers: an immutable  *)
(* register per contract digest.  A contract is absent or stored whole, a  *)
(* successful Put means it is stored, and a successful Get means the whole *)
(* stored contract was returned.  Once somebody else has changed the keys  *)
(* contracts may disappear and reads fail, but what a successful Get gave  *)
(* is still the contract.  ContractStore implements this.                  *)
(***************************************************************************)
CONSTANTS Digests, Writers, Readers

VARIABLES stored,   \* digests whose contract can be read
          put,      \* put[w]: digests writer w was told are stored
          got,      \* got[r]: what reader r was just given, if anything
          disturbed \* somebody else changed keys

vars == <<stored, put, got, disturbed>>

Init ==
    /\ stored = {}
    /\ put = [w \in Writers |-> {}]
    /\ got = [r \in Readers |-> {}]
    /\ disturbed = FALSE

\* The contract becomes readable, whether or not its writer learns of it.
Store(d) ==
    /\ stored' = stored \cup {d}
    /\ UNCHANGED <<put, got, disturbed>>

\* A writer is told that d is stored, by its own write or an earlier one.
Acknowledge(w, d) ==
    /\ stored' = stored \cup {d}
    /\ put' = [put EXCEPT ![w] = @ \cup {d}]
    /\ UNCHANGED <<got, disturbed>>

Read(r, d) ==
    /\ d \in stored \/ disturbed
    /\ got' = [got EXCEPT ![r] = {[digest |-> d, whole |-> TRUE]}]
    /\ UNCHANGED <<stored, put, disturbed>>

\* The reader is done with it.
Forget(r) ==
    /\ got' = [got EXCEPT ![r] = {}]
    /\ UNCHANGED <<stored, put, disturbed>>

\* Keys are changed or removed behind the gateway's back.
Disturb ==
    /\ disturbed' = TRUE
    /\ stored' \in SUBSET stored
    /\ UNCHANGED <<put, got>>

Next ==
    \/ Disturb
    \/ \E d \in Digests : Store(d)
    \/ \E w \in Writers, d \in Digests : Acknowledge(w, d)
    \/ \E r \in Readers, d \in Digests : Read(r, d) \/ Forget(r)

Spec == Init /\ [][Next]_vars
=============================================================================
