---------------------------- MODULE ContractStore ----------------------------
(***************************************************************************)
(* internal/metadata/contracts.go: contract archives in Consul KV, cut     *)
(* into chunks no larger than ChunkSize.  Chunks are create-only keys      *)
(* written in order, the "complete" key last; a reader starts from it.     *)
(*                                                                         *)
(* One action per KV request.  A request may fail before or after it took  *)
(* effect, a writer may stop anywhere, several replicas may upload or read *)
(* the same contract at once.  Bytes are not modelled: a stored chunk      *)
(* records which slice of the archive it holds, or that it holds something *)
(* else of some length (an operator or a partial restore changed the key). *)
(* SHA-256 is taken to be collision free.                                  *)
(***************************************************************************)
EXTENDS Integers

CONSTANTS Digests, Writers, Readers,
          ChunkSize,   \* contractChunkSize
          MaxLen,      \* archiveidl.MaxArchiveBytes
          MaxFaults,   \* bound on failed requests
          MaxTampers   \* bound on keys changed by somebody else

ASSUME ChunkSizeAssumption == ChunkSize \in Nat \ {0}
ASSUME MaxLenAssumption == MaxLen \in Nat
ASSUME BoundsAssumption == MaxFaults \in Nat /\ MaxTampers \in Nat

Indexes == 0 .. MaxLen                     \* enough chunk numbers for MaxLen bytes
Absent == [from |-> 0, len |-> 0, own |-> FALSE]
Values == [from : Nat, len : Nat, own : BOOLEAN]

VARIABLES
    length,    \* length[d]: bytes in the archive with digest d
    chunk,     \* chunk[d][i]: key d/%06d
    marker,    \* marker[d]: key d/complete, 0 when absent or not a number
    wpc, wdig, widx,                      \* writers: PutContract
    rpc, rdig, ridx, rsize, rlen, rexact, \* readers: GetContract
    acked,     \* acked[w]: digests for which PutContract of w returned nil
    since,     \* history: what went wrong since the upload of w began
    faults, tampers

kv == <<length, chunk, marker>>
writerVars == <<wpc, wdig, widx, acked, since>>
readerVars == <<rpc, rdig, ridx, rsize, rlen, rexact>>
vars == <<kv, writerVars, readerVars, faults, tampers>>

AtMost(a, b) == IF a <= b THEN a ELSE b

Writing == {"cas", "compare"}

\* A request of the upload failed; somebody else changed a key of its contract.
Troubles == {"failed", "changed"}

TypeOK ==
    /\ length \in [Digests -> 1 .. MaxLen]
    /\ chunk \in [Digests -> [Indexes -> Values]]
    /\ marker \in [Digests -> 0 .. MaxLen]
    /\ wpc \in [Writers -> {"idle", "cas", "compare", "ok", "error", "conflict"}]
    /\ wdig \in [Writers -> Digests]
    /\ widx \in [Writers -> Nat]
    /\ rpc \in [Readers -> {"idle", "marker", "parts", "ok", "error", "missing", "invalid"}]
    /\ rdig \in [Readers -> Digests]
    /\ ridx \in [Readers -> Nat]
    /\ rsize \in [Readers -> 0 .. MaxLen]
    /\ rlen \in [Readers -> Nat]
    /\ rexact \in [Readers -> BOOLEAN]
    /\ acked \in [Writers -> SUBSET Digests]
    /\ since \in [Writers -> SUBSET Troubles]
    /\ faults \in 0 .. MaxFaults
    /\ tampers \in 0 .. MaxTampers

Init ==
    /\ length \in [Digests -> 1 .. MaxLen]
    /\ chunk = [d \in Digests |-> [i \in Indexes |-> Absent]]
    /\ marker = [d \in Digests |-> 0]
    /\ wpc = [w \in Writers |-> "idle"]
    /\ wdig \in [Writers -> Digests]
    /\ widx = [w \in Writers |-> 0]
    /\ rpc = [r \in Readers |-> "idle"]
    /\ rdig \in [Readers -> Digests]
    /\ ridx = [r \in Readers |-> 0]
    /\ rsize = [r \in Readers |-> 0]
    /\ rlen = [r \in Readers |-> 0]
    /\ rexact = [r \in Readers |-> TRUE]
    /\ acked = [w \in Writers |-> {}]
    /\ since = [w \in Writers |-> {}]
    /\ faults = 0 /\ tampers = 0
-----------------------------------------------------------------------------
(* PutContract                                                             *)

\* The byte offset of chunk i: both advance together in the loop header.
Offset(i) == i * ChunkSize

LastChunkForgotten(d, i) == Offset(i) + ChunkSize < length[d]

\* The upload loop has a chunk i: its offset lies inside the archive.
HasChunk(d, i) == Offset(i) < length[d]

\* r.Archive[offset:end] for chunk i.
Slice(d, i) ==
    [from |-> Offset(i), len |-> AtMost(ChunkSize, length[d] - Offset(i)), own |-> TRUE]

PutBegin(w, d) ==
    /\ wpc[w] \in {"idle", "ok", "error", "conflict"}
    /\ wpc' = [wpc EXCEPT ![w] = "cas"]
    /\ wdig' = [wdig EXCEPT ![w] = d]
    /\ widx' = [widx EXCEPT ![w] = 0]
    /\ since' = [since EXCEPT ![w] = {}]
    /\ UNCHANGED <<kv, acked, readerVars, faults, tampers>>

\* i+1 of both loops.
NextIndex(i) == i + 1

\* The key the writer is at, and what it wants there.
AtMarker(w) == ~HasChunk(wdig[w], widx[w])

KeyAbsent(w) ==
    IF AtMarker(w) THEN marker[wdig[w]] = 0 ELSE chunk[wdig[w]][widx[w]] = Absent

KeyEqual(w) ==
    IF AtMarker(w) THEN marker[wdig[w]] = length[wdig[w]]
                   ELSE chunk[wdig[w]][widx[w]] = Slice(wdig[w], widx[w])

\* The CAS with index 0 takes effect.
StoreKey(w) ==
    IF AtMarker(w)
    THEN /\ marker' = [marker EXCEPT ![wdig[w]] = length[wdig[w]]]
         /\ UNCHANGED <<chunk, length>>
    ELSE /\ chunk' = [chunk EXCEPT ![wdig[w]][widx[w]] = Slice(wdig[w], widx[w])]
         /\ UNCHANGED <<marker, length>>

\* putImmutable returned nil: the next key, or PutContract is done.
Advance(w) ==
    IF AtMarker(w)
    THEN /\ wpc' = [wpc EXCEPT ![w] = "ok"]
         /\ acked' = [acked EXCEPT ![w] = @ \cup {wdig[w]}]
         /\ UNCHANGED <<wdig, widx>>
    ELSE /\ wpc' = [wpc EXCEPT ![w] = "cas"]
         /\ widx' = [widx EXCEPT ![w] = NextIndex(@)]
         /\ UNCHANGED <<wdig, acked>>

PutStops(w, pc) ==
    /\ wpc' = [wpc EXCEPT ![w] = pc]
    /\ UNCHANGED <<wdig, widx, acked>>

CAS(w) ==
    /\ wpc[w] = "cas" /\ KeyAbsent(w)
    /\ StoreKey(w)
    /\ Advance(w)
    /\ UNCHANGED <<since, readerVars, faults, tampers>>

\* ok = FALSE: the key exists, read it back.
CASRefused(w) ==
    /\ wpc[w] = "cas" /\ ~KeyAbsent(w)
    /\ wpc' = [wpc EXCEPT ![w] = "compare"]
    /\ UNCHANGED <<kv, wdig, widx, acked, since, readerVars, faults, tampers>>

AnyValueConflicts(w) == FALSE

AnyValueAccepted(w) == TRUE

\* bytes.Equal of the stored value and ours.
Compares(w) == KeyEqual(w)

Compare(w) ==
    /\ wpc[w] = "compare"
    /\ IF Compares(w) THEN Advance(w) ELSE PutStops(w, "conflict")
    /\ UNCHANGED <<kv, since, readerVars, faults, tampers>>

\* Only a failed CAS is called a failure: a read-back without an answer is a conflict.
FailedAs(w) == IF wpc[w] = "cas" THEN "error" ELSE "conflict"

\* The request fails or the process stops, before or after the CAS took effect.
PutFails(w) ==
    /\ wpc[w] \in Writing
    /\ faults < MaxFaults
    /\ faults' = faults + 1
    /\ since' = [since EXCEPT ![w] = @ \cup {"failed"}]
    /\ \/ UNCHANGED kv
       \/ wpc[w] = "cas" /\ KeyAbsent(w) /\ StoreKey(w)
    /\ PutStops(w, FailedAs(w)) \/ PutStops(w, "idle")
    /\ UNCHANGED <<readerVars, tampers>>
-----------------------------------------------------------------------------
(* GetContract                                                             *)

GetBegin(r, d) ==
    /\ rpc[r] \in {"idle", "ok", "error", "missing", "invalid"}
    /\ rpc' = [rpc EXCEPT ![r] = "marker"]
    /\ rdig' = [rdig EXCEPT ![r] = d]
    /\ ridx' = [ridx EXCEPT ![r] = 0]
    /\ rsize' = [rsize EXCEPT ![r] = 0]
    /\ rlen' = [rlen EXCEPT ![r] = 0]
    /\ rexact' = [rexact EXCEPT ![r] = TRUE]
    /\ UNCHANGED <<kv, writerVars, faults, tampers>>

GetReturns(r, pc) ==
    /\ rpc' = [rpc EXCEPT ![r] = pc]
    /\ UNCHANGED <<rdig, ridx, rsize, rlen, rexact>>

\* A key that was tampered into nothing, and a size that is no size, are errors too.
ReadMarker(r) ==
    /\ rpc[r] = "marker"
    /\ IF marker[rdig[r]] = 0 THEN GetReturns(r, "missing")
       ELSE /\ rpc' = [rpc EXCEPT ![r] = "parts"]
            /\ rsize' = [rsize EXCEPT ![r] = marker[rdig[r]]]
            /\ UNCHANGED <<rdig, ridx, rlen, rexact>>
    /\ UNCHANGED <<kv, writerVars, faults, tampers>>

FullChunkExpected(r) == ChunkSize

\* The length the next part must have.
ExpectedLen(r) == AtMost(ChunkSize, rsize[r] - rlen[r])

ReadPart(r) ==
    /\ rpc[r] = "parts" /\ rlen[r] < rsize[r]
    /\ LET part == chunk[rdig[r]][ridx[r]]
       IN  CASE part = Absent -> GetReturns(r, "missing")
             [] part # Absent /\ part.len # ExpectedLen(r) -> GetReturns(r, "invalid")
             [] part # Absent /\ part.len = ExpectedLen(r) ->
                  /\ ridx' = [ridx EXCEPT ![r] = NextIndex(@)]
                  /\ rlen' = [rlen EXCEPT ![r] = @ + part.len]
                  /\ rexact' = [rexact EXCEPT ![r] = @ /\ part.own /\ part.from = rlen[r]]
                  /\ UNCHANGED <<rpc, rdig, rsize>>
    /\ UNCHANGED <<kv, writerVars, faults, tampers>>

DigestUnchecked(r) == TRUE

\* sha256.Sum256(data) = digest.
DigestMatches(r) == rexact[r] /\ rlen[r] = length[rdig[r]]

Verify(r) ==
    /\ rpc[r] = "parts" /\ rlen[r] >= rsize[r]
    /\ GetReturns(r, IF DigestMatches(r) THEN "ok" ELSE "invalid")
    /\ UNCHANGED <<kv, writerVars, faults, tampers>>

GetFails(r) ==
    /\ rpc[r] \in {"marker", "parts"}
    /\ faults < MaxFaults
    /\ faults' = faults + 1
    /\ GetReturns(r, "error")
    /\ UNCHANGED <<kv, writerVars, tampers>>
-----------------------------------------------------------------------------
(* Consul (external): somebody else changes or deletes a key.              *)

Tamper(d) ==
    /\ tampers < MaxTampers
    /\ tampers' = tampers + 1
    /\ \/ \E i \in Indexes, n \in 0 .. ChunkSize :
            /\ chunk[d][i] # Absent
            /\ chunk' = [chunk EXCEPT ![d][i] = [from |-> 0, len |-> n, own |-> FALSE]]
            /\ UNCHANGED marker
       \/ \E n \in 0 .. MaxLen :
            /\ marker[d] # 0
            /\ marker' = [marker EXCEPT ![d] = n]
            /\ UNCHANGED chunk
    /\ since' = [w \in Writers |-> IF wdig[w] = d THEN since[w] \cup {"changed"} ELSE since[w]]
    /\ UNCHANGED <<length, wpc, wdig, widx, acked, readerVars, faults>>
-----------------------------------------------------------------------------
WriterNext(w) ==
    \/ \E d \in Digests : PutBegin(w, d)
    \/ CAS(w) \/ CASRefused(w) \/ Compare(w) \/ PutFails(w)

ReaderNext(r) ==
    \/ \E d \in Digests : GetBegin(r, d)
    \/ ReadMarker(r) \/ ReadPart(r) \/ Verify(r) \/ GetFails(r)

Next ==
    \/ \E w \in Writers : WriterNext(w)
    \/ \E r \in Readers : ReaderNext(r)
    \/ \E d \in Digests : Tamper(d)

Spec == Init /\ [][Next]_vars

-----------------------------------------------------------------------------
\* Every byte of the archive is in its chunk.
Whole(d) == \A i \in Indexes : Offset(i) < length[d] => chunk[d][i] = Slice(d, i)

\* The completion marker is a promise: while nobody else touches the keys, a
\* contract with a marker has every chunk, whoever wrote which of them and
\* however often an upload was cut short and begun again (contracts.go:24,
\* "partial uploads cannot become active").
MarkerMeansWhole == tampers = 0 => \A d \in Digests : marker[d] # 0 => Whole(d)

\* An upload whose own requests are all answered succeeds, whatever racing, failed and
\* resumed uploads of the same contract left behind: what it finds is never a conflict.
\* (One whose read-back fails is told of a conflict that is none, see FailedAs.)
UploadsResume ==
    tampers = 0 => \A w \in Writers : wpc[w] \in {"error", "conflict"} => "failed" \in since[w]

\* Importing again repairs or complains: an upload that succeeds leaves the whole contract
\* behind, readable by everybody, even over keys that were damaged or lost before it
\* began (contracts.go:66, "import a new ZIP link").
SuccessMeansWhole ==
    \A w \in Writers : wpc[w] = "ok" /\ "changed" \notin since[w] =>
        marker[wdig[w]] = length[wdig[w]] /\ Whole(wdig[w])

\* A reader that saw the marker gets to the end: no part missing, none invalid.
StartedReadsSucceed ==
    tampers = 0 => \A r \in Readers :
        /\ rpc[r] # "invalid"
        /\ rpc[r] = "missing" => rsize[r] = 0

\* What a successful Get returns: a contract, the right one or not.
Given(r) == [digest |-> rdig[r], whole |-> rexact[r] /\ rlen[r] = length[rdig[r]]]

\* The store implements the register: readable from the moment its marker exists.
Register == INSTANCE ContractRegister WITH
              stored <- {d \in Digests : marker[d] # 0},
              put <- acked,
              got <- [r \in Readers |-> IF rpc[r] = "ok" THEN {Given(r)} ELSE {}],
              disturbed <- tampers > 0
ImplementsRegister == Register!Spec
-----------------------------------------------------------------------------
(* Why: the inductive invariants.  IInv says most for as long as nobody    *)
(* tampers; UploadInv holds of each upload by itself, whatever came before. *)

\* A chunk key holds nothing or its own slice, a marker nothing or the size.
KeysInv ==
    /\ \A d \in Digests, i \in Indexes : chunk[d][i] \in {Absent, Slice(d, i)}
    /\ \A d \in Digests : marker[d] \in {0, length[d]}
    /\ \A d \in Digests : marker[d] # 0 => Whole(d)

\* A writer has left every chunk behind it in place; a refused key exists.
WriterInv ==
    \A w \in Writers :
        /\ wpc[w] \in {"error", "conflict"} => "failed" \in since[w]
        /\ wpc[w] \in Writing =>
             \A i \in Indexes : i < widx[w] /\ Offset(i) < length[wdig[w]] =>
                chunk[wdig[w]][i] = Slice(wdig[w], i)
        /\ wpc[w] = "compare" => KeyEqual(w)
        /\ \A d \in acked[w] : marker[d] # 0

\* A reader past the marker holds exactly the first rlen bytes of the archive.
ReaderInv ==
    \A r \in Readers :
        /\ rpc[r] # "invalid"
        /\ rpc[r] = "missing" => rsize[r] = 0
        /\ rpc[r] = "marker" => rsize[r] = 0 /\ rlen[r] = 0 /\ ridx[r] = 0 /\ rexact[r]
        /\ rpc[r] \in {"parts", "ok"} =>
             /\ rsize[r] = length[rdig[r]] /\ marker[rdig[r]] = rsize[r]
             /\ rexact[r]
             /\ rlen[r] = AtMost(Offset(ridx[r]), length[rdig[r]])
        /\ rpc[r] = "ok" => rlen[r] = rsize[r]

\* While nobody changes its contract, what an upload has behind it stays in place.
Undisturbed(w) ==
    "changed" \notin since[w] =>
        /\ wpc[w] \in Writing =>
             \A i \in Indexes : i < widx[w] /\ Offset(i) < length[wdig[w]] =>
                chunk[wdig[w]][i] = Slice(wdig[w], i)
        /\ wpc[w] = "ok" => marker[wdig[w]] = length[wdig[w]] /\ Whole(wdig[w])

UploadInv == \A w \in Writers : Undisturbed(w)

IInv == TypeOK /\ (tampers = 0 => KeysInv /\ WriterInv /\ ReaderInv)
=============================================================================
