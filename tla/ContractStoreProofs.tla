------------------------- MODULE ContractStoreProofs -------------------------
(***************************************************************************)
(* The completion marker of internal/metadata/contracts.go is sound for    *)
(* every chunk size, archive length and number of racing uploads.          *)
(***************************************************************************)
EXTENDS ContractStore, TLAPS

\* The offsets of the two loops: strictly increasing, one chunk apart.
LEMMA OffsetFacts ==
  /\ Offset(0) = 0
  /\ \A i \in Nat : Offset(i) \in Nat /\ i <= Offset(i) /\ Offset(i + 1) = Offset(i) + ChunkSize
  /\ \A i, j \in Nat : i < j => Offset(i) + ChunkSize <= Offset(j)
<1>1. \A i \in Nat : i * ChunkSize \in Nat /\ i <= i * ChunkSize
  BY ChunkSizeAssumption
<1>2. \A i \in Nat : (i + 1) * ChunkSize = i * ChunkSize + ChunkSize
  BY ChunkSizeAssumption
<1>3. ASSUME NEW i \in Nat, NEW j \in Nat, i < j PROVE i * ChunkSize + ChunkSize <= j * ChunkSize
  <2>1. PICK k \in Nat : j = i + 1 + k
    <3>1. j - i - 1 \in Nat /\ j = i + 1 + (j - i - 1)
      BY <1>3
    <3> QED BY <3>1
  <2>2. j * ChunkSize = i * ChunkSize + ChunkSize + k * ChunkSize
    BY <2>1, ChunkSizeAssumption
  <2> QED BY <2>2, <1>1, ChunkSizeAssumption
<1> QED BY <1>1, <1>2, <1>3, ChunkSizeAssumption DEF Offset

\* Every chunk the upload loop visits has a key number within bounds.
LEMMA ChunkInRange ==
  ASSUME TypeOK, NEW d \in Digests, NEW i \in Nat, Offset(i) < length[d]
  PROVE  i \in Indexes
<1>1. i <= Offset(i) /\ Offset(i) \in Nat
  BY OffsetFacts
<1> QED BY <1>1, MaxLenAssumption DEF TypeOK, Indexes

\* A slice of the archive is a stored value, and never the absent one.
LEMMA SliceType ==
  ASSUME TypeOK, NEW d \in Digests, NEW i \in Nat, Offset(i) < length[d]
  PROVE  Slice(d, i) \in Values /\ Slice(d, i) # Absent /\ Slice(d, i).len \in Nat \ {0}
<1>1. Offset(i) \in Nat /\ length[d] \in Nat
  BY OffsetFacts, MaxLenAssumption DEF TypeOK
<1> QED BY <1>1, ChunkSizeAssumption DEF Slice, Values, Absent, AtMost

LEMMA InitInv == Init => IInv
<1> SUFFICES ASSUME Init PROVE IInv
  OBVIOUS
<1>1. TypeOK
  <2>1. /\ chunk \in [Digests -> [Indexes -> Values]]
        /\ marker \in [Digests -> 0 .. MaxLen] /\ length \in [Digests -> 1 .. MaxLen]
    BY MaxLenAssumption DEF Init, Absent, Values
  <2>2. /\ wpc \in [Writers -> {"idle", "cas", "compare", "ok", "error", "conflict"}]
        /\ wdig \in [Writers -> Digests] /\ widx \in [Writers -> Nat]
        /\ acked \in [Writers -> SUBSET Digests]
    BY SMT DEF Init
  <2>3. /\ rpc \in [Readers -> {"idle", "marker", "parts", "ok", "error", "missing", "invalid"}]
        /\ rdig \in [Readers -> Digests] /\ ridx \in [Readers -> Nat]
        /\ rsize \in [Readers -> 0 .. MaxLen] /\ rlen \in [Readers -> Nat]
    BY MaxLenAssumption, SMT DEF Init
  <2>4. rexact \in [Readers -> BOOLEAN]
    BY DEF Init
  <2>5. faults \in 0 .. MaxFaults /\ tampers \in 0 .. MaxTampers
    BY BoundsAssumption DEF Init
  <2>6. since \in [Writers -> SUBSET Troubles]
    BY DEF Init
  <2> QED BY <2>1, <2>2, <2>3, <2>4, <2>5, <2>6 DEF TypeOK
<1>2. KeysInv /\ WriterInv /\ ReaderInv
  BY DEF Init, KeysInv, WriterInv, ReaderInv, Writing
<1> QED BY <1>1, <1>2 DEF IInv

\* The invariant speaks only of the state variables.
LEMMA StutterInv ==
  ASSUME IInv, UNCHANGED <<kv, writerVars, readerVars, tampers>>, faults' \in 0 .. MaxFaults
  PROVE  IInv'
<1> USE DEF kv, writerVars, readerVars
<1>1. TypeOK'
  BY DEF IInv, TypeOK
<1>2. KeysInv => KeysInv'
  BY DEF KeysInv, Whole, Slice
<1>3. WriterInv => WriterInv'
  BY DEF WriterInv, Slice, KeyEqual, AtMarker, HasChunk
<1>4. ReaderInv => ReaderInv'
  BY DEF ReaderInv
<1> QED BY <1>1, <1>2, <1>3, <1>4 DEF IInv

\* Creating the key a writer is at: the one step that changes the store.
LEMMA StoreKeyInv ==
  ASSUME IInv, NEW w \in Writers, wpc[w] = "cas", KeyAbsent(w), StoreKey(w)
  PROVE  /\ chunk' \in [Digests -> [Indexes -> Values]] /\ marker' \in [Digests -> 0 .. MaxLen]
         /\ length' = length
         /\ tampers = 0 => KeysInv'
         /\ \A d \in Digests : marker[d] # 0 => marker'[d] = marker[d]
         /\ \A d \in Digests, i \in Indexes : chunk[d][i] # Absent => chunk'[d][i] = chunk[d][i]
         /\ AtMarker(w) => marker'[wdig[w]] # 0 /\ marker'[wdig[w]] = length[wdig[w]]
         /\ ~AtMarker(w) => chunk'[wdig[w]][widx[w]] = Slice(wdig[w], widx[w])
<1> USE DEF IInv
<1> DEFINE d == wdig[w]
           i == widx[w]
<1>1. d \in Digests /\ i \in Nat /\ length[d] \in Nat /\ length[d] \in 1 .. MaxLen
  BY MaxLenAssumption DEF TypeOK
<1>2. CASE AtMarker(w)
  <2>1. marker' = [marker EXCEPT ![d] = length[d]] /\ chunk' = chunk /\ length' = length
        /\ marker[d] = 0
    BY <1>2 DEF StoreKey, KeyAbsent
  <2>2. ~(Offset(i) < length[d])
    BY <1>2 DEF AtMarker, HasChunk
  <2>3. tampers = 0 => Whole(d)
    <3> SUFFICES ASSUME tampers = 0, NEW j \in Indexes, Offset(j) < length[d]
                 PROVE  chunk[d][j] = Slice(d, j)
      BY DEF Whole
    <3>1. j < i
      <4>1. j \in Nat
        BY MaxLenAssumption DEF Indexes
      <4>2. Offset(i) \in Nat /\ Offset(j) \in Nat /\ Offset(j) < Offset(i)
        BY <4>1, <1>1, <2>2, OffsetFacts
      <4>3. ~(i < j)
        <5> SUFFICES ASSUME i < j PROVE FALSE
          OBVIOUS
        <5>1. Offset(i) + ChunkSize <= Offset(j)
          BY <4>1, <1>1, OffsetFacts
        <5> HIDE DEF i
        <5> QED BY <5>1, <4>2, ChunkSizeAssumption
      <4>4. i # j
        BY <4>2
      <4> QED BY <4>1, <4>3, <4>4, <1>1
    <3> QED BY <3>1 DEF WriterInv, Writing
  <2>4. marker' \in [Digests -> 0 .. MaxLen]
    BY <1>1, <2>1 DEF TypeOK
  <2>5. tampers = 0 => KeysInv'
    BY <2>1, <2>3 DEF KeysInv, Whole, Slice, TypeOK
  <2>6. marker'[d] = length[d]
    BY <1>1, <2>1 DEF TypeOK
  <2>7. \A e \in Digests : marker[e] # 0 => marker'[e] = marker[e]
    BY <2>1 DEF TypeOK
  <2> QED BY <1>1, <1>2, <2>1, <2>4, <2>5, <2>6, <2>7 DEF TypeOK
<1>3. CASE ~AtMarker(w)
  <2>1. chunk' = [chunk EXCEPT ![d][i] = Slice(d, i)] /\ marker' = marker /\ length' = length
        /\ chunk[d][i] = Absent
    BY <1>3 DEF StoreKey, KeyAbsent
  <2>2. Offset(i) < length[d]
    BY <1>3 DEF AtMarker, HasChunk
  <2>3. i \in Indexes /\ Slice(d, i) \in Values /\ Slice(d, i) # Absent
    BY <1>1, <2>2, ChunkInRange, SliceType
  <2>4. chunk' \in [Digests -> [Indexes -> Values]]
    BY <1>1, <2>1, <2>3 DEF TypeOK
  <2>5. chunk'[d][i] = Slice(d, i)
    BY <1>1, <2>1, <2>3 DEF TypeOK
  <2>6. \A e \in Digests, j \in Indexes : (e # d \/ j # i) => chunk'[e][j] = chunk[e][j]
    BY <2>1 DEF TypeOK
  <2>7. tampers = 0 => KeysInv'
    <3> SUFFICES ASSUME tampers = 0 PROVE KeysInv'
      OBVIOUS
    <3>1. \A e \in Digests, j \in Indexes : Slice(e, j)' = Slice(e, j)
      BY <2>1 DEF Slice
    <3>2. \A e \in Digests, j \in Indexes : chunk'[e][j] \in {Absent, Slice(e, j)'}
      BY <2>5, <2>6, <3>1 DEF KeysInv
    <3>3. \A e \in Digests : marker'[e] # 0 => Whole(e)'
      BY <2>1, <2>5, <2>6, <3>1 DEF KeysInv, Whole
    <3> QED BY <2>1, <3>2, <3>3 DEF KeysInv
  <2>8. \A e \in Digests, j \in Indexes : chunk[e][j] # Absent => chunk'[e][j] = chunk[e][j]
    BY <2>1, <2>6
  <2> QED BY <2>1, <2>4, <2>5, <2>7, <2>8, <1>3 DEF TypeOK
<1> QED BY <1>2, <1>3

\* After a store step, or none, what the other writers and the readers rely on.
LEMMA StableInv ==
  ASSUME IInv, tampers = 0, length' = length,
         \A d \in Digests : marker[d] # 0 => marker'[d] = marker[d],
         \A d \in Digests, i \in Indexes : chunk[d][i] # Absent => chunk'[d][i] = chunk[d][i]
  PROVE  /\ \A d \in Digests, i \in Nat : Slice(d, i)' = Slice(d, i)
         /\ \A d \in Digests, i \in Indexes :
               Offset(i) < length[d] /\ chunk[d][i] = Slice(d, i) => chunk'[d][i] = Slice(d, i)
         /\ UNCHANGED readerVars => ReaderInv'
<1>1. \A d \in Digests, i \in Nat : Slice(d, i)' = Slice(d, i)
  BY DEF Slice
<1>2. \A d \in Digests, i \in Indexes :
        Offset(i) < length[d] /\ chunk[d][i] = Slice(d, i) => chunk'[d][i] = Slice(d, i)
  BY SliceType, MaxLenAssumption DEF IInv, Indexes
<1>3. UNCHANGED readerVars => ReaderInv'
  <2> SUFFICES ASSUME UNCHANGED readerVars, NEW r \in Readers, rpc[r] \in {"parts", "ok"}
               PROVE  marker'[rdig[r]] = marker[rdig[r]]
    BY DEF ReaderInv, readerVars, IInv
  <2>1. rdig[r] \in Digests /\ marker[rdig[r]] = length[rdig[r]] /\ length[rdig[r]] \in 1 .. MaxLen
    BY DEF IInv, ReaderInv, TypeOK
  <2> QED BY <2>1, MaxLenAssumption
<1> QED BY <1>1, <1>2, <1>3

LEMMA PutBeginInv ==
  ASSUME IInv, NEW w \in Writers, NEW d \in Digests, PutBegin(w, d) PROVE IInv'
<1>1. /\ wpc' = [wpc EXCEPT ![w] = "cas"] /\ wdig' = [wdig EXCEPT ![w] = d]
      /\ widx' = [widx EXCEPT ![w] = 0] /\ since' = [since EXCEPT ![w] = {}]
      /\ UNCHANGED <<length, chunk, marker, acked, rpc, rdig, ridx, rsize, rlen, rexact, faults, tampers>>
  BY DEF PutBegin, kv, readerVars
<1>2. TypeOK'
  BY <1>1 DEF IInv, TypeOK
<1>3. tampers = 0 => KeysInv' /\ ReaderInv'
  BY <1>1, StableInv DEF IInv, KeysInv, ReaderInv, Whole, Slice
<1>4. tampers = 0 => WriterInv'
  <2> SUFFICES ASSUME tampers = 0 PROVE WriterInv'
    OBVIOUS
  <2>1. /\ wpc'[w] = "cas" /\ wdig'[w] = d /\ widx'[w] = 0
        /\ \A v \in Writers \ {w} : /\ wpc'[v] = wpc[v] /\ wdig'[v] = wdig[v] /\ widx'[v] = widx[v]
                                     /\ since'[v] = since[v]
    BY <1>1 DEF IInv, TypeOK
  <2>2. \A i \in Indexes : ~(i < 0)
    BY DEF Indexes
  <2>3. \A v \in Writers \ {w} : KeyEqual(v)' = KeyEqual(v)
    BY <1>1, <2>1 DEF Slice, KeyEqual, AtMarker, HasChunk
  <2>4. \A e \in Digests, i \in Indexes : Slice(e, i)' = Slice(e, i)
    BY <1>1 DEF Slice
  <2>5. \A v \in Writers : wdig[v] \in Digests
    BY DEF IInv, TypeOK
  <2> QED BY <1>1, <2>1, <2>2, <2>3, <2>4, <2>5 DEF IInv, WriterInv
<1> QED BY <1>1, <1>2, <1>3, <1>4 DEF IInv

\* A writer's variables keep their types.
LEMMA AdvanceType ==
  ASSUME TypeOK, NEW w \in Writers, Advance(w)
  PROVE  /\ wpc' \in [Writers -> {"idle", "cas", "compare", "ok", "error", "conflict"}]
         /\ wdig' \in [Writers -> Digests] /\ widx' \in [Writers -> Nat]
         /\ acked' \in [Writers -> SUBSET Digests]
<1>1. CASE AtMarker(w)
  <2>1. /\ wpc' = [wpc EXCEPT ![w] = "ok"]
        /\ acked' = [acked EXCEPT ![w] = @ \cup {wdig[w]}]
        /\ wdig' = wdig /\ widx' = widx
    BY <1>1 DEF Advance
  <2>2. wdig[w] \in Digests /\ acked[w] \in SUBSET Digests
    BY DEF TypeOK
  <2>3. acked' \in [Writers -> SUBSET Digests]
    <3>1. acked[w] \cup {wdig[w]} \in SUBSET Digests
      BY <2>2
    <3> QED BY <2>1, <3>1 DEF TypeOK
  <2>4. wpc' \in [Writers -> {"idle", "cas", "compare", "ok", "error", "conflict"}]
    BY <2>1 DEF TypeOK
  <2> QED BY <2>1, <2>3, <2>4 DEF TypeOK
<1>2. CASE ~AtMarker(w)
  <2>1. widx[w] + 1 \in Nat
    BY DEF TypeOK
  <2> QED BY <1>2, <2>1 DEF Advance, NextIndex, TypeOK
<1> QED BY <1>1, <1>2

\* putImmutable returned nil for the key w was at.
LEMMA AdvanceWriter ==
  ASSUME IInv, tampers = 0, NEW w \in Writers, wpc[w] \in Writing, Advance(w), UNCHANGED <<length, since>>,
         \A d \in Digests : marker[d] # 0 => marker'[d] = marker[d],
         \A d \in Digests, i \in Indexes : chunk[d][i] # Absent => chunk'[d][i] = chunk[d][i],
         AtMarker(w) => marker'[wdig[w]] # 0,
         ~AtMarker(w) => chunk'[wdig[w]][widx[w]] = Slice(wdig[w], widx[w])
  PROVE  WriterInv'
<1>1. /\ \A d \in Digests, i \in Nat : Slice(d, i)' = Slice(d, i)
      /\ \A d \in Digests, i \in Indexes :
            Offset(i) < length[d] /\ chunk[d][i] = Slice(d, i) => chunk'[d][i] = Slice(d, i)
  BY StableInv
<1>2. \A i \in Indexes : i \in Nat
  BY MaxLenAssumption DEF Indexes
<1>3. wdig' = wdig /\ \A v \in Writers \ {w} : wpc'[v] = wpc[v] /\ widx'[v] = widx[v] /\ acked'[v] = acked[v]
  BY DEF Advance, IInv, TypeOK
<1>4. \A v \in Writers : wdig[v] \in Digests /\ widx[v] \in Nat /\ acked[v] \subseteq Digests
  BY DEF IInv, TypeOK
<1>5. ASSUME NEW v \in Writers \ {w} PROVE
        /\ wpc'[v] \in {"error", "conflict"} => "failed" \in since'[v]
        /\ wpc'[v] \in Writing =>
             \A i \in Indexes : i < widx'[v] /\ Offset(i) < length[wdig[v]] =>
                chunk'[wdig[v]][i] = Slice(wdig[v], i)
        /\ wpc'[v] = "compare" => KeyEqual(v)'
        /\ \A d \in acked'[v] : marker'[d] # 0
  <2>1. wpc[v] = "compare" => KeyEqual(v)'
    <3> SUFFICES ASSUME wpc[v] = "compare" PROVE KeyEqual(v)'
      OBVIOUS
    <3>1. KeyEqual(v)
      BY DEF IInv, WriterInv
    <3>2. CASE AtMarker(v)
      BY <3>1, <3>2, <1>3, <1>4, MaxLenAssumption DEF KeyEqual, AtMarker, HasChunk, IInv, TypeOK
    <3>3. CASE ~AtMarker(v)
      <4>1. Offset(widx[v]) < length[wdig[v]] /\ chunk[wdig[v]][widx[v]] = Slice(wdig[v], widx[v])
        BY <3>1, <3>3 DEF KeyEqual, AtMarker, HasChunk
      <4>2. widx[v] \in Indexes
        BY <4>1, <1>4, ChunkInRange DEF IInv
      <4> QED BY <4>1, <4>2, <1>1, <1>3, <1>4, <3>3 DEF KeyEqual, AtMarker, HasChunk
    <3> QED BY <3>2, <3>3
  <2> QED BY <2>1, <1>1, <1>2, <1>3, <1>4, <1>5 DEF IInv, WriterInv
<1>6. /\ wpc'[w] \notin {"error", "conflict", "compare"}
      /\ \A d \in acked'[w] : marker'[d] # 0
      /\ wpc'[w] \in Writing =>
             \A i \in Indexes : i < widx'[w] /\ Offset(i) < length[wdig[w]] =>
                chunk'[wdig[w]][i] = Slice(wdig[w], i)
  <2>1. CASE AtMarker(w)
    <3>1. wpc'[w] = "ok" /\ acked'[w] = acked[w] \cup {wdig[w]}
      BY <2>1 DEF Advance, IInv, TypeOK
    <3> QED BY <3>1, <2>1, <1>4 DEF IInv, WriterInv, Writing
  <2>2. CASE ~AtMarker(w)
    <3>1. wpc'[w] = "cas" /\ acked' = acked /\ widx'[w] = widx[w] + 1
      BY <2>2 DEF Advance, IInv, TypeOK, NextIndex
    <3>2. \A i \in Indexes : i < widx[w] + 1 => i < widx[w] \/ i = widx[w]
      BY <1>2, <1>4
    <3> QED BY <3>1, <3>2, <2>2, <1>1, <1>2, <1>4 DEF IInv, WriterInv
  <2> QED BY <2>1, <2>2
<1>7. \A v \in Writers : length'[wdig'[v]] = length[wdig[v]]
  BY <1>3
<1> QED BY <1>1, <1>2, <1>3, <1>4, <1>5, <1>6 DEF WriterInv

\* An upload that stops keeps what the others rely on.
LEMMA StoppedWriter ==
  ASSUME IInv, tampers = 0, NEW w \in Writers, NEW pc \in {"idle", "error", "conflict", "compare"},
         wpc' = [wpc EXCEPT ![w] = pc], UNCHANGED <<wdig, widx, acked, length>>,
         \A v \in Writers : since[v] \subseteq since'[v],
         pc \in {"error", "conflict"} => "failed" \in since'[w],
         wpc[w] \in Writing, pc = "compare" => KeyEqual(w)',
         \A d \in Digests : marker[d] # 0 => marker'[d] = marker[d],
         \A d \in Digests, i \in Indexes : chunk[d][i] # Absent => chunk'[d][i] = chunk[d][i]
  PROVE  WriterInv'
<1>1. /\ \A d \in Digests, i \in Nat : Slice(d, i)' = Slice(d, i)
      /\ \A d \in Digests, i \in Indexes :
            Offset(i) < length[d] /\ chunk[d][i] = Slice(d, i) => chunk'[d][i] = Slice(d, i)
  BY StableInv
<1>2. \A i \in Indexes : i \in Nat
  BY MaxLenAssumption DEF Indexes
<1>3. wpc'[w] = pc /\ \A v \in Writers \ {w} : wpc'[v] = wpc[v]
  BY DEF IInv, TypeOK
<1>4. \A v \in Writers : wdig[v] \in Digests /\ widx[v] \in Nat /\ acked[v] \subseteq Digests
  BY DEF IInv, TypeOK
<1>5. ASSUME NEW v \in Writers, v # w, wpc[v] = "compare" PROVE KeyEqual(v)'
  <2>1. KeyEqual(v)
    BY <1>5 DEF IInv, WriterInv
  <2>2. CASE AtMarker(v)
    BY <2>1, <2>2, <1>4, MaxLenAssumption DEF KeyEqual, AtMarker, HasChunk, IInv, TypeOK
  <2>3. CASE ~AtMarker(v)
    <3>1. Offset(widx[v]) < length[wdig[v]] /\ chunk[wdig[v]][widx[v]] = Slice(wdig[v], widx[v])
      BY <2>1, <2>3 DEF KeyEqual, AtMarker, HasChunk
    <3>2. widx[v] \in Indexes
      BY <3>1, <1>4, ChunkInRange DEF IInv
    <3> QED BY <3>1, <3>2, <1>1, <1>4, <2>3 DEF KeyEqual, AtMarker, HasChunk
  <2> QED BY <2>2, <2>3
<1>6. \A v \in Writers : wpc'[v] = "compare" => KeyEqual(v)'
  BY <1>3, <1>5
<1>7. \A v \in Writers : wpc'[v] \in Writing => wpc[v] \in Writing
  BY <1>3
<1> QED BY <1>1, <1>2, <1>3, <1>4, <1>6, <1>7 DEF IInv, WriterInv

LEMMA CASInv ==
  ASSUME IInv, NEW w \in Writers, CAS(w) PROVE IInv'
<1>1. /\ wpc[w] = "cas" /\ KeyAbsent(w) /\ StoreKey(w) /\ Advance(w)
      /\ UNCHANGED <<since, rpc, rdig, ridx, rsize, rlen, rexact, faults, tampers>>
  BY DEF CAS, readerVars
<1>2. TypeOK'
  <2>1. /\ wpc' \in [Writers -> {"idle", "cas", "compare", "ok", "error", "conflict"}]
        /\ wdig' \in [Writers -> Digests] /\ widx' \in [Writers -> Nat]
        /\ acked' \in [Writers -> SUBSET Digests]
    BY <1>1, AdvanceType DEF IInv
  <2> QED BY <1>1, <2>1, StoreKeyInv DEF IInv, TypeOK
<1>3. tampers = 0 => KeysInv' /\ WriterInv' /\ ReaderInv'
  BY <1>1, StoreKeyInv, AdvanceWriter, StableInv DEF Writing, readerVars
<1> QED BY <1>1, <1>2, <1>3 DEF IInv

\* A CAS is refused only when the key exists, and then it holds our bytes.
LEMMA CASRefusedInv ==
  ASSUME IInv, NEW w \in Writers, CASRefused(w) PROVE IInv'
<1>1. /\ wpc[w] = "cas" /\ ~KeyAbsent(w) /\ wpc' = [wpc EXCEPT ![w] = "compare"]
      /\ UNCHANGED <<length, chunk, marker, wdig, widx, acked, since, faults, tampers>>
      /\ UNCHANGED readerVars /\ UNCHANGED <<rpc, rdig, ridx, rsize, rlen, rexact>>
  BY DEF CASRefused, kv, readerVars
<1>2. TypeOK'
  BY <1>1 DEF IInv, TypeOK
<1>3. tampers = 0 => KeyEqual(w)'
  <2> SUFFICES ASSUME tampers = 0 PROVE KeyEqual(w)'
    OBVIOUS
  <2>1. KeyEqual(w)
    <3>1. wdig[w] \in Digests /\ widx[w] \in Nat
      BY DEF IInv, TypeOK
    <3>2. CASE AtMarker(w)
      BY <1>1, <3>1, <3>2 DEF KeyAbsent, KeyEqual, IInv, KeysInv
    <3>3. CASE ~AtMarker(w)
      <4>1. widx[w] \in Indexes
        BY <3>1, <3>3, ChunkInRange DEF AtMarker, HasChunk, IInv
      <4> QED BY <1>1, <3>1, <3>3, <4>1 DEF KeyAbsent, KeyEqual, IInv, KeysInv
    <3> QED BY <3>2, <3>3
  <2> QED BY <2>1, <1>1 DEF KeyEqual, AtMarker, HasChunk, Slice
<1>4. tampers = 0 => KeysInv' /\ WriterInv' /\ ReaderInv'
  <2>1. tampers = 0 => WriterInv'
    BY <1>1, <1>3, StoppedWriter DEF Writing
  <2>2. tampers = 0 => KeysInv'
    BY <1>1 DEF IInv, KeysInv, Whole, Slice
  <2>3. tampers = 0 => ReaderInv'
    BY <1>1, StableInv
  <2> QED BY <2>1, <2>2, <2>3
<1> QED BY <1>1, <1>2, <1>4 DEF IInv

LEMMA CompareInv ==
  ASSUME IInv, NEW w \in Writers, Compare(w) PROVE IInv'
<1>1. /\ wpc[w] = "compare"
      /\ IF KeyEqual(w) THEN Advance(w) ELSE PutStops(w, "conflict")
      /\ UNCHANGED <<length, chunk, marker, since, faults, tampers>>
      /\ UNCHANGED readerVars /\ UNCHANGED <<rpc, rdig, ridx, rsize, rlen, rexact>>
  BY DEF Compare, Compares, kv, readerVars
<1>2. TypeOK'
  <2>1. /\ wpc' \in [Writers -> {"idle", "cas", "compare", "ok", "error", "conflict"}]
        /\ wdig' \in [Writers -> Digests] /\ widx' \in [Writers -> Nat]
        /\ acked' \in [Writers -> SUBSET Digests]
    <3>1. CASE Advance(w)
      BY <3>1, AdvanceType DEF IInv
    <3>2. CASE PutStops(w, "conflict")
      BY <3>2 DEF PutStops, IInv, TypeOK
    <3> QED BY <1>1, <3>1, <3>2
  <2> QED BY <1>1, <2>1 DEF IInv, TypeOK
<1>3. tampers = 0 => KeysInv' /\ ReaderInv'
  BY <1>1, StableInv DEF IInv, KeysInv, Whole, Slice
<1>4. tampers = 0 => WriterInv'
  <2> SUFFICES ASSUME tampers = 0 PROVE WriterInv'
    OBVIOUS
  <2>1. KeyEqual(w)
    BY <1>1 DEF IInv, WriterInv
  <2>2. Advance(w)
    BY <1>1, <2>1
  <2>3. wdig[w] \in Digests /\ length[wdig[w]] \in 1 .. MaxLen
    BY DEF IInv, TypeOK
  <2>4. AtMarker(w) => marker'[wdig[w]] # 0
    BY <1>1, <2>1, <2>3, MaxLenAssumption DEF KeyEqual
  <2>5. ~AtMarker(w) => chunk'[wdig[w]][widx[w]] = Slice(wdig[w], widx[w])
    BY <1>1, <2>1 DEF KeyEqual
  <2> QED BY <1>1, <2>2, <2>4, <2>5, AdvanceWriter DEF Writing
<1> QED BY <1>1, <1>2, <1>3, <1>4 DEF IInv

\* An upload that fails was refused an answer, and has that on record.
LEMMA PutFailsInv ==
  ASSUME IInv, NEW w \in Writers, PutFails(w) PROVE IInv'
<1>1. PICK pc \in {"idle", "error", "conflict"} : wpc' = [wpc EXCEPT ![w] = pc]
  BY DEF PutFails, PutStops, FailedAs
<1>0. /\ wpc[w] \in Writing /\ faults' \in 0 .. MaxFaults
      /\ since' = [since EXCEPT ![w] = @ \cup {"failed"}]
      /\ UNCHANGED <<wdig, widx, acked, tampers>> /\ UNCHANGED readerVars
      /\ UNCHANGED <<rpc, rdig, ridx, rsize, rlen, rexact>>
      /\ \/ UNCHANGED <<length, chunk, marker>>
         \/ wpc[w] = "cas" /\ KeyAbsent(w) /\ StoreKey(w)
  BY BoundsAssumption DEF PutFails, PutStops, kv, readerVars, IInv, TypeOK
<1>2. /\ chunk' \in [Digests -> [Indexes -> Values]] /\ marker' \in [Digests -> 0 .. MaxLen]
      /\ length' = length
      /\ tampers = 0 => KeysInv'
      /\ \A d \in Digests : marker[d] # 0 => marker'[d] = marker[d]
      /\ \A d \in Digests, i \in Indexes : chunk[d][i] # Absent => chunk'[d][i] = chunk[d][i]
  <2>1. CASE UNCHANGED <<length, chunk, marker>>
    BY <2>1 DEF IInv, TypeOK, KeysInv, Whole, Slice
  <2>2. CASE wpc[w] = "cas" /\ KeyAbsent(w) /\ StoreKey(w)
    BY <2>2, StoreKeyInv
  <2> QED BY <1>0, <2>1, <2>2
<1>3. /\ since' \in [Writers -> SUBSET Troubles]
      /\ "failed" \in since'[w] /\ \A v \in Writers : since[v] \subseteq since'[v]
  BY <1>0 DEF IInv, TypeOK, Troubles
<1>4. TypeOK'
  BY <1>0, <1>1, <1>2, <1>3 DEF IInv, TypeOK
<1>5. tampers = 0 => WriterInv' /\ ReaderInv'
  BY <1>0, <1>1, <1>2, <1>3, StoppedWriter, StableInv
<1> QED BY <1>0, <1>2, <1>4, <1>5 DEF IInv

\* A step of a reader leaves the store and the writers alone.
LEMMA ReaderStepInv ==
  ASSUME IInv, UNCHANGED <<kv, writerVars, tampers>>, faults' \in 0 .. MaxFaults,
         tampers = 0 => ReaderInv',
         rpc' \in [Readers -> {"idle", "marker", "parts", "ok", "error", "missing", "invalid"}],
         rdig' \in [Readers -> Digests], ridx' \in [Readers -> Nat],
         rsize' \in [Readers -> 0 .. MaxLen], rlen' \in [Readers -> Nat],
         rexact' \in [Readers -> BOOLEAN]
  PROVE  IInv'
<1> USE DEF kv, writerVars
<1>1. TypeOK'
  BY DEF IInv, TypeOK
<1>2. KeysInv => KeysInv'
  BY DEF KeysInv, Whole, Slice
<1>3. WriterInv => WriterInv'
  BY DEF WriterInv, Slice, KeyEqual, AtMarker, HasChunk
<1> QED BY <1>1, <1>2, <1>3 DEF IInv

LEMMA GetBeginInv ==
  ASSUME IInv, NEW r \in Readers, NEW d \in Digests, GetBegin(r, d) PROVE IInv'
<1>1. /\ rpc' = [rpc EXCEPT ![r] = "marker"] /\ rdig' = [rdig EXCEPT ![r] = d]
      /\ ridx' = [ridx EXCEPT ![r] = 0] /\ rsize' = [rsize EXCEPT ![r] = 0]
      /\ rlen' = [rlen EXCEPT ![r] = 0] /\ rexact' = [rexact EXCEPT ![r] = TRUE]
      /\ UNCHANGED <<kv, writerVars, faults, tampers>> /\ UNCHANGED <<length, marker>>
  BY DEF GetBegin, kv
<1>2. /\ rpc'[r] = "marker" /\ rsize'[r] = 0 /\ rlen'[r] = 0 /\ ridx'[r] = 0 /\ rexact'[r]
      /\ \A q \in Readers \ {r} :
            /\ rpc'[q] = rpc[q] /\ rdig'[q] = rdig[q] /\ ridx'[q] = ridx[q]
            /\ rsize'[q] = rsize[q] /\ rlen'[q] = rlen[q] /\ rexact'[q] = rexact[q]
  BY <1>1 DEF IInv, TypeOK
<1>3. tampers = 0 => ReaderInv'
  BY <1>1, <1>2 DEF IInv, ReaderInv
<1>4. /\ rpc' \in [Readers -> {"idle", "marker", "parts", "ok", "error", "missing", "invalid"}]
      /\ rdig' \in [Readers -> Digests] /\ ridx' \in [Readers -> Nat]
      /\ rsize' \in [Readers -> 0 .. MaxLen] /\ rlen' \in [Readers -> Nat]
      /\ rexact' \in [Readers -> BOOLEAN] /\ faults' \in 0 .. MaxFaults
  BY <1>1, MaxLenAssumption DEF IInv, TypeOK
<1> QED BY <1>1, <1>3, <1>4, ReaderStepInv

\* A reader that only changes its program counter, to something harmless.
LEMMA GetReturnsInv ==
  ASSUME IInv, NEW r \in Readers, NEW pc \in {"ok", "error", "missing", "invalid"},
         GetReturns(r, pc), UNCHANGED <<kv, writerVars, tampers>>, faults' \in 0 .. MaxFaults,
         tampers = 0 => /\ pc # "invalid"
                        /\ pc = "missing" => rsize[r] = 0
                        /\ pc = "ok" => rpc[r] = "parts" /\ rlen[r] = rsize[r]
  PROVE  IInv'
<1>1. /\ rpc' = [rpc EXCEPT ![r] = pc] /\ UNCHANGED <<rdig, ridx, rsize, rlen, rexact>>
      /\ UNCHANGED <<length, marker>>
  BY DEF GetReturns, kv
<1>2. rpc'[r] = pc /\ \A q \in Readers \ {r} : rpc'[q] = rpc[q]
  BY <1>1 DEF IInv, TypeOK
<1>3. tampers = 0 => ReaderInv'
  BY <1>1, <1>2 DEF IInv, ReaderInv
<1>4. /\ rpc' \in [Readers -> {"idle", "marker", "parts", "ok", "error", "missing", "invalid"}]
      /\ rdig' \in [Readers -> Digests] /\ ridx' \in [Readers -> Nat]
      /\ rsize' \in [Readers -> 0 .. MaxLen] /\ rlen' \in [Readers -> Nat]
      /\ rexact' \in [Readers -> BOOLEAN]
  BY <1>1 DEF IInv, TypeOK
<1> QED BY <1>3, <1>4, ReaderStepInv

LEMMA ReadMarkerInv ==
  ASSUME IInv, NEW r \in Readers, ReadMarker(r) PROVE IInv'
<1>1. rpc[r] = "marker" /\ UNCHANGED <<kv, writerVars, faults, tampers>>
      /\ UNCHANGED <<length, marker>> /\ faults' \in 0 .. MaxFaults
  BY DEF ReadMarker, kv, IInv, TypeOK
<1>2. CASE marker[rdig[r]] = 0
  <2>1. GetReturns(r, "missing")
    BY <1>2 DEF ReadMarker
  <2>2. tampers = 0 => rsize[r] = 0
    BY <1>1 DEF IInv, ReaderInv
  <2> QED BY <1>1, <2>1, <2>2, GetReturnsInv
<1>3. CASE marker[rdig[r]] # 0
  <2>1. /\ rpc' = [rpc EXCEPT ![r] = "parts"] /\ rsize' = [rsize EXCEPT ![r] = marker[rdig[r]]]
        /\ UNCHANGED <<rdig, ridx, rlen, rexact>>
    BY <1>3 DEF ReadMarker
  <2>2. rdig[r] \in Digests /\ marker[rdig[r]] \in 0 .. MaxLen /\ length[rdig[r]] \in 1 .. MaxLen
    BY DEF IInv, TypeOK
  <2>3. /\ rpc'[r] = "parts" /\ rsize'[r] = marker[rdig[r]]
        /\ \A q \in Readers \ {r} : rpc'[q] = rpc[q] /\ rsize'[q] = rsize[q]
    BY <2>1 DEF IInv, TypeOK
  <2>4. tampers = 0 => ReaderInv'
    <3> SUFFICES ASSUME tampers = 0 PROVE ReaderInv'
      OBVIOUS
    <3>1. marker[rdig[r]] = length[rdig[r]]
      BY <1>3, <2>2 DEF IInv, KeysInv
    <3>2. rlen[r] = 0 /\ ridx[r] = 0 /\ rexact[r]
      BY <1>1 DEF IInv, ReaderInv
    <3>3. AtMost(Offset(0), length[rdig[r]]) = 0
      BY OffsetFacts, <2>2, MaxLenAssumption DEF AtMost
    <3> QED BY <1>1, <2>1, <2>3, <3>1, <3>2, <3>3 DEF IInv, ReaderInv
  <2>5. /\ rpc' \in [Readers -> {"idle", "marker", "parts", "ok", "error", "missing", "invalid"}]
        /\ rdig' \in [Readers -> Digests] /\ ridx' \in [Readers -> Nat]
        /\ rsize' \in [Readers -> 0 .. MaxLen] /\ rlen' \in [Readers -> Nat]
        /\ rexact' \in [Readers -> BOOLEAN]
    BY <2>1, <2>2 DEF IInv, TypeOK
  <2> QED BY <1>1, <2>4, <2>5, ReaderStepInv
<1> QED BY <1>2, <1>3

\* The next part is there, whole, and is the next slice of the archive.
LEMMA NextPart ==
  ASSUME IInv, tampers = 0, NEW r \in Readers, rpc[r] = "parts", rlen[r] < rsize[r]
  PROVE  /\ chunk[rdig[r]][ridx[r]] = Slice(rdig[r], ridx[r])
         /\ chunk[rdig[r]][ridx[r]] # Absent
         /\ Slice(rdig[r], ridx[r]).len = ExpectedLen(r)
         /\ rlen[r] = Offset(ridx[r])
         /\ rlen[r] + ExpectedLen(r) = AtMost(Offset(ridx[r] + 1), length[rdig[r]])
<1> DEFINE d == rdig[r]
           i == ridx[r]
<1>1. d \in Digests /\ i \in Nat /\ length[d] \in Nat /\ marker[d] # 0
      /\ rsize[r] = length[d] /\ rlen[r] = AtMost(Offset(i), length[d]) /\ Offset(i) \in Nat
      /\ Offset(i + 1) = Offset(i) + ChunkSize
  <2>1. TypeOK /\ ReaderInv
    BY DEF IInv
  <2>2. d \in Digests /\ i \in Nat /\ length[d] \in Nat
    BY <2>1, MaxLenAssumption DEF TypeOK
  <2>3. marker[d] = length[d] /\ rsize[r] = length[d] /\ rlen[r] = AtMost(Offset(i), length[d])
    BY <2>1 DEF ReaderInv
  <2>4. length[d] # 0
    BY <2>1, <2>2 DEF TypeOK
  <2> QED BY <2>2, <2>3, <2>4, OffsetFacts
<1>2. Offset(i) < length[d] /\ rlen[r] = Offset(i)
  BY <1>1 DEF AtMost
<1>3. i \in Indexes
  BY <1>1, <1>2, ChunkInRange DEF IInv
<1>4. chunk[d][i] = Slice(d, i)
  BY <1>1, <1>2, <1>3 DEF IInv, KeysInv, Whole
<1>5. Slice(d, i) # Absent
  BY <1>1, <1>2, SliceType DEF IInv
<1>6. Slice(d, i).len = ExpectedLen(r)
  BY <1>1, <1>2 DEF Slice, ExpectedLen
<1>7. rlen[r] + ExpectedLen(r) = AtMost(Offset(i + 1), length[d])
  BY <1>1, <1>2, ChunkSizeAssumption DEF ExpectedLen, AtMost
<1> QED BY <1>2, <1>4, <1>5, <1>6, <1>7

LEMMA ReadPartInv ==
  ASSUME IInv, NEW r \in Readers, ReadPart(r) PROVE IInv'
<1> DEFINE part == chunk[rdig[r]][ridx[r]]
<1>1. rpc[r] = "parts" /\ rlen[r] < rsize[r] /\ UNCHANGED <<kv, writerVars, faults, tampers>>
      /\ UNCHANGED <<length, marker>> /\ faults' \in 0 .. MaxFaults
  BY DEF ReadPart, kv, IInv, TypeOK
<1>2. CASE part = Absent
  <2>1. GetReturns(r, "missing") /\ tampers # 0
    BY <1>1, <1>2, NextPart DEF ReadPart
  <2> QED BY <1>1, <2>1, GetReturnsInv
<1>3. CASE part # Absent /\ part.len # ExpectedLen(r)
  <2>1. GetReturns(r, "invalid") /\ tampers # 0
    BY <1>1, <1>3, NextPart DEF ReadPart
  <2> QED BY <1>1, <2>1, GetReturnsInv
<1>4. CASE part # Absent /\ part.len = ExpectedLen(r)
  <2>1. /\ ridx' = [ridx EXCEPT ![r] = @ + 1]
        /\ rlen' = [rlen EXCEPT ![r] = @ + part.len]
        /\ rexact' = [rexact EXCEPT ![r] = @ /\ part.own /\ part.from = rlen[r]]
        /\ UNCHANGED <<rpc, rdig, rsize>>
    BY <1>4 DEF ReadPart, NextIndex
  <2>2. ridx[r] + 1 \in Nat /\ rlen[r] + part.len \in Nat
    BY <1>1, <1>4, ChunkSizeAssumption, MaxLenAssumption DEF IInv, TypeOK, ExpectedLen, AtMost
  <2>3. ridx' \in [Readers -> Nat] /\ rlen' \in [Readers -> Nat]
    BY <2>1, <2>2 DEF IInv, TypeOK
  <2>4. rexact' \in [Readers -> BOOLEAN]
    <3>1. (rexact[r] /\ part.own /\ part.from = rlen[r]) \in BOOLEAN
      OBVIOUS
    <3> QED BY <2>1, <3>1 DEF IInv, TypeOK
  <2>5. tampers = 0 => ReaderInv'
    <3> SUFFICES ASSUME tampers = 0 PROVE ReaderInv'
      OBVIOUS
    <3>1. part = Slice(rdig[r], ridx[r]) /\ rlen[r] = Offset(ridx[r])
          /\ rlen[r] + part.len = AtMost(Offset(ridx[r] + 1), length[rdig[r]])
      BY <1>1, <1>4, NextPart
    <3>2. rexact[r] /\ part.own /\ part.from = rlen[r]
      BY <1>1, <3>1 DEF IInv, ReaderInv, Slice
    <3>3. /\ ridx'[r] = ridx[r] + 1 /\ rlen'[r] = AtMost(Offset(ridx[r] + 1), length[rdig[r]])
          /\ rexact'[r]
          /\ \A q \in Readers \ {r} :
                ridx'[q] = ridx[q] /\ rlen'[q] = rlen[q] /\ rexact'[q] = rexact[q]
      <4>1. ridx'[r] = ridx[r] + 1 /\ rlen'[r] = rlen[r] + part.len
        BY <2>1 DEF IInv, TypeOK
      <4>2. rexact'[r] = (rexact[r] /\ part.own /\ part.from = rlen[r])
        BY <2>1, Zenon DEF IInv, TypeOK
      <4>3. \A q \in Readers \ {r} :
              ridx'[q] = ridx[q] /\ rlen'[q] = rlen[q] /\ rexact'[q] = rexact[q]
        BY <2>1 DEF IInv, TypeOK
      <4> QED BY <4>1, <4>2, <4>3, <3>1, <3>2
    <3> QED BY <1>1, <2>1, <3>3 DEF IInv, ReaderInv
  <2>6. /\ rpc' \in [Readers -> {"idle", "marker", "parts", "ok", "error", "missing", "invalid"}]
        /\ rdig' \in [Readers -> Digests] /\ rsize' \in [Readers -> 0 .. MaxLen]
    BY <2>1 DEF IInv, TypeOK
  <2> QED BY <1>1, <2>3, <2>4, <2>5, <2>6, ReaderStepInv
<1> QED BY <1>2, <1>3, <1>4

LEMMA VerifyInv ==
  ASSUME IInv, NEW r \in Readers, Verify(r) PROVE IInv'
<1>1. /\ rpc[r] = "parts" /\ rlen[r] >= rsize[r]
      /\ GetReturns(r, IF DigestMatches(r) THEN "ok" ELSE "invalid")
      /\ UNCHANGED <<kv, writerVars, tampers>> /\ faults' \in 0 .. MaxFaults
  BY DEF Verify, kv, IInv, TypeOK
<1>2. tampers = 0 => DigestMatches(r) /\ rlen[r] = rsize[r]
  <2> SUFFICES ASSUME tampers = 0 PROVE DigestMatches(r) /\ rlen[r] = rsize[r]
    OBVIOUS
  <2>1. rexact[r] /\ rsize[r] = length[rdig[r]] /\ rlen[r] = AtMost(Offset(ridx[r]), length[rdig[r]])
    BY <1>1 DEF IInv, ReaderInv
  <2>2. length[rdig[r]] \in Nat /\ Offset(ridx[r]) \in Nat
    BY MaxLenAssumption, OffsetFacts DEF IInv, TypeOK
  <2> QED BY <1>1, <2>1, <2>2 DEF AtMost, DigestMatches
<1>3. CASE DigestMatches(r)
  BY <1>1, <1>2, <1>3, GetReturnsInv
<1>4. CASE ~DigestMatches(r)
  BY <1>1, <1>2, <1>4, GetReturnsInv
<1> QED BY <1>3, <1>4

LEMMA GetFailsInv ==
  ASSUME IInv, NEW r \in Readers, GetFails(r) PROVE IInv'
<1>1. GetReturns(r, "error") /\ UNCHANGED <<kv, writerVars, tampers>> /\ faults' \in 0 .. MaxFaults
  BY BoundsAssumption DEF GetFails, IInv, TypeOK
<1> QED BY <1>1, GetReturnsInv

\* Once a key has been tampered with, only the types are claimed.
LEMMA TamperInv ==
  ASSUME IInv, NEW d \in Digests, Tamper(d) PROVE IInv'
<1>1. tampers' \in 0 .. MaxTampers /\ tampers' # 0
  BY BoundsAssumption DEF Tamper, IInv, TypeOK
<1>2. chunk' \in [Digests -> [Indexes -> Values]] /\ marker' \in [Digests -> 0 .. MaxLen]
  <2>1. CASE \E n \in 0 .. MaxLen : marker' = [marker EXCEPT ![d] = n] /\ UNCHANGED chunk
    BY <2>1 DEF IInv, TypeOK
  <2>2. CASE \E i \in Indexes, n \in 0 .. ChunkSize :
               /\ chunk' = [chunk EXCEPT ![d][i] = [from |-> 0, len |-> n, own |-> FALSE]]
               /\ UNCHANGED marker
    <3>1. PICK i \in Indexes, n \in 0 .. ChunkSize :
               /\ chunk' = [chunk EXCEPT ![d][i] = [from |-> 0, len |-> n, own |-> FALSE]]
               /\ UNCHANGED marker
      BY <2>2
    <3>2. [from |-> 0, len |-> n, own |-> FALSE] \in Values
      BY ChunkSizeAssumption DEF Values
    <3> QED BY <3>1, <3>2 DEF IInv, TypeOK
  <2> QED BY <2>1, <2>2 DEF Tamper
<1>3. since' \in [Writers -> SUBSET Troubles]
  BY DEF Tamper, IInv, TypeOK, Troubles
<1>4. TypeOK'
  BY <1>1, <1>2, <1>3 DEF Tamper, IInv, TypeOK, readerVars
<1> QED BY <1>1, <1>4 DEF IInv

LEMMA NextInv == IInv /\ [Next]_vars => IInv'
<1> SUFFICES ASSUME IInv, [Next]_vars PROVE IInv'
  OBVIOUS
<1>1. ASSUME NEW w \in Writers, WriterNext(w) PROVE IInv'
  BY <1>1, PutBeginInv, CASInv, CASRefusedInv, CompareInv, PutFailsInv DEF WriterNext
<1>2. ASSUME NEW r \in Readers, ReaderNext(r) PROVE IInv'
  BY <1>2, GetBeginInv, ReadMarkerInv, ReadPartInv, VerifyInv, GetFailsInv DEF ReaderNext
<1>3. ASSUME NEW d \in Digests, Tamper(d) PROVE IInv'
  BY <1>3, TamperInv
<1>4. CASE UNCHANGED vars
  <2>1. UNCHANGED <<kv, writerVars, readerVars, tampers>> /\ faults' \in 0 .. MaxFaults
    BY <1>4 DEF vars, IInv, TypeOK
  <2> QED BY <2>1, StutterInv
<1> QED BY <1>1, <1>2, <1>3, <1>4 DEF Next

\* Every reachable state satisfies the inductive invariant.
THEOREM Invariance == Spec => []IInv
  BY InitInv, NextInv, PTL DEF Spec

\* Every variable of the store, the writers and the readers stays in its type.
THEOREM TypeCorrect == Spec => []TypeOK
  BY Invariance, PTL DEF IInv

\* PutContract writes the marker only over a complete set of chunks.
THEOREM MarkerSound == Spec => []MarkerMeansWhole
<1>1. IInv => MarkerMeansWhole
  BY DEF IInv, KeysInv, MarkerMeansWhole
<1> QED BY <1>1, Invariance, PTL

\* putImmutable refuses a racing or resuming upload only for a request of its own that failed.
THEOREM AnsweredUploadsSucceed == Spec => []UploadsResume
<1>1. IInv => UploadsResume
  BY DEF IInv, WriterInv, UploadsResume
<1> QED BY <1>1, Invariance, PTL

\* GetContract finds every part, of the right length, behind a marker.
THEOREM ReadersFinish == Spec => []StartedReadsSucceed
<1>1. IInv => StartedReadsSucceed
  BY DEF IInv, ReaderInv, StartedReadsSucceed
<1> QED BY <1>1, Invariance, PTL

-----------------------------------------------------------------------------
(* What an upload has behind it, whatever happened before it began.          *)

\* A step that leaves an upload alone, and its keys unless it says so, keeps that.
LEMMA UndisturbedStable ==
  ASSUME IInv, NEW w \in Writers, Undisturbed(w), length' = length,
         wpc'[w] = wpc[w], wdig'[w] = wdig[w], widx'[w] = widx[w], since[w] \subseteq since'[w],
         marker[wdig[w]] # 0 => marker'[wdig[w]] = marker[wdig[w]],
         \A i \in Indexes : chunk[wdig[w]][i] # Absent => chunk'[wdig[w]][i] = chunk[wdig[w]][i]
  PROVE  Undisturbed(w)'
<1>1. wdig[w] \in Digests /\ length[wdig[w]] # 0
  BY MaxLenAssumption DEF IInv, TypeOK
<1>2. \A i \in Indexes : Offset(i) < length[wdig[w]] /\ chunk[wdig[w]][i] = Slice(wdig[w], i) =>
         chunk'[wdig[w]][i] = Slice(wdig[w], i)
  BY <1>1, SliceType, MaxLenAssumption DEF IInv, Indexes
<1>3. \A i \in Indexes : Slice(wdig[w], i)' = Slice(wdig[w], i)
  BY DEF Slice
<1> QED BY <1>1, <1>2, <1>3 DEF Undisturbed, Whole

\* An upload that has come past its last chunk has them all behind it.
LEMMA PastLast ==
  ASSUME IInv, NEW w \in Writers, AtMarker(w), NEW i \in Indexes, Offset(i) < length[wdig[w]]
  PROVE  i < widx[w]
<1>1. i \in Nat /\ widx[w] \in Nat /\ length[wdig[w]] \in Nat
  BY MaxLenAssumption DEF IInv, TypeOK, Indexes
<1>2. Offset(i) \in Nat /\ Offset(widx[w]) \in Nat
  BY <1>1, OffsetFacts
<1>3. Offset(i) < Offset(widx[w])
  <2>1. ~(Offset(widx[w]) < length[wdig[w]])
    BY DEF AtMarker, HasChunk
  <2> QED BY <1>1, <1>2, <2>1
<1>4. widx[w] < i => Offset(widx[w]) + ChunkSize <= Offset(i)
  BY <1>1, OffsetFacts
<1> QED BY <1>1, <1>2, <1>4, <1>3, ChunkSizeAssumption

\* putImmutable returned nil: the key is in place, so the upload has one more behind it.
LEMMA UndisturbedAdvance ==
  ASSUME IInv, NEW w \in Writers, Undisturbed(w), wpc[w] \in Writing, Advance(w),
         UNCHANGED <<length, since>>,
         \A i \in Indexes : chunk[wdig[w]][i] # Absent => chunk'[wdig[w]][i] = chunk[wdig[w]][i],
         AtMarker(w) => marker'[wdig[w]] = length[wdig[w]],
         ~AtMarker(w) => chunk'[wdig[w]][widx[w]] = Slice(wdig[w], widx[w])
  PROVE  Undisturbed(w)'
<1> SUFFICES ASSUME "changed" \notin since[w] PROVE Undisturbed(w)'
  BY DEF Undisturbed
<1>1. wdig' = wdig /\ wdig[w] \in Digests /\ widx[w] \in Nat /\ \A i \in Indexes : i \in Nat
  BY MaxLenAssumption DEF Advance, IInv, TypeOK, Indexes
<1>2. \A i \in Indexes : i < widx[w] /\ Offset(i) < length[wdig[w]] =>
         chunk'[wdig[w]][i] = Slice(wdig[w], i)
  BY <1>1, SliceType DEF Undisturbed, IInv
<1>3. \A i \in Indexes : Slice(wdig[w], i)' = Slice(wdig[w], i)
  BY <1>1 DEF Slice
<1>4. CASE AtMarker(w)
  <2>1. wpc'[w] = "ok"
    BY <1>4 DEF Advance, IInv, TypeOK
  <2>2. Whole(wdig[w])'
    BY <1>1, <1>2, <1>3, <1>4, PastLast DEF Whole
  <2> QED BY <1>1, <1>4, <2>1, <2>2 DEF Undisturbed, Writing
<1>5. CASE ~AtMarker(w)
  <2>1. wpc'[w] = "cas" /\ widx'[w] = widx[w] + 1
    BY <1>5 DEF Advance, NextIndex, IInv, TypeOK
  <2>2. \A i \in Indexes : i < widx[w] + 1 => i < widx[w] \/ i = widx[w]
    BY <1>1
  <2> QED BY <1>1, <1>2, <1>3, <1>5, <2>1, <2>2 DEF Undisturbed
<1> QED BY <1>4, <1>5

\* An upload that is begun, refused a key, or stopped claims nothing new.
LEMMA UndisturbedElse ==
  ASSUME IInv, NEW w \in Writers, Undisturbed(w), UNCHANGED <<length, chunk>>,
         \/ wpc'[w] = "cas" /\ widx'[w] = 0
         \/ wpc[w] = "cas" /\ wpc'[w] = "compare" /\ UNCHANGED <<wdig, widx, since>>
  PROVE  Undisturbed(w)'
<1>1. \A d \in Digests, i \in Indexes : Slice(d, i)' = Slice(d, i) /\ ~(i < 0)
  BY DEF Slice, Indexes
<1> QED BY <1>1 DEF Undisturbed, Writing, IInv, TypeOK

\* Only the writer of an upload moves it.
LEMMA OthersUpload ==
  ASSUME IInv, NEW w \in Writers, WriterNext(w), NEW v \in Writers \ {w}
  PROVE  wpc'[v] = wpc[v] /\ wdig'[v] = wdig[v] /\ widx'[v] = widx[v] /\ since'[v] = since[v]
<1> USE DEF IInv, TypeOK
<1>1. ASSUME NEW d \in Digests, PutBegin(w, d)
      PROVE  wpc'[v] = wpc[v] /\ wdig'[v] = wdig[v] /\ widx'[v] = widx[v] /\ since'[v] = since[v]
  BY <1>1 DEF PutBegin
<1>2. CASE CAS(w) \/ CASRefused(w) \/ Compare(w)
  BY <1>2 DEF CAS, CASRefused, Compare, Advance, PutStops
<1>3. CASE PutFails(w)
  BY <1>3 DEF PutFails, PutStops
<1> QED BY <1>1, <1>2, <1>3 DEF WriterNext

\* No step of a writer takes a key away.
LEMMA KeysOnlyCreated ==
  ASSUME IInv, NEW w \in Writers, WriterNext(w)
  PROVE  /\ length' = length
         /\ \A d \in Digests : marker[d] # 0 => marker'[d] = marker[d]
         /\ \A d \in Digests, i \in Indexes : chunk[d][i] # Absent => chunk'[d][i] = chunk[d][i]
<1>1. CASE UNCHANGED kv
  BY <1>1 DEF kv
<1>2. CASE wpc[w] = "cas" /\ KeyAbsent(w) /\ StoreKey(w)
  BY <1>2, StoreKeyInv
<1> QED BY <1>1, <1>2 DEF WriterNext, PutBegin, CAS, CASRefused, Compare, PutFails

LEMMA UploadKept == ASSUME IInv, UploadInv, [Next]_vars PROVE UploadInv'
<1> SUFFICES ASSUME NEW v \in Writers PROVE Undisturbed(v)'
  BY DEF UploadInv
<1>0. Undisturbed(v) /\ wdig[v] \in Digests /\ widx[v] \in Nat
  BY DEF UploadInv, IInv, TypeOK
<1>1. ASSUME NEW w \in Writers \ {v}, WriterNext(w) PROVE Undisturbed(v)'
  BY <1>0, <1>1, OthersUpload, KeysOnlyCreated, UndisturbedStable
<1>2. ASSUME NEW d \in Digests, PutBegin(v, d) PROVE Undisturbed(v)'
  BY <1>0, <1>2, UndisturbedElse DEF PutBegin, kv, IInv, TypeOK
<1>3. CASE CAS(v)
  BY <1>0, <1>3, StoreKeyInv, UndisturbedAdvance DEF CAS, Writing
<1>4. CASE CASRefused(v)
  BY <1>0, <1>4, UndisturbedElse DEF CASRefused, kv, IInv, TypeOK
<1>5. CASE Compare(v)
  <2>1. CASE KeyEqual(v)
    BY <1>0, <1>5, <2>1, UndisturbedAdvance DEF Compare, Compares, KeyEqual, Writing, kv
  <2>2. CASE ~KeyEqual(v)
    <3>1. wpc'[v] = "conflict"
      BY <1>5, <2>2 DEF Compare, Compares, PutStops, IInv, TypeOK
    <3> QED BY <3>1 DEF Undisturbed, Writing
  <2> QED BY <2>1, <2>2
<1>6. CASE PutFails(v)
  <2>1. wpc'[v] \in {"idle", "error", "conflict"}
    BY <1>6 DEF PutFails, PutStops, FailedAs, IInv, TypeOK
  <2> QED BY <2>1 DEF Undisturbed, Writing
<1>7. ASSUME NEW d \in Digests, Tamper(d) PROVE Undisturbed(v)'
  <2>1. UNCHANGED <<length, wpc, wdig, widx>>
        /\ since'[v] = IF wdig[v] = d THEN since[v] \cup {"changed"} ELSE since[v]
    BY <1>7 DEF Tamper
  <2>2. CASE wdig[v] = d
    BY <2>1, <2>2 DEF Undisturbed
  <2>3. CASE wdig[v] # d
    <3>1. chunk'[wdig[v]] = chunk[wdig[v]] /\ marker'[wdig[v]] = marker[wdig[v]]
      BY <1>0, <1>7, <2>3 DEF Tamper, IInv, TypeOK
    <3> QED BY <1>0, <2>1, <2>3, <3>1, UndisturbedStable
  <2> QED BY <2>2, <2>3
<1>8. CASE UNCHANGED <<kv, writerVars>>
  BY <1>0, <1>8, UndisturbedStable DEF kv, writerVars
<1>9. ASSUME NEW r \in Readers, ReaderNext(r) PROVE UNCHANGED <<kv, writerVars>>
  BY <1>9 DEF ReaderNext, GetBegin, ReadMarker, ReadPart, Verify, GetFails
<1> QED BY <1>1, <1>2, <1>3, <1>4, <1>5, <1>6, <1>7, <1>8, <1>9 DEF Next, WriterNext, vars

\* PutContract returns nil only over a whole contract, whatever had been damaged or lost
\* before it began; while an upload goes on, the others can only add to what it needs.
THEOREM ImportRepairs == Spec => []SuccessMeansWhole
<1>1. Init => UploadInv
  BY DEF Init, UploadInv, Undisturbed, Writing
<1>2. UploadInv => SuccessMeansWhole
  BY DEF UploadInv, Undisturbed, SuccessMeansWhole
<1> QED BY <1>1, <1>2, UploadKept, Invariance, PTL DEF Spec
-----------------------------------------------------------------------------
\* Every request of an upload or a download is one step of the register, or none: the
\* contract becomes readable with its marker and a download succeeds at its check.
THEOREM Refinement == Spec => ImplementsRegister
<1> USE DEF Register!Store, Register!Acknowledge, Register!Read, Register!Forget,
            Register!Disturb, Register!vars
<1> DEFINE st == {d \in Digests : marker[d] # 0}
           gt == [r \in Readers |-> IF rpc[r] = "ok" THEN {Given(r)} ELSE {}]
<1>1. Init => Register!Init
  BY DEF Init, Register!Init
<1>2. ASSUME IInv, NEW w \in Writers, AtMarker(w), marker' = [marker EXCEPT ![wdig[w]] = length[wdig[w]]]
      PROVE  st' = st \cup {wdig[w]}
  <2>1. wdig[w] \in Digests /\ length[wdig[w]] # 0
    BY <1>2, MaxLenAssumption DEF IInv, TypeOK
  <2> QED BY <1>2, <2>1 DEF IInv, TypeOK
<1>3. ASSUME IInv, NEW w \in Writers, AtMarker(w), Advance(w), st' = st \cup {wdig[w]},
             UNCHANGED <<length, readerVars, tampers>>
      PROVE  Register!Acknowledge(w, wdig[w])
  <2>1. acked' = [acked EXCEPT ![w] = @ \cup {wdig[w]}]
    BY <1>3 DEF Advance
  <2>2. gt' = gt
    BY <1>3 DEF readerVars, Given
  <2> QED BY <1>3, <2>1, <2>2
<1>4. ASSUME UNCHANGED <<length, marker, acked, readerVars, tampers>> PROVE UNCHANGED Register!vars
  BY <1>4 DEF readerVars, Given
<1>5. ASSUME IInv, NEW w \in Writers, CAS(w) PROVE [Register!Next]_(Register!vars)
  <2>1. CASE AtMarker(w)
    <3>1. Register!Acknowledge(w, wdig[w])
      BY <1>2, <1>3, <1>5, <2>1 DEF CAS, StoreKey
    <3>2. wdig[w] \in Digests
      BY <1>5 DEF IInv, TypeOK
    <3> QED BY <3>1, <3>2 DEF Register!Next
  <2>2. CASE ~AtMarker(w)
    BY <1>4, <1>5, <2>2 DEF CAS, StoreKey, Advance
  <2> QED BY <2>1, <2>2
<1>6. ASSUME IInv, NEW w \in Writers, Compare(w) PROVE [Register!Next]_(Register!vars)
  <2>1. CASE ~Compares(w)
    BY <1>4, <1>6, <2>1 DEF Compare, PutStops, kv
  <2>2. CASE Compares(w) /\ ~AtMarker(w)
    BY <1>4, <1>6, <2>2 DEF Compare, Advance, kv
  <2>3. CASE Compares(w) /\ AtMarker(w)
    <3>1. wdig[w] \in Digests /\ length[wdig[w]] # 0 /\ marker[wdig[w]] = length[wdig[w]]
      BY <1>6, <2>3, MaxLenAssumption DEF IInv, TypeOK, Compares, KeyEqual
    <3>2. st' = st \cup {wdig[w]}
      BY <1>6, <3>1 DEF Compare, kv
    <3>3. Register!Acknowledge(w, wdig[w])
      BY <1>3, <1>6, <2>3, <3>2 DEF Compare, kv
    <3> QED BY <3>1, <3>3 DEF Register!Next
  <2> QED BY <2>1, <2>2, <2>3
<1>7. ASSUME IInv, NEW w \in Writers, PutFails(w) PROVE [Register!Next]_(Register!vars)
  <2>1. UNCHANGED <<acked, readerVars, tampers>>
    BY <1>7 DEF PutFails, PutStops
  <2>4. length' = length
    BY <1>7 DEF PutFails, StoreKey, kv
  <2>2. CASE marker' = marker
    BY <1>4, <2>1, <2>2, <2>4
  <2>3. CASE AtMarker(w) /\ marker' = [marker EXCEPT ![wdig[w]] = length[wdig[w]]]
    <3>1. st' = st \cup {wdig[w]} /\ wdig[w] \in Digests
      BY <1>2, <1>7, <2>3 DEF IInv, TypeOK
    <3>2. gt' = gt
      BY <2>1, <2>4 DEF readerVars, Given
    <3>3. Register!Store(wdig[w])
      BY <2>1, <3>1, <3>2
    <3> QED BY <3>1, <3>3 DEF Register!Next
  <2> QED BY <1>7, <2>2, <2>3 DEF PutFails, StoreKey, kv
<1>8. ASSUME NEW r \in Readers, rpc[r] # "ok", rpc'[r] # "ok", UNCHANGED <<kv, writerVars, tampers>>,
             \A q \in Readers \ {r} : /\ rpc'[q] = rpc[q] /\ rdig'[q] = rdig[q]
                                      /\ rlen'[q] = rlen[q] /\ rexact'[q] = rexact[q]
      PROVE  UNCHANGED Register!vars
  <2>1. gt' = gt
    BY <1>8 DEF Given, kv
  <2> QED BY <1>8, <2>1 DEF kv, writerVars
<1>9. ASSUME IInv, NEW r \in Readers, NEW d \in Digests, GetBegin(r, d) PROVE Register!Forget(r)
  <2>1. gt' = [gt EXCEPT ![r] = {}]
    BY <1>9 DEF GetBegin, Given, kv, IInv, TypeOK
  <2> QED BY <1>9, <2>1 DEF GetBegin, kv, writerVars
<1>10. ASSUME IInv, NEW r \in Readers, GetReturns(r, "ok"), rpc[r] = "parts", rlen[r] >= rsize[r],
              DigestMatches(r), UNCHANGED <<kv, writerVars, tampers>>
       PROVE  Register!Read(r, rdig[r])
  <2>1. gt' = [gt EXCEPT ![r] = {[digest |-> rdig[r], whole |-> TRUE]}]
    <3>1. Given(r)' = [digest |-> rdig[r], whole |-> TRUE]
      BY <1>10 DEF GetReturns, DigestMatches, Given, kv
    <3>2. \A q \in Readers : Given(q)' = Given(q)
      BY <1>10 DEF GetReturns, Given, kv
    <3> QED BY <1>10, <3>1, <3>2 DEF GetReturns, IInv, TypeOK
  <2>2. rdig[r] \in Digests /\ length[rdig[r]] # 0
    BY <1>10, MaxLenAssumption DEF IInv, TypeOK
  <2>3. tampers = 0 => rdig[r] \in st
    BY <1>10, <2>2 DEF IInv, ReaderInv
  <2>4. tampers # 0 => tampers > 0
    BY <1>10, BoundsAssumption DEF IInv, TypeOK
  <2> QED BY <1>10, <2>1, <2>3, <2>4 DEF kv, writerVars
<1>11. ASSUME IInv, NEW r \in Readers, NEW pc \in {"error", "missing", "invalid"}, GetReturns(r, pc),
              rpc[r] \in {"marker", "parts"}, UNCHANGED <<kv, writerVars, tampers>>
       PROVE  UNCHANGED Register!vars
  BY <1>8, <1>11 DEF GetReturns, IInv, TypeOK
<1>12. ASSUME IInv, NEW r \in Readers, ReadMarker(r) PROVE UNCHANGED Register!vars
  <2>1. CASE marker[rdig[r]] = 0
    BY <1>11, <1>12, <2>1 DEF ReadMarker
  <2>2. CASE marker[rdig[r]] # 0
    BY <1>8, <1>12, <2>2 DEF ReadMarker, IInv, TypeOK
  <2> QED BY <2>1, <2>2
<1>13. ASSUME IInv, NEW r \in Readers, ReadPart(r) PROVE UNCHANGED Register!vars
  <2> DEFINE part == chunk[rdig[r]][ridx[r]]
  <2>1. CASE part = Absent
    BY <1>11, <1>13, <2>1 DEF ReadPart
  <2>2. CASE part # Absent /\ part.len # ExpectedLen(r)
    BY <1>11, <1>13, <2>2 DEF ReadPart
  <2>3. CASE part # Absent /\ part.len = ExpectedLen(r)
    <3>1. rpc[r] = "parts" /\ UNCHANGED <<rpc, rdig>> /\ UNCHANGED <<kv, writerVars, tampers>>
      BY <1>13, <2>3 DEF ReadPart
    <3>2. \A q \in Readers \ {r} : rlen'[q] = rlen[q] /\ rexact'[q] = rexact[q]
      BY <1>13, <2>3 DEF ReadPart, IInv, TypeOK
    <3> QED BY <1>8, <3>1, <3>2
  <2> QED BY <2>1, <2>2, <2>3
<1>14. ASSUME IInv, NEW r \in Readers, Verify(r) PROVE [Register!Next]_(Register!vars)
  <2>1. CASE DigestMatches(r)
    <3>1. Register!Read(r, rdig[r])
      BY <1>10, <1>14, <2>1 DEF Verify
    <3>2. rdig[r] \in Digests
      BY <1>14 DEF IInv, TypeOK
    <3> QED BY <3>1, <3>2 DEF Register!Next
  <2>2. CASE ~DigestMatches(r)
    BY <1>11, <1>14, <2>2 DEF Verify
  <2> QED BY <2>1, <2>2
<1>15. ASSUME IInv, NEW d \in Digests, Tamper(d) PROVE Register!Disturb
  <2>1. tampers' > 0
    BY <1>15, BoundsAssumption DEF Tamper, IInv, TypeOK
  <2>2. st' \in SUBSET st
    <3>1. CASE marker' = marker
      BY <3>1
    <3>2. CASE \E n \in 0 .. MaxLen : marker[d] # 0 /\ marker' = [marker EXCEPT ![d] = n]
      BY <1>15, <3>2 DEF IInv, TypeOK
    <3> QED BY <1>15, <3>1, <3>2 DEF Tamper
  <2>3. UNCHANGED acked /\ gt' = gt
    BY <1>15 DEF Tamper, readerVars, Given
  <2> QED BY <2>1, <2>2, <2>3
<1>16. ASSUME IInv, [Next]_vars PROVE [Register!Next]_(Register!vars)
  <2>1. ASSUME NEW w \in Writers, WriterNext(w) PROVE [Register!Next]_(Register!vars)
    <3>1. CASE \E d \in Digests : PutBegin(w, d)
      BY <1>4, <3>1 DEF PutBegin, kv
    <3>2. CASE CASRefused(w)
      BY <1>4, <3>2 DEF CASRefused, kv
    <3> QED BY <1>5, <1>6, <1>7, <1>16, <2>1, <3>1, <3>2 DEF WriterNext
  <2>2. ASSUME NEW r \in Readers, ReaderNext(r) PROVE [Register!Next]_(Register!vars)
    <3>1. CASE \E d \in Digests : GetBegin(r, d)
      BY <1>9, <1>16, <3>1 DEF Register!Next
    <3>2. CASE GetFails(r)
      BY <1>11, <1>16, <3>2 DEF GetFails
    <3> QED BY <1>12, <1>13, <1>14, <1>16, <2>2, <3>1, <3>2 DEF ReaderNext
  <2>3. CASE \E d \in Digests : Tamper(d)
    BY <1>15, <1>16, <2>3 DEF Register!Next
  <2>4. CASE UNCHANGED vars
    BY <1>4, <2>4 DEF vars, kv, writerVars
  <2> QED BY <1>16, <2>1, <2>2, <2>3, <2>4 DEF Next
<1> QED BY <1>1, <1>16, Invariance, PTL DEF Spec, ImplementsRegister, Register!Spec
=============================================================================
