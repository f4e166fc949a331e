-------------------------- MODULE LogRotationProofs --------------------------
(* Theorems about LogRotation, for every limit and every number of backups. *)
EXTENDS LogRotation, TLAPS

\* The shape of the files alone, as a property of the function.
Shaped(fs, w) ==
    /\ fs \in [0 .. Backups -> File \cup {None}]
    /\ \A i \in 0 .. Backups : fs[i] # None => fs[i].bytes <= Limit /\ fs[i].ids \subseteq 1 .. w

Ordered(fs) ==
    \A i, j \in 0 .. Backups : i < j /\ fs[i] # None /\ fs[j] # None =>
        \A x \in fs[i].ids, y \in fs[j].ids : y < x

Within(fs, x) == \E i \in 0 .. Backups : fs[i] # None /\ x \in fs[i].ids

Suffix(fs, w) == \A x \in 1 .. w : Within(fs, x) => \A y \in x .. w : Within(fs, y)

Good(fs, w) == Shaped(fs, w) /\ Ordered(fs) /\ Suffix(fs, w)

\* Good is what the invariant says about the files.
LEMMA GoodIsInvariant ==
    ASSUME written \in Nat, files \in [0 .. Backups -> File \cup {None}]
    PROVE  (Bounded /\ Numbered /\ RetainedIsSuffix) <=> Good(files, written)
BY DEF Bounded, Numbered, RetainedIsSuffix, Present, Good, Shaped, Ordered, Suffix, Within

\* Renaming a backup to the next number, which is free or the last, keeps the files good.
LEMMA MovedIsGood ==
    ASSUME NEW fs, NEW w \in Nat, Good(fs, w), NEW m \in 1 .. Backups,
           m < Backups => fs[m] = None
    PROVE  Good(Moved(fs, m - 1, m), w)
<1> DEFINE gs == Moved(fs, m - 1, m)
<1>1. CASE fs[m - 1] = None
  BY <1>1 DEF Moved
<1>2. CASE fs[m - 1] # None
  <2>1. /\ Backups \in Nat /\ m \in 0 .. Backups /\ m - 1 \in 0 .. Backups /\ m - 1 # m
        /\ fs \in [0 .. Backups -> File \cup {None}]
    BY BackupsAssumption DEF Good, Shaped
  <2>2. gs = [fs EXCEPT ![m] = fs[m - 1], ![m - 1] = None]
    BY <1>2 DEF Moved
  <2>3. /\ gs \in [0 .. Backups -> File \cup {None}]
        /\ gs[m] = fs[m - 1] /\ gs[m - 1] = None
        /\ \A i \in 0 .. Backups : i # m /\ i # m - 1 => gs[i] = fs[i]
    BY <2>1, <2>2
  <2> HIDE DEF gs
  <2>4. Shaped(gs, w)
    BY <2>1, <2>3 DEF Shaped, Good
  <2>5. Ordered(gs)
    <3> SUFFICES ASSUME NEW i \in 0 .. Backups, NEW j \in 0 .. Backups, i < j,
                        gs[i] # None, gs[j] # None,
                        NEW x \in gs[i].ids, NEW y \in gs[j].ids
                 PROVE  y < x
      BY DEF Ordered
    <3> DEFINE old(k) == IF k = m THEN m - 1 ELSE k
    <3>1. i # m - 1 /\ j # m - 1
      BY <2>3
    <3>2. /\ old(i) \in 0 .. Backups /\ old(j) \in 0 .. Backups /\ old(i) < old(j)
      BY <2>1, <3>1
    <3>3. gs[i] = fs[old(i)] /\ gs[j] = fs[old(j)]
      BY <2>3, <3>1
    <3> QED
      BY <3>2, <3>3 DEF Ordered, Good
  <2>6. ASSUME NEW x, Within(gs, x)
        PROVE  Within(fs, x)
    BY <2>1, <2>3, <2>6 DEF Within
  <2>7. ASSUME NEW x \in 1 .. w, Within(gs, x), NEW y \in x .. w
        PROVE  Within(gs, y)
    <3>1. PICK i \in 0 .. Backups : gs[i] # None /\ x \in gs[i].ids
      BY <2>7 DEF Within
    <3>2. PICK k \in 0 .. Backups : k # m /\ fs[k] # None /\ x \in fs[k].ids
      <4>1. CASE i = m
        BY <4>1, <3>1, <2>1, <2>3
      <4>2. CASE i # m
        BY <4>2, <3>1, <2>3
      <4> QED BY <4>1, <4>2
    <3>3. Within(fs, y)
      BY <2>6, <2>7 DEF Good, Suffix
    <3>4. PICK j \in 0 .. Backups : fs[j] # None /\ y \in fs[j].ids
      BY <3>3 DEF Within
    <3>5. CASE j # m
      <4>1. CASE j = m - 1
        BY <4>1, <3>4, <2>1, <2>3 DEF Within
      <4>2. CASE j # m - 1
        BY <4>2, <3>4, <3>5, <2>3 DEF Within
      <4> QED BY <4>1, <4>2
    <3>6. CASE j = m
      <4>1. m = Backups
        BY <3>4, <3>6, <2>1
      <4>2. k < m
        BY <3>2, <4>1, <2>1
      <4>3. y < x
        BY <3>2, <3>4, <3>6, <4>2 DEF Good, Ordered
      <4>4. x \in Nat /\ y \in Nat /\ x <= y
        BY <2>7
      <4> QED BY <4>3, <4>4
    <3> QED BY <3>5, <3>6
  <2>8. Suffix(gs, w)
    BY <2>7 DEF Suffix
  <2> QED BY <2>4, <2>5, <2>8 DEF Good, gs
<1> QED BY <1>1, <1>2

\* Opening xuandu.log keeps the files good.
LEMMA CreatedIsGood ==
    ASSUME NEW fs, NEW w \in Nat, Good(fs, w)
    PROVE  /\ Good(Created(fs), w)
           /\ Created(fs)[0] \in File /\ Created(fs)[0].bytes <= Limit
           /\ fs[0] = None => Created(fs)[0].bytes = 0
           /\ \A i \in 1 .. Backups : Created(fs)[i] = fs[i]
<1>1. /\ Backups \in Nat \ {0} /\ 0 \in 0 .. Backups
      /\ fs \in [0 .. Backups -> File \cup {None}]
      /\ EmptyFile \in File /\ EmptyFile.ids = {} /\ EmptyFile.bytes = 0 /\ EmptyFile # None
  BY BackupsAssumption, NoneAssumption DEF Good, Shaped, EmptyFile, File
<1>2. CASE fs[0] # None
  BY <1>1, <1>2 DEF Created, Good, Shaped
<1>3. CASE fs[0] = None
  <2> DEFINE gs == Created(fs)
  <2>1. /\ gs \in [0 .. Backups -> File \cup {None}]
        /\ gs[0] = EmptyFile
        /\ \A i \in 1 .. Backups : gs[i] = fs[i]
    BY <1>1, <1>3 DEF Created
  <2> HIDE DEF gs
  <2>2. Shaped(gs, w)
    BY <1>1, <2>1, LimitAssumption DEF Shaped, Good
  <2>3. Ordered(gs)
    BY <1>1, <2>1 DEF Ordered, Good
  <2>4. \A x : Within(gs, x) <=> Within(fs, x)
    BY <1>1, <1>3, <2>1 DEF Within
  <2>5. Suffix(gs, w)
    BY <2>4 DEF Suffix, Good
  <2> QED BY <1>1, <2>1, <2>2, <2>3, <2>5, LimitAssumption DEF Good, gs
<1> QED BY <1>2, <1>3

\* Appending the next entry keeps the files good, if they stay within the limit.
LEMMA AppendedIsGood ==
    ASSUME written \in Nat, Good(files, written), files[0] # None,
           NEW k \in Nat, files[0].bytes + k <= Limit
    PROVE  /\ Good(Appended(k), written + 1)
           /\ Appended(k)[0] \in File /\ Appended(k)[0].bytes = files[0].bytes + k
           /\ \A i \in 1 .. Backups : Appended(k)[i] = files[i]
<1> DEFINE gs == Appended(k)
<1>1. /\ Backups \in Nat \ {0} /\ 0 \in 0 .. Backups
      /\ files \in [0 .. Backups -> File \cup {None}] /\ files[0] \in File
  BY BackupsAssumption DEF Good, Shaped
<1>2. /\ gs \in [0 .. Backups -> File \cup {None}]
      /\ gs[0] = [ids |-> files[0].ids \cup {written + 1}, bytes |-> files[0].bytes + k]
      /\ gs[0] \in File /\ gs[0] # None
      /\ \A i \in 1 .. Backups : gs[i] = files[i]
  BY <1>1, NoneAssumption DEF Appended, File
<1> HIDE DEF gs
<1>3. \A i \in 0 .. Backups : files[i] # None => files[i].ids \subseteq 1 .. written
  BY DEF Good, Shaped
<1>4. Shaped(gs, written + 1)
  BY <1>1, <1>2, <1>3 DEF Shaped, Good
<1>5. Ordered(gs)
  <2> SUFFICES ASSUME NEW i \in 0 .. Backups, NEW j \in 0 .. Backups, i < j,
                      gs[i] # None, gs[j] # None,
                      NEW x \in gs[i].ids, NEW y \in gs[j].ids
               PROVE  y < x
    BY DEF Ordered
  <2>1. j \in 1 .. Backups /\ gs[j] = files[j] /\ y \in 1 .. written
    BY <1>1, <1>2, <1>3
  <2>2. CASE i = 0 /\ x = written + 1
    BY <2>1, <2>2
  <2>3. CASE i = 0 /\ x # written + 1
    BY <2>1, <2>3, <1>1, <1>2 DEF Good, Ordered
  <2>4. CASE i # 0
    BY <2>1, <2>4, <1>2 DEF Good, Ordered
  <2> QED BY <2>2, <2>3, <2>4
<1>6. \A x : Within(gs, x) <=> Within(files, x) \/ x = written + 1
  BY <1>1, <1>2 DEF Within
<1>7. Suffix(gs, written + 1)
  BY <1>6 DEF Suffix, Good
<1> QED BY <1>1, <1>2, <1>4, <1>5, <1>7 DEF Good, gs, File

-----------------------------------------------------------------------------
\* The files change only as the three lemmas above say; what is left of the
\* invariant follows from these facts about them.
LEMMA FilesKnown ==
    ASSUME IInv
    PROVE  /\ Good(files, written)
           /\ Backups \in Nat \ {0} /\ 0 \in 0 .. Backups /\ Limit \in Nat
           /\ written \in Nat /\ len \in Nat /\ size \in Nat /\ n \in 1 .. Backups
BY GoodIsInvariant, BackupsAssumption, LimitAssumption DEF IInv, TypeOK

\* The counterpart for a next state.
LEMMA FilesStayGood ==
    ASSUME written' \in Nat, Good(files', written')
    PROVE  /\ Bounded' /\ Numbered' /\ RetainedIsSuffix'
           /\ files' \in [0 .. Backups -> File \cup {None}]
BY DEF Bounded, Numbered, RetainedIsSuffix, Present, Good, Shaped, Ordered, Suffix, Within

\* A directory without logs satisfies the invariant.
LEMMA InitIInv == Init => IInv
<1> SUFFICES ASSUME Init PROVE IInv
  OBVIOUS
<1>1. 0 \in 0 .. Limit /\ Backups \in 1 .. Backups /\ 0 \in 0 .. MaxFaults
  BY LimitAssumption, BackupsAssumption, FaultsAssumption
<1>2. TypeOK
  BY <1>1 DEF Init, TypeOK
<1> QED
  BY <1>2 DEF Init, IInv, Bounded, Numbered, RetainedIsSuffix, Present, SizeKnown, Vacated, Writing

\* Every system call preserves it.
LEMMA NextIInv == IInv /\ [Next]_vars => IInv'
<1> SUFFICES ASSUME IInv, [Next]_vars PROVE IInv'
  OBVIOUS
<1> USE FilesKnown, FaultsAssumption
<1>1. ASSUME NEW l \in Sizes, Write(l) PROVE IInv'
  <2>1. Good(files', written') /\ written' \in Nat
    BY <1>1 DEF Write
  <2>2. TypeOK'
    BY <1>1, SizesAssumption DEF Write, NextCall, IInv, TypeOK
  <2>3. SizeKnown' /\ Vacated' /\ Writing'
    BY <1>1, SizesAssumption
    DEF Write, Accepted, NextCall, Full, IInv, TypeOK, SizeKnown, Vacated, Writing
  <2> QED BY <2>1, <2>2, <2>3, FilesStayGood DEF IInv
<1>2. ASSUME Reopen PROVE IInv'
  <2>1. files' \in {files, Created(files)} /\ written' = written
    BY <1>2 DEF Reopen
  <2>2. Good(files', written') /\ written' \in Nat
    BY <2>1, CreatedIsGood
  <2>3. CASE /\ files' = Created(files) /\ open' = "open" /\ size' = KnownSize(files'[0])
             /\ pc' = CASE pc = "down" -> "idle"
                        [] pc = "reopen" -> NextCall(size', len)
                        [] pc = "renew" -> "append"
             /\ UNCHANGED faults
    <3>1. /\ files'[0] \in File /\ files'[0] # None /\ size' = files'[0].bytes
          /\ size' \in 0 .. Limit
          /\ pc = "renew" => size' = 0
      <4>1. /\ files'[0] \in File /\ files'[0].bytes <= Limit
            /\ files[0] = None => files'[0].bytes = 0
        BY <2>3, CreatedIsGood
      <4>2. files'[0].bytes \in Nat
        BY <4>1 DEF File
      <4>3. pc = "renew" => files[0] = None
        BY DEF IInv, Vacated
      <4> QED BY <2>3, <4>1, <4>2, <4>3, NoneAssumption DEF KnownSize
    <3>2. TypeOK'
      BY <1>2, <2>2, <2>3, <3>1, FilesStayGood DEF Reopen, NextCall, IInv, TypeOK
    <3>3. SizeKnown' /\ Vacated' /\ Writing'
      BY <1>2, <2>3, <3>1 DEF Reopen, NextCall, Full, IInv, TypeOK, SizeKnown, Vacated, Writing
    <3> QED BY <2>2, <3>2, <3>3, FilesStayGood DEF IInv
  <2>4. CASE Fails /\ UNCHANGED <<open, size>>
    <3>1. TypeOK'
      BY <1>2, <2>2, <2>4, FilesStayGood DEF Reopen, Fails, Fault, IInv, TypeOK
    <3>2. open = "open" => files'[0] # None /\ size = files'[0].bytes
      BY <2>1 DEF IInv, SizeKnown, Created
    <3>3. SizeKnown' /\ Vacated' /\ Writing'
      BY <1>2, <2>4, <3>2 DEF Reopen, Fails, IInv, SizeKnown, Vacated, Writing
    <3> QED BY <2>2, <3>1, <3>3, FilesStayGood DEF IInv
  <2> QED BY <1>2, <2>3, <2>4 DEF Reopen
<1>3. ASSUME CloseFull PROVE IInv'
  <2>1. Good(files', written') /\ written' \in Nat
    BY <1>3 DEF CloseFull
  <2>2. TypeOK'
    BY <1>3 DEF CloseFull, Fails, Fault, IInv, TypeOK
  <2>3. SizeKnown' /\ Vacated' /\ Writing'
    BY <1>3 DEF CloseFull, MoreToShift, Fails, IInv, SizeKnown, Vacated, Writing
  <2> QED BY <2>1, <2>2, <2>3, FilesStayGood DEF IInv
<1>4. ASSUME Shift PROVE IInv'
  <2>1. CASE /\ files' = Moved(files, n - 1, n)
             /\ n' = n - 1
             /\ pc' = IF MoreToShift(n') THEN "shift" ELSE "move"
             /\ UNCHANGED faults
    <3>1. n > 1 /\ (n < Backups => files[n] = None) /\ n - 1 \in 1 .. Backups
      BY <1>4 DEF Shift, IInv, Vacated
    <3>2. files' = Moved(files, n - 1, n)
      BY <2>1
    <3>3. Good(files', written') /\ written' = written
      BY <1>4, <3>1, <3>2, MovedIsGood DEF Shift
    <3>4. files'[n - 1] = None
      BY <3>1, <3>2 DEF Moved, Good, Shaped
    <3>5. open = "open" => files'[0] # None /\ files'[0] = files[0]
      BY <3>1, <3>2 DEF Moved, IInv, SizeKnown, Good, Shaped
    <3>6. TypeOK'
      BY <1>4, <2>1, <3>1, <3>3, FilesStayGood DEF Shift, IInv, TypeOK
    <3>7. SizeKnown' /\ Vacated' /\ Writing'
      BY <1>4, <2>1, <3>1, <3>4, <3>5 DEF Shift, MoreToShift, IInv, TypeOK, SizeKnown, Vacated, Writing
    <3> QED BY <3>3, <3>6, <3>7, FilesStayGood DEF IInv
  <2>2. CASE ShiftFails(n) /\ UNCHANGED files
    <3>1. Good(files', written') /\ written' \in Nat
      BY <1>4, <2>2 DEF Shift
    <3>2. TypeOK'
      BY <1>4, <2>2 DEF Shift, ShiftFails, Fails, Fault, IInv, TypeOK
    <3>3. SizeKnown' /\ Vacated' /\ Writing'
      BY <1>4, <2>2 DEF Shift, ShiftFails, Fails, IInv, SizeKnown, Vacated, Writing
    <3> QED BY <3>1, <3>2, <3>3, FilesStayGood DEF IInv
  <2> QED BY <1>4, <2>1, <2>2 DEF Shift
<1>5. ASSUME Move PROVE IInv'
  <2>1. CASE files' = Moved(files, 0, 1) /\ pc' = "renew" /\ UNCHANGED faults
    <3>1. 1 \in 1 .. Backups /\ 1 - 1 = 0 /\ (1 < Backups => files[1] = None)
      BY <1>5 DEF Move, IInv, Vacated
    <3>2. Good(files', written') /\ written' = written
      BY <1>5, <2>1, <3>1, MovedIsGood DEF Move
    <3>3. files'[0] = None
      BY <2>1, <3>1 DEF Moved, Good, Shaped
    <3>4. open # "open"
      BY <1>5 DEF Move, IInv, SizeKnown
    <3>5. TypeOK'
      BY <1>5, <2>1, <3>2, FilesStayGood DEF Move, IInv, TypeOK
    <3>6. SizeKnown' /\ Vacated' /\ Writing'
      BY <1>5, <2>1, <3>3, <3>4 DEF Move, IInv, TypeOK, SizeKnown, Vacated, Writing
    <3> QED BY <3>2, <3>5, <3>6, FilesStayGood DEF IInv
  <2>2. CASE Fails /\ UNCHANGED files
    <3>1. Good(files', written') /\ written' \in Nat
      BY <1>5, <2>2 DEF Move
    <3>2. TypeOK'
      BY <1>5, <2>2 DEF Move, Fails, Fault, IInv, TypeOK
    <3>3. SizeKnown' /\ Vacated' /\ Writing'
      BY <1>5, <2>2 DEF Move, Fails, IInv, SizeKnown, Vacated, Writing
    <3> QED BY <3>1, <3>2, <3>3, FilesStayGood DEF IInv
  <2> QED BY <1>5, <2>1, <2>2 DEF Move
<1>6. ASSUME Append PROVE IInv'
  <2>1. /\ open = "open" /\ files[0] # None /\ size = files[0].bytes /\ size + len <= Limit
        /\ pc = "append" /\ files[0] \in File
    BY <1>6 DEF Append, IInv, SizeKnown, Good, Shaped
  <2>2. ASSUME NEW k \in Nat, k <= len, files' = Appended(k), size' = size + k,
               written' = written + 1, pc' = "idle", faults' \in 0 .. MaxFaults
        PROVE  IInv'
    <3>1. files[0].bytes + k <= Limit
      BY <2>1, <2>2
    <3>2. /\ Good(files', written') /\ written' \in Nat
          /\ files'[0] \in File /\ files'[0].bytes = size'
      BY <2>1, <2>2, <3>1, AppendedIsGood
    <3>3. size' \in 0 .. Limit /\ files'[0] # None
      BY <2>1, <2>2, <3>1, <3>2, NoneAssumption
    <3>4. TypeOK'
      BY <1>6, <2>2, <3>2, <3>3, FilesStayGood DEF Append, IInv, TypeOK
    <3>5. SizeKnown' /\ Vacated' /\ Writing'
      BY <1>6, <2>2, <3>2, <3>3 DEF Append, IInv, SizeKnown, Vacated, Writing
    <3> QED BY <3>2, <3>4, <3>5, FilesStayGood DEF IInv
  <2>3. CASE /\ files' = Appended(len) /\ size' = size + len /\ written' = written + 1
             /\ pc' = "idle" /\ UNCHANGED faults
    <3>1. faults' \in 0 .. MaxFaults
      BY <2>3 DEF IInv, TypeOK
    <3> QED BY <2>2, <2>3, <3>1
  <2>4. ASSUME NEW k \in 1 .. len - 1, files' = Appended(k), size' = size + k,
               written' = written + 1, Fails
        PROVE  IInv'
    <3>1. k \in Nat /\ k <= len
      OBVIOUS
    <3>2. pc' = "idle" /\ faults' \in 0 .. MaxFaults
      BY <2>1, <2>4 DEF Fails, Fault, IInv, TypeOK
    <3> QED BY <2>2, <2>4, <3>1, <3>2
  <2>5. CASE Fails /\ UNCHANGED <<files, size, written>>
    <3>1. Good(files', written') /\ written' \in Nat
      BY <2>5
    <3>2. TypeOK'
      BY <1>6, <2>5 DEF Append, Fails, Fault, IInv, TypeOK
    <3>3. SizeKnown' /\ Vacated' /\ Writing'
      BY <1>6, <2>1, <2>5 DEF Append, Fails, IInv, SizeKnown, Vacated, Writing
    <3> QED BY <3>1, <3>2, <3>3, FilesStayGood DEF IInv
  <2> QED BY <1>6, <2>1, <2>3, <2>4, <2>5 DEF Append
<1>7. ASSUME Close PROVE IInv'
  <2>1. Good(files', written') /\ written' \in Nat
    BY <1>7 DEF Close
  <2>2. TypeOK'
    BY <1>7 DEF Close, IInv, TypeOK
  <2>3. SizeKnown' /\ Vacated' /\ Writing'
    BY <1>7 DEF Close, IInv, SizeKnown, Vacated, Writing
  <2> QED BY <2>1, <2>2, <2>3, FilesStayGood DEF IInv
<1>8. ASSUME Exit PROVE IInv'
  <2>1. Good(files', written') /\ written' \in Nat
    BY <1>8 DEF Exit
  <2>2. TypeOK'
    <3>1. 0 \in 0 .. Limit /\ Backups \in 1 .. Backups
      OBVIOUS
    <3>2. faults' \in 0 .. MaxFaults
      BY <1>8 DEF Exit, Fault, IInv, TypeOK
    <3> QED BY <1>8, <3>1, <3>2 DEF Exit, IInv, TypeOK
  <2>3. SizeKnown' /\ Vacated' /\ Writing'
    BY <1>8 DEF Exit, SizeKnown, Vacated, Writing
  <2> QED BY <2>1, <2>2, <2>3, FilesStayGood DEF IInv
<1>9. CASE UNCHANGED vars
  BY <1>9 DEF vars, IInv, TypeOK, Bounded, Numbered, RetainedIsSuffix, Present, SizeKnown, Vacated, Writing
<1> QED
  BY <1>1, <1>2, <1>3, <1>4, <1>5, <1>6, <1>7, <1>8, <1>9 DEF Next

\* The inductive invariant, for every limit, number of backups and set of sizes.
THEOREM Invariance == Spec => []IInv
BY InitIInv, NextIInv, PTL DEF Spec

\* File keeps its types, and the size it remembers never exceeds the limit.
THEOREM TypeCorrect == Spec => []TypeOK
<1>1. IInv => TypeOK
  BY DEF IInv
<1> QED BY <1>1, Invariance, PTL

\* No log file ever exceeds the limit.
THEOREM FilesBounded == Spec => []Bounded
<1>1. IInv => Bounded
  BY DEF IInv
<1> QED BY <1>1, Invariance, PTL

\* Whatever fails and wherever the process dies, only the oldest entries are lost.
THEOREM OnlyOldestLost == Spec => []RetainedIsSuffix
<1>1. IInv => RetainedIsSuffix
  BY DEF IInv
<1> QED BY <1>1, Invariance, PTL

\* Nothing is written after Close: the calls that change a file belong to a Write that
\* was accepted before, and File.mu keeps Close out until it is over.
THEOREM NothingAfterClose == Spec => ClosedIsFinal
<1>1. IInv /\ [Next]_vars => [closed /\ closed' => files' = files]_vars
  <2> SUFFICES ASSUME IInv, Next, closed, closed' PROVE files' = files
    BY DEF vars
  <2>1. pc = "idle"
    BY DEF IInv, Writing
  <2> QED BY <2>1 DEF Next, Write, Reopen, CloseFull, Shift, Move, Append, Close, Exit
<1> QED BY <1>1, Invariance, PTL DEF Spec, ClosedIsFinal
=============================================================================
