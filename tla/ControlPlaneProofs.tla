-------------------------- MODULE ControlPlaneProofs --------------------------
(***************************************************************************)
(* Safety of internal/admin/service.go and internal/metadata/              *)
(* consul_store.go for any number of replicas, applications, requests,     *)
(* operations and faults.                                                  *)
(***************************************************************************)
EXTENDS ControlPlane, SequenceTheorems, TLAPS

-----------------------------------------------------------------------------
(* Records and requests                                                    *)

\* What a create request asks for is a record.
LEMMA CreatedType ==
  ASSUME NEW q \in Requests, q.domain # None, q.idl # None
  PROVE  /\ Created(q) \in Records /\ Created(q) # None
         /\ Created(q).rev \in Revs /\ Validates(Created(q))
<1>1. /\ q.domain \in Domains \cup {None} /\ q.enabled \in BOOLEAN \cup {None}
      /\ q.idl \in Revs
  BY RequestsAssumption
<1>2. Or(q.enabled, TRUE) \in BOOLEAN
  BY <1>1, Zenon DEF Or
<1>3. /\ Created(q) = [domain |-> q.domain, enabled |-> Or(q.enabled, TRUE), rev |-> q.idl]
      /\ Created(q).domain = q.domain /\ Created(q).rev = q.idl
  BY DEF Created
<1>4. Created(q) \in Records
  BY <1>1, <1>2 DEF Created, Records
<1> QED BY <1>1, <1>3, <1>4, NoneAssumption, LegacyAssumption DEF Validates

\* What an update request makes of a record is a record.
LEMMA PatchedType ==
  ASSUME NEW c \in Records, NEW q \in Requests
  PROVE  /\ Patched(c, q) \in Records /\ Patched(c, q) # None
         /\ q.idl # None => Patched(c, q).rev = q.idl
<1>1. /\ q.domain \in Domains \cup {None} /\ q.enabled \in BOOLEAN \cup {None}
      /\ q.idl \in Revs \cup {None}
  BY RequestsAssumption
<1>2. /\ c.domain \in Domains \cup {None} /\ c.enabled \in BOOLEAN /\ c.rev \in Revs \cup {Legacy}
  BY DEF Records
<1>3. /\ Or(q.domain, c.domain) \in Domains \cup {None}
      /\ Or(q.enabled, c.enabled) \in BOOLEAN
      /\ Or(q.idl, c.rev) \in Revs \cup {Legacy}
  BY <1>1, <1>2, Zenon DEF Or
<1>4. Patched(c, q) \in Records
  BY <1>3 DEF Patched, Records
<1> QED BY <1>1, <1>4, NoneAssumption DEF Patched, Or

\* None is no record, and what it has instead of a contract needs none.
LEMMA NoneIsNone == None \notin Records /\ None \notin Revs \cup {Legacy} /\ None \notin Domains
  BY NoneAssumption

LEMMA RecordFields ==
  ASSUME NEW c \in Records
  PROVE  c # None /\ c.domain \in Domains \cup {None} /\ c.enabled \in BOOLEAN /\ c.rev \in Revs \cup {Legacy}
         /\ c.rev # None
  BY NoneAssumption DEF Records
-----------------------------------------------------------------------------
(* The log                                                                 *)

\* The log of a later state has the log of an earlier one at its beginning, and
\* contracts are never deleted.
Grows ==
  /\ log' \in Seq(Catalogs) /\ Len(log') >= Len(log)
  /\ \A i \in 1 .. Len(log) : log'[i] = log[i]
  /\ contracts \subseteq contracts'

LEMMA LogType ==
  ASSUME TypeOK, LogInv
  PROVE  /\ Len(log) \in Nat \ {0} /\ Tip \in Catalogs /\ Tip = log[Len(log)]
         /\ \A i \in 1 .. Len(log) :
              /\ log[i] \in Catalogs /\ log[i].mark \in Nat /\ log[i].val \in Nat
              /\ \A a \in Apps : log[i].app[a] \in Records \cup {None} /\ log[i].mod[a] \in Nat
<1>1. /\ Len(log) \in Nat \ {0} /\ \A i \in 1 .. Len(log) : log[i] \in Catalogs
  BY ElementOfSeq, LenProperties DEF TypeOK, LogInv
<1> QED BY <1>1 DEF Tip, Catalogs

LEMMA SameLogGrows ==
  ASSUME TypeOK, log' = log, contracts \subseteq contracts' PROVE Grows
  BY LenProperties DEF TypeOK, Grows

\* A transaction that can be sent leaves a record, or none when it deletes.
LEMMA CompleteType ==
  ASSUME NEW t \in Jobs, AskedFor(t), Complete(t), TypeOK, LogInv, Edits(t.op) \/ t.op = "delete"
  PROVE  /\ t.app \in Apps
         /\ t.op # "delete" => t.want \in Records /\ t.want # None /\ t.want.rev \in contracts
  <1>1. CASE t.op = "delete"
    BY <1>1 DEF AskedFor
  <1>2. CASE t.op = "create"
    BY <1>2, CreatedType DEF AskedFor, Complete, Prepared, Edits
  <1>3. CASE t.op = "update"
    <2>1. t.app \in Apps /\ t.req \in Requests
      BY <1>3 DEF AskedFor, Edits
    <2>2. PICK i \in 1 .. Len(log) : log[i].app[t.app] = t.orig /\ log[i].mod[t.app] = t.base
      BY <1>3 DEF Complete, Prepared
    <2>3. t.base # 0 /\ t.want = Patched(t.orig, t.req) /\ t.want.rev \in contracts
      BY <1>3 DEF Complete, Prepared
    <2>4. t.orig \in Records
      BY <2>1, <2>2, <2>3, LogType DEF LogInv
    <2> QED BY <1>3, <2>1, <2>3, <2>4, PatchedType
  <1> QED BY <1>1, <1>2, <1>3 DEF Edits

\* The catalog a transaction commits: indexes are new, never reused.
LEMMA CommittedCatalog ==
  ASSUME TypeOK, LogInv, NEW t \in Jobs, AskedFor(t), Complete(t), Edits(t.op) \/ t.op = "delete",
         MarkerUnchanged(t)
  PROVE  LET n == Len(log) + 1
             c == Committed(t)
             new == IF t.op = "delete" THEN None ELSE t.want
         IN  /\ c \in Catalogs /\ c.mark = n /\ c.val <= n
             /\ c.app = [Tip.app EXCEPT ![t.app] = new]
             /\ \A a \in Apps : c.mod[a] = IF a # t.app \/ (Tip.app[a] = new /\ new # None)
                                           THEN Tip.mod[a]
                                           ELSE IF new = None THEN 0 ELSE n
<1> DEFINE n == Len(log) + 1
<1> DEFINE c == Committed(t)
<1> DEFINE new == IF t.op = "delete" THEN None ELSE t.want
<1>1. /\ Len(log) \in Nat \ {0} /\ Tip \in Catalogs /\ Tip = log[Len(log)]
      /\ Tip.app \in [Apps -> Records \cup {None}] /\ Tip.mod \in [Apps -> Nat]
      /\ Tip.mark \in Nat /\ Tip.val \in Nat
  BY LogType DEF Catalogs
<1>2. t.app \in Apps /\ new \in Records \cup {None}
  BY CompleteType
<1>3. Tip.mark <= Len(log) /\ Tip.val <= Tip.mark /\ t.fence = Tip.mark
  BY <1>1 DEF LogInv, MarkerUnchanged
<1>4. c.val = Tip.mark + 1 /\ c.mark = n
  BY <1>1, <1>3 DEF Committed, MarkerValue
<1>5. c.app = [Tip.app EXCEPT ![t.app] = new] /\ c.app \in [Apps -> Records \cup {None}]
  BY <1>1, <1>2 DEF Committed
<1>6. /\ c.mod = [Tip.mod EXCEPT ![t.app] =
                    IF new = None THEN 0 ELSE IF Tip.app[t.app] = new THEN @ ELSE n]
      /\ c.mod \in [Apps -> Nat]
  BY <1>1, <1>2 DEF Committed
<1>7. c \in Catalogs
  <2>1. c = [app |-> c.app, mod |-> c.mod, mark |-> c.mark, val |-> c.val]
    BY DEF Committed
  <2>2. c.mark \in Nat /\ c.val \in Nat
    BY <1>1, <1>4
  <2> HIDE DEF c
  <2> QED BY <1>5, <1>6, <2>1, <2>2 DEF Catalogs
<1>8. \A a \in Apps : c.mod[a] = IF a # t.app \/ (Tip.app[a] = new /\ new # None)
                                 THEN Tip.mod[a] ELSE IF new = None THEN 0 ELSE n
  <2> HIDE DEF c, new, n
  <2> QED BY <1>1, <1>2, <1>6
<1> QED BY <1>1, <1>3, <1>4, <1>5, <1>7, <1>8

\* A commit extends the log, and keeps what is true of it.
LEMMA CommitKeepsLog ==
  ASSUME TypeOK, LogInv, CommittedHasContract,
         NEW t \in Jobs, AskedFor(t), Complete(t), Edits(t.op) \/ t.op = "delete", Accepts(t),
         log' = Append(log, Committed(t)), contracts' = contracts
  PROVE  /\ Grows /\ LogInv' /\ CommittedHasContract'
         /\ Len(log') = Len(log) + 1
         /\ Tip' = Committed(t)
         /\ Tip'.app = [Tip.app EXCEPT ![t.app] = IF t.op = "delete" THEN None ELSE t.want]
         /\ log'[Len(log')].app[t.app] = IF t.op = "delete" THEN None ELSE t.want
<1> DEFINE n == Len(log) + 1
<1> DEFINE c == Committed(t)
<1> DEFINE new == IF t.op = "delete" THEN None ELSE t.want
<1>1. /\ c \in Catalogs /\ c.mark = n /\ c.val <= n
      /\ c.app = [Tip.app EXCEPT ![t.app] = new]
      /\ \A a \in Apps : c.mod[a] = IF a # t.app \/ (Tip.app[a] = new /\ new # None)
                                    THEN Tip.mod[a] ELSE IF new = None THEN 0 ELSE n
  BY CommittedCatalog DEF Accepts
<1>2. /\ log' \in Seq(Catalogs) /\ Len(log') = n /\ log'[n] = c
      /\ \A i \in 1 .. Len(log) : log'[i] = log[i]
  BY <1>1, AppendProperties DEF TypeOK
<1>3. /\ Len(log) \in Nat \ {0} /\ Tip = log[Len(log)]
      /\ \A i \in 1 .. Len(log) :
           /\ log[i].mark \in Nat /\ log[i].val \in Nat
           /\ log[i].app \in [Apps -> Records \cup {None}] /\ log[i].mod \in [Apps -> Nat]
  BY LogType DEF Catalogs
<1>4. /\ t.app \in Apps /\ new \in Records \cup {None}
      /\ new # None => new.rev \in contracts
  BY CompleteType
<1>5. Grows
  BY <1>2, <1>3 DEF Grows
<1>6. \A a \in Apps : c.app[a] = IF a = t.app THEN new ELSE Tip.app[a]
  BY <1>1, <1>3, <1>4
<1> HIDE DEF n, c, new
<1>7. \A i \in 1 .. Len(log') :
        (i = n /\ log'[i] = c) \/ (i \in 1 .. Len(log) /\ log'[i] = log[i])
  <2> TAKE i \in 1 .. Len(log')
  <2>1. Len(log) \in Nat /\ n = Len(log) + 1 /\ Len(log') = n
    BY <1>2, <1>3 DEF n
  <2>2. i = n \/ i \in 1 .. Len(log)
    BY <2>1
  <2> QED BY <1>2, <2>2
<1>8. LogInv'
  <2>1. \A i \in 1 .. Len(log') : log'[i].mark <= i /\ log'[i].val <= log'[i].mark
    BY <1>1, <1>7 DEF LogInv, n
  <2>2. \A i, k \in 1 .. Len(log') : i < k => log'[i].mark < log'[k].mark
    BY <1>1, <1>3, <1>7, SMTT(30) DEF LogInv, n
  <2>3. \A i \in 1 .. Len(log'), a \in Apps :
          log'[i].mod[a] <= i /\ ((log'[i].mod[a] = 0) <=> (log'[i].app[a] = None))
    BY <1>1, <1>3, <1>6, <1>7 DEF LogInv, n
  <2>4. \A i \in 1 .. Len(log), a \in Apps :
          (log[i].mod[a] = c.mod[a]) => (log[i].app[a] = c.app[a])
    BY <1>1, <1>3, <1>6 DEF LogInv, n
  <2>5. \A i, k \in 1 .. Len(log'), a \in Apps :
          (log'[i].mod[a] = log'[k].mod[a]) => (log'[i].app[a] = log'[k].app[a])
    BY <1>7, <2>4 DEF LogInv
  <2>6. Len(log') > 0
    BY <1>2, <1>3 DEF n
  <2>7. ASSUME NEW i \in 1 .. Len(log'), NEW k \in 1 .. Len(log'), NEW a \in Apps,
               i <= k, log'[k].mod[a] # 0, log'[k].mod[a] <= i
        PROVE  log'[i].mod[a] = log'[k].mod[a]
    <3>1. CASE k # n
      <4>1. i # n
        BY <1>2, <1>3, <2>7, <3>1 DEF n
      <4>2. i \in 1 .. Len(log) /\ k \in 1 .. Len(log) /\ log'[i] = log[i] /\ log'[k] = log[k]
        BY <1>7, <2>7, <3>1, <4>1
      <4> QED BY <2>7, <4>2 DEF LogInv
    <3>2. CASE k = n /\ i = n
      BY <3>2
    <3>3. CASE k = n /\ i # n
      <4>1. i \in 1 .. Len(log) /\ log'[i] = log[i] /\ log'[k] = c
        BY <1>2, <1>7, <3>3
      <4>2. c.mod[a] = Tip.mod[a]
        BY <1>1, <1>3, <2>7, <3>3, <4>1 DEF n
      <4>3. Len(log) \in 1 .. Len(log) /\ i <= Len(log)
        BY <1>3, <4>1
      <4> QED BY <1>3, <2>7, <4>1, <4>2, <4>3 DEF LogInv
    <3> QED BY <3>1, <3>2, <3>3
  <2> QED BY <2>1, <2>2, <2>3, <2>5, <2>6, <2>7 DEF LogInv
<1>9. CommittedHasContract'
  BY <1>3, <1>4, <1>6, <1>7 DEF CommittedHasContract
<1>10. Tip' = c
  BY <1>2 DEF Tip
<1>11. c.app[t.app] = new
  BY <1>4, <1>6
<1>12. log'[Len(log')].app[t.app] = new
  BY <1>2, <1>11
<1> QED
  <2>1. /\ Tip' = Committed(t) /\ Tip'.app = [Tip.app EXCEPT ![t.app] = IF t.op = "delete" THEN None ELSE t.want]
    BY <1>1, <1>10 DEF c, new
  <2>2. log'[Len(log')].app[t.app] = IF t.op = "delete" THEN None ELSE t.want
    BY <1>12 DEF new
  <2> QED BY <1>2, <1>5, <1>8, <1>9, <2>1, <2>2 DEF n
-----------------------------------------------------------------------------
(* What the others do, and what every end of an operation does             *)

\* What a transaction was computed from stays in the log.
LEMMA PreparedStays ==
  ASSUME NEW j, Prepared(j), Grows, TypeOK PROVE Prepared(j)' /\ (Complete(j) => Complete(j)')
<1>1. Len(log) \in Nat /\ Len(log') \in Nat
  BY LenProperties DEF TypeOK, Grows
<1>2. \A a : (\E i \in 1 .. Len(log) : log[i].app[a] = j.orig /\ log[i].mod[a] = j.base)
          => \E i \in 1 .. Len(log') : log'[i].app[a] = j.orig /\ log'[i].mod[a] = j.base
  BY <1>1 DEF Grows
<1>3. Prepared(j)'
  BY <1>2 DEF Prepared, Validates
<1> QED BY <1>3 DEF Complete, Grows

\* A replica is not disturbed by commits, contracts and steps elsewhere.
LEMMA OthersKeep ==
  ASSUME TypeOK, LogInv, Grows, NEW s \in Replicas, ReplicaInv(s),
         pc'[s] = pc[s], job'[s] = job[s], seen'[s] = seen[s], todo'[s] = todo[s],
         wake'[s] = wake[s], running'[s] = running[s], ver'[s] = ver[s], status'[s] = status[s]
  PROVE  ReplicaInv(s)'
<1>1. /\ Len(log) \in Nat /\ Len(log') \in Nat /\ Len(log') >= Len(log)
      /\ \A i \in 1 .. Len(log) : log'[i] = log[i]
      /\ seen[s] \in Nat /\ wake[s] \in Nat /\ \A a \in Apps : ver[s][a] \in Nat
  BY LenProperties DEF TypeOK, Grows
<1>2. JobInv(s)'
  BY DEF ReplicaInv, JobInv, AskedFor
<1>3. /\ SeenInv(s)'
      /\ seen[s] # 0 => log'[seen[s]] = log[seen[s]]
      /\ pc[s] # "list" => seen[s] # 0
  BY <1>1 DEF ReplicaInv, SeenInv
<1>4. PreparedInv(s)'
  BY PreparedStays DEF ReplicaInv, PreparedInv, Complete
<1>5. FenceInv(s)'
  BY <1>3 DEF ReplicaInv, FenceInv, Configured, Validates, Edits
<1>6. VerInv(s)'
  BY <1>1 DEF ReplicaInv, VerInv
<1>7. StatusInv(s)'
  BY <1>3 DEF ReplicaInv, StatusInv, Pending, Configured, Validates
<1> QED BY <1>2, <1>3, <1>4, <1>5, <1>6, <1>7 DEF ReplicaInv

\* Between jobs only what runs and what is shown of it matter.
LEMMA IdleKeeps ==
  ASSUME TypeOK, Grows, NEW r \in Replicas, ReplicaInv(r),
         pc'[r] = "idle", job'[r] = NoJob, seen'[r] = seen[r], seen[r] # 0,
         wake'[r] \in {0, wake[r]}, running'[r] = running[r], ver'[r] = ver[r], StatusInv(r)'
  PROVE  ReplicaInv(r)'
<1>1. /\ Len(log) \in Nat /\ Len(log') \in Nat /\ Len(log') >= Len(log)
      /\ \A i \in 1 .. Len(log) : log'[i] = log[i]
      /\ seen[r] \in Nat /\ wake[r] \in Nat /\ \A a \in Apps : ver[r][a] \in Nat
  BY LenProperties DEF TypeOK, Grows
<1>2. JobInv(r)'
  BY DEF JobInv, AskedFor, NoJob, Edits
<1>3. SeenInv(r)'
  BY <1>1 DEF ReplicaInv, SeenInv
<1>4. PreparedInv(r)' /\ FenceInv(r)'
  BY DEF PreparedInv, FenceInv
<1>5. VerInv(r)'
  BY <1>1 DEF ReplicaInv, VerInv
<1> QED BY <1>2, <1>3, <1>4, <1>5 DEF ReplicaInv

\* What only reads the log keeps what is true of it.
LEMMA GlobalsKeep ==
  ASSUME TypeOK, LogInv, CommittedHasContract, InflightInv,
         log' = log, contracts \subseteq contracts', inflight' \subseteq inflight
  PROVE  Grows /\ LogInv' /\ CommittedHasContract' /\ InflightInv'
<1>1. Grows
  BY SameLogGrows
<1>2. LogInv' /\ CommittedHasContract'
  BY DEF LogInv, CommittedHasContract
<1>3. InflightInv'
  BY <1>1, PreparedStays DEF InflightInv, Complete, AskedFor
<1> QED BY <1>1, <1>2, <1>3

\* No operation gets the identity of another when jobs only end.
LEMMA IdKeeps ==
  ASSUME TypeOK, IdInv, ops' = ops, inflight' \subseteq inflight,
         \A s \in Replicas : job'[s].id \in {0, job[s].id}
  PROVE  IdInv'
<1>1. ops \in Nat /\ \A s \in Replicas : job[s].id \in Nat
  BY BoundsAssumption DEF TypeOK, Jobs
<1> QED BY <1>1 DEF IdInv
-----------------------------------------------------------------------------
(* Initially                                                               *)

LEMMA InitInv == ASSUME Init PROVE IInv
<1>1. PICK s \in InitialApps, mark \in {0, 1} :
        /\ log = <<[app |-> s, mark |-> mark, val |-> mark,
                    mod |-> [a \in Apps |-> IF s[a] = None THEN 0 ELSE 1]]>>
        /\ contracts = {s[a].rev : a \in {b \in Apps : s[b] # None}} \cap Revs
  BY DEF Init
<1>2. s \in [Apps -> Records \cup {None}]
  BY InitialAssumption
<1>3. /\ Len(log) = 1 /\ log[1].app = s /\ log[1].mark = mark /\ log[1].val = mark
      /\ log[1].mod = [a \in Apps |-> IF s[a] = None THEN 0 ELSE 1]
      /\ log[1] = [app |-> s, mark |-> mark, val |-> mark, mod |-> log[1].mod]
  BY <1>1
<1>4. log[1] \in Catalogs
  BY <1>2, <1>3 DEF Catalogs
<1>5. log \in Seq(Catalogs)
  BY <1>1, <1>3, <1>4
<1>6. Boot \in Jobs /\ NoStatus \in Statuses
  BY BoundsAssumption DEF Boot, NoJob, Jobs, NoStatus, Statuses
<1>7. TypeOK
  BY <1>1, <1>5, <1>6, BoundsAssumption DEF TypeOK, Init
<1>8. LogInv
  BY <1>2, <1>3 DEF LogInv
<1>9. CommittedHasContract
  <2> SUFFICES ASSUME NEW i \in 1 .. Len(log), NEW a \in Apps, log[i].app[a] # None
               PROVE  log[i].app[a].rev \in contracts \cup {Legacy}
    BY DEF CommittedHasContract
  <2>1. log[i].app[a] = s[a] /\ s[a] \in Records
    BY <1>2, <1>3
  <2> QED BY <1>1, <2>1, RecordFields
<1>10. IdInv /\ InflightInv
  BY BoundsAssumption DEF Init, IdInv, InflightInv, Boot, NoJob
<1>11. ASSUME NEW r \in Replicas PROVE ReplicaInv(r)
  <2>1. /\ pc[r] = "list" /\ job[r] = Boot /\ seen[r] = 0 /\ wake[r] = 0
        /\ \A a \in Apps : running[r][a] = None /\ ver[r][a] = 0 /\ status[r][a] = NoStatus
    BY DEF Init
  <2> QED BY <1>3, <2>1 DEF ReplicaInv, JobInv, AskedFor, SeenInv, PreparedInv, FenceInv, VerInv,
                            StatusInv, Boot, NoJob, Edits
<1> QED BY <1>7, <1>8, <1>9, <1>10, <1>11 DEF IInv
-----------------------------------------------------------------------------
(* Beginning a job                                                         *)

\* An administrator's request, whichever it is.
LEMMA BeginKeeps ==
  ASSUME IInv, NEW r \in Replicas, NEW o \in {"create", "update", "delete"}, NEW a \in Apps,
         NEW q \in Requests \cup {None}, Begin(r, o, a, q),
         Goto(r, IF o = "delete" THEN "get" ELSE "list"),
         o # "delete" => q \in Requests,
         o = "create" => q.domain # None /\ q.idl # None,
         o = "delete" => q = None
  PROVE  IInv'
<1> DEFINE j == [NoJob EXCEPT !.op = o, !.id = ops', !.app = a, !.req = q]
<1>1. /\ TypeOK /\ LogInv /\ CommittedHasContract /\ IdInv /\ InflightInv
      /\ \A s \in Replicas : ReplicaInv(s)
  BY DEF IInv
<1>2. /\ job' = [job EXCEPT ![r] = j] /\ ops' = ops + 1 /\ ops' \in 0 .. MaxOps /\ ops \in Nat
      /\ pc' = [pc EXCEPT ![r] = IF o = "delete" THEN "get" ELSE "list"] /\ pc[r] = "idle"
      /\ UNCHANGED <<log, contracts, inflight, seen, todo, wake, running, ver, status, loaded, stopping, faults>>
      /\ answer' = [answer EXCEPT ![r] = "none"]
  BY <1>1, BoundsAssumption DEF Begin, Goto, store, local, flags, TypeOK
<1>3. j \in Jobs
  BY <1>2 DEF Jobs, NoJob
<1>4. TypeOK'
  BY <1>1, <1>2, <1>3 DEF TypeOK
<1>5. Grows /\ LogInv' /\ CommittedHasContract' /\ InflightInv'
  BY <1>1, <1>2, GlobalsKeep
<1>6. /\ job'[r].id = ops + 1 /\ pc'[r] # "idle"
      /\ \A s \in Replicas : s # r => job'[s] = job[s] /\ pc'[s] = pc[s]
  BY <1>1, <1>2 DEF TypeOK, NoJob
<1>7. IdInv'
  <2>1. \A s \in Replicas : job[s].id \in Nat
    BY <1>1, BoundsAssumption DEF TypeOK, Jobs
  <2>2. /\ \A s \in Replicas : job'[s].id \in Nat /\ job'[s].id <= ops'
        /\ \A s \in Replicas : s # r => job'[s].id < job'[r].id
    BY <1>1, <1>2, <1>6, <2>1 DEF IdInv
  <2>3. \A t \in inflight : t.id \in 1 .. ops' /\ t.id < job'[r].id
    BY <1>1, <1>2, <1>6 DEF IdInv
  <2> QED BY <1>1, <1>2, <1>6, <2>2, <2>3 DEF IdInv
<1>8. ASSUME NEW s \in Replicas, s # r PROVE ReplicaInv(s)'
  BY <1>1, <1>2, <1>5, <1>6, <1>8, OthersKeep
<1>9. ReplicaInv(r)'
  <2>1. /\ job'[r] = j /\ pc'[r] = (IF o = "delete" THEN "get" ELSE "list")
        /\ j.op = o /\ j.id = ops + 1 /\ j.app = a /\ j.req = q /\ j.base = 0
    BY <1>1, <1>2 DEF TypeOK, NoJob
  <2> HIDE DEF j
  <2>2. JobInv(r)' /\ PreparedInv(r)' /\ FenceInv(r)'
    BY <1>2, <2>1 DEF JobInv, AskedFor, Edits, PreparedInv, FenceInv
  <2>3. SeenInv(r)'
    BY <1>1, <1>2, <2>1 DEF ReplicaInv, SeenInv
  <2>4. VerInv(r)'
    BY <1>1, <1>2, <2>1 DEF ReplicaInv, VerInv
  <2>5. StatusInv(r)'
    <3>1. StatusInv(r) /\ pc[r] # "apply" /\ pc'[r] # "apply"
      BY <1>1, <1>2, <2>1 DEF ReplicaInv
    <3> QED BY <1>2, <3>1 DEF StatusInv, Pending, Configured, Validates
  <2> QED BY <2>2, <2>3, <2>4, <2>5 DEF ReplicaInv
<1> QED BY <1>4, <1>5, <1>7, <1>8, <1>9 DEF IInv

LEMMA AskedKeeps == ASSUME IInv, NEW r \in Replicas, Asked(r) PROVE IInv'
<1>1. ASSUME NEW a \in Apps, NEW q \in Requests, CreateBegin(r, a, q) PROVE IInv'
  BY <1>1, BeginKeeps DEF CreateBegin
<1>2. ASSUME NEW a \in Apps, NEW q \in Requests, UpdateBegin(r, a, q) PROVE IInv'
  BY <1>2, BeginKeeps DEF UpdateBegin
<1>3. ASSUME NEW a \in Apps, DeleteBegin(r, a) PROVE IInv'
  BY <1>3, BeginKeeps DEF DeleteBegin
<1> QED BY <1>1, <1>2, <1>3 DEF Asked

\* Watch wakes up with a list.
LEMMA WakeKeeps == ASSUME IInv, NEW r \in Replicas, Wake(r) PROVE IInv'
<1>1. /\ TypeOK /\ LogInv /\ CommittedHasContract /\ IdInv /\ InflightInv
      /\ \A s \in Replicas : ReplicaInv(s)
  BY DEF IInv
<1>2. /\ UNCHANGED <<log, contracts, inflight, seen, todo, running, ver, status, loaded, stopping,
                     pc, job, answer, ops, faults>>
      /\ wake' = [wake EXCEPT ![r] = Len(log)] /\ Len(log) \in Nat
  BY <1>1, LogType DEF Wake, store, local, flags
<1>3. TypeOK'
  BY <1>1, <1>2 DEF TypeOK
<1>4. Grows /\ LogInv' /\ CommittedHasContract' /\ InflightInv'
  BY <1>1, <1>2, GlobalsKeep
<1>5. IdInv'
  BY <1>1, <1>2 DEF IdInv
<1>6. wake'[r] = Len(log) /\ \A s \in Replicas : s # r => wake'[s] = wake[s]
  BY <1>1, <1>2 DEF TypeOK
<1>7. ASSUME NEW s \in Replicas, s # r PROVE ReplicaInv(s)'
  BY <1>1, <1>2, <1>4, <1>6, <1>7, OthersKeep
<1>8. ReplicaInv(r)'
  <2>1. JobInv(r)' /\ PreparedInv(r)'
    BY <1>1, <1>2 DEF ReplicaInv, JobInv, AskedFor, PreparedInv, Complete, Prepared
  <2>2. SeenInv(r)'
    BY <1>1, <1>2, <1>6 DEF ReplicaInv, SeenInv
  <2>3. FenceInv(r)'
    BY <1>1, <1>2 DEF ReplicaInv, FenceInv, Configured, Validates
  <2>4. VerInv(r)'
    BY <1>1, <1>2 DEF ReplicaInv, VerInv
  <2>5. StatusInv(r)'
    BY <1>1, <1>2 DEF ReplicaInv, StatusInv, Pending, Configured, Validates
  <2> QED BY <2>1, <2>2, <2>3, <2>4, <2>5 DEF ReplicaInv
<1> QED BY <1>3, <1>4, <1>5, <1>7, <1>8 DEF IInv

\* Its handler gets Service.mu.
LEMMA WatchBeginKeeps == ASSUME IInv, NEW r \in Replicas, WatchBegin(r) PROVE IInv'
<1> DEFINE j == [NoJob EXCEPT !.op = "watch"]
<1>1. /\ TypeOK /\ LogInv /\ CommittedHasContract /\ IdInv /\ InflightInv
      /\ \A s \in Replicas : ReplicaInv(s)
  BY DEF IInv
<1>2. /\ UNCHANGED <<log, contracts, inflight, seen, todo, wake, running, ver, status, loaded, stopping,
                     answer, ops, faults>>
      /\ pc' = [pc EXCEPT ![r] = "list"] /\ job' = [job EXCEPT ![r] = j] /\ pc[r] = "idle"
  BY DEF WatchBegin, Goto, store, local, flags
<1>3. j \in Jobs /\ j.op = "watch" /\ j.id = 0 /\ j.req = None
  BY BoundsAssumption DEF Jobs, NoJob
<1>4. TypeOK'
  BY <1>1, <1>2, <1>3 DEF TypeOK
<1>5. Grows /\ LogInv' /\ CommittedHasContract' /\ InflightInv'
  BY <1>1, <1>2, GlobalsKeep
<1>6. /\ pc'[r] = "list" /\ job'[r] = j
      /\ \A s \in Replicas : s # r => job'[s] = job[s] /\ pc'[s] = pc[s]
  BY <1>1, <1>2 DEF TypeOK
<1>7. IdInv'
  <2>1. \A s \in Replicas : job'[s].id \in {0, job[s].id}
    BY <1>3, <1>6
  <2> QED BY <1>1, <1>2, <2>1, IdKeeps
<1>8. ASSUME NEW s \in Replicas, s # r PROVE ReplicaInv(s)'
  BY <1>1, <1>2, <1>5, <1>6, <1>8, OthersKeep
<1>9. ReplicaInv(r)'
  <2> HIDE DEF j
  <2>1. JobInv(r)' /\ PreparedInv(r)' /\ FenceInv(r)'
    BY <1>3, <1>6 DEF JobInv, AskedFor, Edits, PreparedInv, FenceInv
  <2>2. SeenInv(r)'
    BY <1>1, <1>2, <1>3, <1>6 DEF ReplicaInv, SeenInv
  <2>3. VerInv(r)'
    BY <1>1, <1>2, <1>3, <1>6 DEF ReplicaInv, VerInv
  <2>4. StatusInv(r)'
    <3>1. StatusInv(r) /\ pc[r] # "apply" /\ pc'[r] # "apply"
      BY <1>1, <1>2, <1>3, <1>6 DEF ReplicaInv
    <3> QED BY <1>2, <3>1 DEF StatusInv, Pending, Configured, Validates
  <2> QED BY <2>1, <2>2, <2>3, <2>4 DEF ReplicaInv
<1> QED BY <1>4, <1>5, <1>7, <1>8, <1>9 DEF IInv
-----------------------------------------------------------------------------
(* Statuses and ends                                                       *)

\* What record() writes down.
LEMMA RecordedType ==
  ASSUME NEW c \in Records, NEW runtime \in Records \cup {None}, NEW f \in BOOLEAN
  PROVE  LET s == Recorded(c, runtime, f)
         IN  /\ s \in Statuses /\ s # NoStatus
             /\ s.cur = IF runtime = None THEN None ELSE runtime.rev
             /\ s.st = "ready" => ~f /\ c.enabled
             /\ s.st = "unconfigured" => f /\ ~Validates(c)
<1> DEFINE s == Recorded(c, runtime, f)
<1> DEFINE st == IF f
                 THEN IF c.rev # Legacy /\ c.domain = None THEN "unconfigured" ELSE "degraded"
                 ELSE IF c.enabled THEN "ready" ELSE "disabled"
<1> DEFINE cur == IF runtime = None THEN None ELSE runtime.rev
<1>1. s = [st |-> st, cur |-> cur]
  BY DEF Recorded
<1>2. cur \in Revs \cup {Legacy, None}
  BY RecordFields
<1>3. /\ st \in {"ready", "disabled", "degraded", "unconfigured"}
      /\ st = "ready" => ~f /\ c.enabled
      /\ st = "unconfigured" => f /\ ~Validates(c)
  BY Zenon DEF Validates
<1> HIDE DEF st, cur, s
<1>4. s \in Statuses /\ s # NoStatus /\ s.st = st /\ s.cur = cur
  BY <1>1, <1>2, <1>3 DEF Statuses, NoStatus
<1> QED BY <1>3, <1>4 DEF s, cur

LEMMA FaultType ==
  ASSUME TypeOK, NEW r \in Replicas, Fault(r) \/ UNCHANGED faults PROVE faults' \in 0 .. MaxFaults
  BY BoundsAssumption DEF TypeOK, Fault

\* A true status recorded for one application of r.
LEMMA RecordKeeps ==
  ASSUME TypeOK, NEW r \in Replicas, NEW a \in Apps, NEW c \in Records, NEW f \in BOOLEAN, seen[r] # 0,
         StatusInv(r), seen' = seen, log' = log, running' = running,
         pc[r] # "apply", Validates(c), ~f /\ c.enabled => running[r][a] # None,
         status' = [status EXCEPT ![r][a] = Recorded(c, running[r][a], f)]
  PROVE  /\ status' \in [Replicas -> [Apps -> Statuses]]
         /\ \A s \in Replicas : s # r => status'[s] = status[s]
         /\ StatusInv(r)'
<1> DEFINE new == Recorded(c, running[r][a], f)
<1>1. /\ new \in Statuses
      /\ new.cur = IF running[r][a] = None THEN None ELSE running[r][a].rev
      /\ new.st = "ready" => running[r][a] # None
      /\ new.st # "unconfigured"
  <2>1. running[r][a] \in Records \cup {None}
    BY DEF TypeOK
  <2> QED BY <2>1, RecordedType
<1> HIDE DEF new
<1>2. /\ status' = [status EXCEPT ![r] = [status[r] EXCEPT ![a] = new]]
      /\ status \in [Replicas -> [Apps -> Statuses]]
  BY DEF TypeOK, new
<1>3. /\ status' \in [Replicas -> [Apps -> Statuses]]
      /\ \A s \in Replicas : s # r => status'[s] = status[s]
      /\ \A b \in Apps : status'[r][b] = IF b = a THEN new ELSE status[r][b]
  BY <1>1, <1>2
<1>4. StatusInv(r)'
  BY <1>1, <1>3 DEF StatusInv, Pending, Configured, Validates
<1> QED BY <1>3, <1>4

\* An operation or a reconciliation ends, whatever it was and however it went.
LEMMA EndKeeps ==
  ASSUME IInv, NEW r \in Replicas, NEW how \in {"ok", "same", "error"}, Ends(r, how),
         log' = log, contracts \subseteq contracts', contracts' \subseteq Revs, inflight' = inflight,
         seen' = seen, seen[r] # 0, todo' = todo, running' = running, ver' = ver, ops' = ops,
         wake' \in [Replicas -> Nat], wake'[r] \in {0, wake[r]},
         \A s \in Replicas : s # r => wake'[s] = wake[s] /\ status'[s] = status[s],
         status' \in [Replicas -> [Apps -> Statuses]], StatusInv(r)',
         loaded' \in [Replicas -> BOOLEAN], stopping' = stopping, faults' \in 0 .. MaxFaults
  PROVE  IInv'
<1>1. /\ TypeOK /\ LogInv /\ CommittedHasContract /\ IdInv /\ InflightInv
      /\ \A s \in Replicas : ReplicaInv(s)
  BY DEF IInv
<1>2. /\ pc' = [pc EXCEPT ![r] = "idle"] /\ job' = [job EXCEPT ![r] = NoJob]
      /\ answer' \in [Replicas -> {"none", "ok", "same", "error"}]
  BY <1>1 DEF Ends, Goto, TypeOK
<1>3. NoJob \in Jobs /\ NoJob.id = 0
  BY BoundsAssumption DEF NoJob, Jobs
<1>4. TypeOK'
  BY <1>1, <1>2, <1>3 DEF TypeOK
<1>5. Grows /\ LogInv' /\ CommittedHasContract' /\ InflightInv'
  BY <1>1, GlobalsKeep
<1>6. /\ pc'[r] = "idle" /\ job'[r] = NoJob
      /\ \A s \in Replicas : s # r => job'[s] = job[s] /\ pc'[s] = pc[s]
  BY <1>1, <1>2 DEF TypeOK
<1>7. IdInv'
  <2>1. \A s \in Replicas : job'[s].id \in {0, job[s].id}
    BY <1>3, <1>6
  <2> QED BY <1>1, <2>1, IdKeeps
<1>8. ASSUME NEW s \in Replicas, s # r PROVE ReplicaInv(s)'
  BY <1>1, <1>5, <1>6, <1>8, OthersKeep
<1>9. ReplicaInv(r)'
  BY <1>1, <1>5, <1>6, IdleKeeps
<1> QED BY <1>4, <1>5, <1>7, <1>8, <1>9 DEF IInv
-----------------------------------------------------------------------------
(* Reconciliation                                                          *)

\* List and the first loop: nothing the list revokes goes on running.
LEMMA ListKeeps == ASSUME IInv, NEW r \in Replicas, List(r) PROVE IInv'
<1> DEFINE apps == log[Len(log)].app
<1>1. /\ TypeOK /\ LogInv /\ CommittedHasContract /\ IdInv /\ InflightInv
      /\ \A s \in Replicas : ReplicaInv(s)
  BY DEF IInv
<1>2. /\ UNCHANGED <<log, contracts, inflight, job, ver, status, loaded, stopping, answer, ops, faults>>
      /\ pc[r] = "list" /\ pc' = [pc EXCEPT ![r] = "apply"]
      /\ seen' = [seen EXCEPT ![r] = Len(log)] /\ Len(log) \in Nat \ {0}
      /\ todo' = [todo EXCEPT ![r] = {a \in Apps : apps[a] # None}]
      /\ wake' = [wake EXCEPT ![r] = IF job[r].op = "watch" THEN 0 ELSE @]
      /\ running' = [running EXCEPT ![r] =
           [a \in Apps |-> IF @[a] # None /\ Revoked(@[a], apps[a]) THEN None ELSE @[a]]]
  BY <1>1, LogType DEF List, Goto, Listed, store, flags
<1>3. TypeOK'
  BY <1>1, <1>2 DEF TypeOK
<1>4. Grows /\ LogInv' /\ CommittedHasContract' /\ InflightInv'
  BY <1>1, <1>2, GlobalsKeep
<1>5. IdInv'
  BY <1>1, <1>2 DEF IdInv
<1>6. /\ pc'[r] = "apply" /\ seen'[r] = Len(log) /\ wake'[r] \in {0, wake[r]}
      /\ todo'[r] = {a \in Apps : apps[a] # None}
      /\ \A a \in Apps : running'[r][a] =
           IF running[r][a] # None /\ Revoked(running[r][a], apps[a]) THEN None ELSE running[r][a]
      /\ \A s \in Replicas : s # r => /\ pc'[s] = pc[s] /\ seen'[s] = seen[s] /\ todo'[s] = todo[s]
                                      /\ wake'[s] = wake[s] /\ running'[s] = running[s]
  BY <1>1, <1>2 DEF TypeOK
<1>7. ASSUME NEW s \in Replicas, s # r PROVE ReplicaInv(s)'
  BY <1>1, <1>2, <1>4, <1>6, <1>7, OthersKeep
<1>8. ReplicaInv(r)'
  <2>1. JobInv(r)' /\ PreparedInv(r)'
    BY <1>1, <1>2, <1>6 DEF ReplicaInv, JobInv, AskedFor, PreparedInv
  <2>2. SeenInv(r)'
    BY <1>1, <1>2, <1>6 DEF ReplicaInv, SeenInv
  <2>3. FenceInv(r)'
    BY <1>2, <1>6 DEF FenceInv, Revoked
  <2>4. VerInv(r)'
    BY <1>1, <1>2, <1>6 DEF ReplicaInv, VerInv
  <2>5. StatusInv(r)'
    BY <1>1, <1>2, <1>6 DEF ReplicaInv, StatusInv, Pending, Configured, Validates
  <2> QED BY <2>1, <2>2, <2>3, <2>4, <2>5 DEF ReplicaInv
<1> QED BY <1>3, <1>4, <1>5, <1>7, <1>8 DEF IInv

LEMMA ListFailsKeeps == ASSUME IInv, NEW r \in Replicas, ListFails(r) PROVE IInv'
<1>1. TypeOK /\ ReplicaInv(r)
  BY DEF IInv
<1>2. seen[r] # 0
  BY <1>1 DEF ReplicaInv, SeenInv, ListFails
<1>3. faults' \in 0 .. MaxFaults
  BY <1>1, FaultType DEF ListFails
<1>4. UNCHANGED <<log, contracts, inflight, seen, todo, running, ver, status, loaded, stopping, ops>>
  BY DEF ListFails, store, local, flags
<1>5. /\ wake' \in [Replicas -> Nat] /\ wake'[r] \in {0, wake[r]}
      /\ \A s \in Replicas : s # r => wake'[s] = wake[s]
  BY <1>1 DEF ListFails, TypeOK
<1>6. StatusInv(r)'
  <2>1. pc[r] = "list" /\ pc'[r] = "idle"
    BY <1>1 DEF ListFails, Ends, Goto, TypeOK
  <2> QED BY <1>1, <1>4, <2>1 DEF ReplicaInv, StatusInv, Pending, Configured, Validates
<1>7. Ends(r, "error")
  BY DEF ListFails
<1> QED BY <1>1, <1>2, <1>3, <1>4, <1>5, <1>6, <1>7, EndKeeps DEF TypeOK

\* Second loop: an application stops because it is disabled, keeps what it ran, or
\* runs its record.
LEMMA ApplyEffect ==
  ASSUME IInv, NEW r \in Replicas, NEW a \in Apps, Apply(r, a)
  PROVE  LET c == log[seen[r]].app[a]
         IN  \E n \in Records \cup {None}, v \in {ver[r][a], seen[r]}, st \in Statuses :
               /\ running' = [running EXCEPT ![r][a] = n]
               /\ ver' = [ver EXCEPT ![r][a] = v]
               /\ status' = [status EXCEPT ![r][a] = st]
               /\ \/ n = None /\ ~c.enabled
                  \/ n = running[r][a] /\ v = ver[r][a] /\ c.enabled
                  \/ n = c /\ v = seen[r] /\ c.enabled
               /\ \/ /\ st.cur = IF n = None THEN None ELSE n.rev
                     /\ st.st = "ready" => n # None
                     /\ st.st = "unconfigured" => ~Configured(c)
                  \/ st = status[r][a] /\ n = running[r][a] /\ n # None
<1> DEFINE c == log[seen[r]].app[a]
<1>1. TypeOK /\ LogInv /\ ReplicaInv(r)
  BY DEF IInv
<1>2. /\ seen[r] \in 1 .. Len(log) /\ c # None /\ Len(log) \in Nat
  <2>1. SeenInv(r) /\ pc[r] = "apply" /\ a \in todo[r] /\ Len(log) \in Nat
    BY <1>1, LogType DEF ReplicaInv, Apply
  <2> QED BY <2>1 DEF SeenInv
<1>3. /\ c \in Records /\ running[r][a] \in Records \cup {None} /\ ver[r][a] \in Nat
      /\ status[r][a] \in Statuses
  BY <1>1, <1>2, LogType DEF TypeOK
<1>4. /\ ver = [ver EXCEPT ![r][a] = ver[r][a]]
      /\ running = [running EXCEPT ![r][a] = running[r][a]]
      /\ status = [status EXCEPT ![r][a] = status[r][a]]
  BY <1>1 DEF TypeOK
<1> HIDE DEF c
<1>5. \/ /\ ~c.enabled
         /\ running' = [running EXCEPT ![r][a] = None]
         /\ status' = [status EXCEPT ![r][a] = Recorded(c, None, FALSE)] /\ ver' = ver
      \/ /\ c.enabled /\ running[r][a] = c
         /\ ver' = [ver EXCEPT ![r][a] = seen[r]] /\ running' = running /\ status' = status
      \/ /\ c.enabled
         /\ running' = [running EXCEPT ![r][a] = c]
         /\ status' = [status EXCEPT ![r][a] = Recorded(c, c, FALSE)]
         /\ ver' = [ver EXCEPT ![r][a] = seen[r]]
      \/ /\ c.enabled
         /\ running' = [running EXCEPT ![r][a] = running[r][a]]
         /\ status' = [status EXCEPT ![r][a] = Recorded(c, running[r][a], TRUE)] /\ ver' = ver
  BY DEF Apply, Current, Kept, c
<1>6. CASE /\ ~c.enabled
           /\ running' = [running EXCEPT ![r][a] = None]
           /\ status' = [status EXCEPT ![r][a] = Recorded(c, None, FALSE)] /\ ver' = ver
  <2> DEFINE st == Recorded(c, None, FALSE)
  <2>1. st \in Statuses /\ st.cur = None /\ st.st # "ready" /\ st.st # "unconfigured"
    BY <1>3, <1>6, RecordedType
  <2> HIDE DEF st
  <2>2. status' = [status EXCEPT ![r][a] = st]
    BY <1>6 DEF st
  <2> QED BY <1>4, <1>6, <2>1, <2>2 DEF c
<1>7. CASE /\ c.enabled /\ running[r][a] = c
           /\ ver' = [ver EXCEPT ![r][a] = seen[r]] /\ running' = running /\ status' = status
  BY <1>2, <1>3, <1>4, <1>7 DEF c
<1>8. CASE /\ c.enabled
           /\ running' = [running EXCEPT ![r][a] = c]
           /\ status' = [status EXCEPT ![r][a] = Recorded(c, c, FALSE)]
           /\ ver' = [ver EXCEPT ![r][a] = seen[r]]
  <2> DEFINE st == Recorded(c, c, FALSE)
  <2>1. st \in Statuses /\ st.cur = c.rev /\ st.st # "unconfigured"
    BY <1>2, <1>3, RecordedType DEF c
  <2> HIDE DEF st
  <2>2. status' = [status EXCEPT ![r][a] = st]
    BY <1>8 DEF st
  <2> QED BY <1>2, <1>3, <1>8, <2>1, <2>2 DEF c
<1>9. CASE /\ c.enabled
           /\ running' = [running EXCEPT ![r][a] = running[r][a]]
           /\ status' = [status EXCEPT ![r][a] = Recorded(c, running[r][a], TRUE)] /\ ver' = ver
  <2> DEFINE st == Recorded(c, running[r][a], TRUE)
  <2>1. /\ st \in Statuses /\ st.st # "ready"
        /\ st.cur = IF running[r][a] = None THEN None ELSE running[r][a].rev
        /\ st.st = "unconfigured" => ~Configured(c)
    BY <1>3, RecordedType DEF Configured
  <2> HIDE DEF st
  <2>2. status' = [status EXCEPT ![r][a] = st]
    BY <1>9 DEF st
  <2> QED BY <1>3, <1>4, <1>9, <2>1, <2>2 DEF c
<1> QED BY <1>5, <1>6, <1>7, <1>8, <1>9

LEMMA ApplyKeeps == ASSUME IInv, NEW r \in Replicas, NEW a \in Apps, Apply(r, a) PROVE IInv'
<1> DEFINE c == log[seen[r]].app[a]
<1>1. /\ TypeOK /\ LogInv /\ CommittedHasContract /\ IdInv /\ InflightInv
      /\ \A s \in Replicas : ReplicaInv(s)
  BY DEF IInv
<1>2. /\ UNCHANGED <<log, contracts, inflight, pc, job, seen, wake, loaded, stopping, answer, ops>>
      /\ pc[r] = "apply" /\ a \in todo[r]
      /\ todo' = [todo EXCEPT ![r] = @ \ {a}]
  BY DEF Apply, store, flags
<1>3. /\ seen[r] \in 1 .. Len(log) /\ c # None /\ Len(log) \in Nat /\ seen[r] \in Nat
      /\ job[r].op # "delete"
  BY <1>1, <1>2, LogType DEF ReplicaInv, SeenInv, JobInv
<1>4. PICK n \in Records \cup {None}, v \in {ver[r][a], seen[r]}, st \in Statuses :
        /\ running' = [running EXCEPT ![r][a] = n]
        /\ ver' = [ver EXCEPT ![r][a] = v]
        /\ status' = [status EXCEPT ![r][a] = st]
        /\ \/ n = None /\ ~c.enabled
           \/ n = running[r][a] /\ v = ver[r][a] /\ c.enabled
           \/ n = c /\ v = seen[r] /\ c.enabled
        /\ \/ /\ st.cur = IF n = None THEN None ELSE n.rev
              /\ st.st = "ready" => n # None
              /\ st.st = "unconfigured" => ~Configured(c)
           \/ st = status[r][a] /\ n = running[r][a] /\ n # None
  BY ApplyEffect
<1>5. faults' \in 0 .. MaxFaults
  BY <1>1, FaultType DEF Apply
<1>6. TypeOK'
  <2>1. /\ running' \in [Replicas -> [Apps -> Records \cup {None}]]
        /\ ver' \in [Replicas -> [Apps -> Nat]] /\ status' \in [Replicas -> [Apps -> Statuses]]
        /\ todo' \in [Replicas -> SUBSET Apps]
    BY <1>1, <1>2, <1>3, <1>4 DEF TypeOK
  <2> QED BY <1>1, <1>2, <1>5, <2>1 DEF TypeOK
<1>7. Grows /\ LogInv' /\ CommittedHasContract' /\ InflightInv'
  BY <1>1, <1>2, GlobalsKeep
<1>8. IdInv'
  BY <1>1, <1>2 DEF IdInv
<1>9. /\ todo'[r] = todo[r] \ {a}
      /\ \A b \in Apps : /\ running'[r][b] = IF b = a THEN n ELSE running[r][b]
                         /\ ver'[r][b] = IF b = a THEN v ELSE ver[r][b]
                         /\ status'[r][b] = IF b = a THEN st ELSE status[r][b]
      /\ \A s \in Replicas : s # r => /\ running'[s] = running[s] /\ ver'[s] = ver[s]
                                      /\ status'[s] = status[s] /\ todo'[s] = todo[s]
  BY <1>1, <1>2, <1>4 DEF TypeOK
<1>10. ASSUME NEW s \in Replicas, s # r PROVE ReplicaInv(s)'
  BY <1>1, <1>2, <1>7, <1>9, <1>10, OthersKeep
<1>11. ReplicaInv(r)'
  <2>1. JobInv(r)' /\ PreparedInv(r)'
    BY <1>1, <1>2 DEF ReplicaInv, JobInv, AskedFor, PreparedInv
  <2>2. SeenInv(r)'
    BY <1>1, <1>2, <1>9 DEF ReplicaInv, SeenInv
  <2>3. FenceInv(r)'
    <3>1. \A b \in Apps : running[r][b] # None =>
             LET d == log[seen[r]].app[b] IN d # None /\ d.enabled /\ d.domain = running[r][b].domain
      BY <1>1, <1>2, <1>3 DEF ReplicaInv, FenceInv
    <3>2. \A b \in Apps : running'[r][b] # None =>
             LET d == log[seen[r]].app[b] IN d # None /\ d.enabled /\ d.domain = running'[r][b].domain
      <4> SUFFICES ASSUME NEW b \in Apps, running'[r][b] # None
                   PROVE  LET d == log[seen[r]].app[b]
                          IN  d # None /\ d.enabled /\ d.domain = running'[r][b].domain
        OBVIOUS
      <4>1. CASE b = a
        <5>1. running'[r][a] = n
          BY <1>9
        <5> QED BY <1>3, <1>4, <3>1, <4>1, <5>1
      <4>2. CASE b # a
        BY <1>9, <3>1, <4>2
      <4> QED BY <4>1, <4>2
    <3> QED BY <1>2, <3>2 DEF FenceInv
  <2>4. VerInv(r)'
    <3>1. \A b \in Apps : ver'[r][b] <= seen[r]
      <4>1. v <= seen[r] /\ \A b \in Apps : ver[r][b] <= seen[r]
        BY <1>1, <1>2, <1>3 DEF ReplicaInv, VerInv
      <4> QED BY <1>9, <4>1
    <3>2. \A b \in Apps : running'[r][b] # None =>
            ver'[r][b] # 0 /\ log[ver'[r][b]].app[b] = running'[r][b]
      <4>1. \A b \in Apps : running[r][b] # None =>
              ver[r][b] # 0 /\ log[ver[r][b]].app[b] = running[r][b]
        BY <1>1 DEF ReplicaInv, VerInv
      <4>2. n # None => v # 0 /\ log[v].app[a] = n
        BY <1>3, <1>4, <4>1
      <4> QED BY <1>9, <4>1, <4>2
    <3>3. \A b \in Apps : ver'[r][b] <= Len(log)
      BY <1>3, <1>6, <3>1 DEF TypeOK
    <3> QED BY <1>2, <3>1, <3>2, <3>3 DEF VerInv
  <2>5. StatusInv(r)'
    <3> SUFFICES ASSUME NEW b \in Apps, status'[r][b] # NoStatus
                 PROVE  \/ Pending(r, b)' /\ running'[r][b] = None
                        \/ /\ status'[r][b].cur =
                                IF running'[r][b] = None THEN None ELSE running'[r][b].rev
                           /\ status'[r][b].st = "ready" => running'[r][b] # None
                           /\ status'[r][b].st = "unconfigured" =>
                                \/ running'[r][b] # None \/ Pending(r, b)'
                                \/ ~Configured(log[seen[r]].app[b])
      BY <1>2, <1>3 DEF StatusInv, Configured, Validates
    <3>1. CASE b # a
      BY <1>1, <1>2, <1>9, <3>1 DEF ReplicaInv, StatusInv, Pending
    <3>2. CASE b = a
      <4>1. running'[r][a] = n /\ status'[r][a] = st
        BY <1>9
      <4>2. StatusInv(r)
        BY <1>1 DEF ReplicaInv
      <4>3. CASE st = status[r][a] /\ n = running[r][a] /\ n # None
        BY <3>2, <4>1, <4>2, <4>3 DEF StatusInv
      <4>4. CASE /\ st.cur = IF n = None THEN None ELSE n.rev
                 /\ st.st = "ready" => n # None
                 /\ st.st = "unconfigured" => ~Configured(c)
        BY <3>2, <4>1, <4>4
      <4> QED BY <1>4, <4>3, <4>4
    <3> QED BY <3>1, <3>2
  <2> QED BY <2>1, <2>2, <2>3, <2>4, <2>5 DEF ReplicaInv
<1> QED BY <1>6, <1>7, <1>8, <1>10, <1>11 DEF IInv

\* Third loop: what the list lacks runs no more, so nothing stops here; an edit goes on
\* with the fence of a catalog that runs.
LEMMA SweepEffect ==
  ASSUME IInv, NEW r \in Replicas, Sweep(r)
  PROVE  /\ running' = running
         /\ status' \in [Replicas -> [Apps -> Statuses]]
         /\ \A s \in Replicas : s # r => status'[s] = status[s]
         /\ pc'[r] # "apply" => StatusInv(r)'
<1> DEFINE apps == log[seen[r]].app
<1>1. TypeOK /\ ReplicaInv(r) /\ pc[r] = "apply" /\ todo[r] = {} /\ seen' = seen /\ log' = log
      /\ seen[r] # 0 /\ job[r].op # "delete"
  BY DEF IInv, Sweep, ReplicaInv, SeenInv, JobInv, store
<1>2. /\ running' = [running EXCEPT ![r] = [a \in Apps |-> IF apps[a] = None THEN None ELSE @[a]]]
      /\ status' = [status EXCEPT ![r] = [a \in Apps |-> IF apps[a] = None THEN NoStatus ELSE @[a]]]
  BY DEF Sweep
<1>3. running[r] = [a \in Apps |-> IF apps[a] = None THEN None ELSE running[r][a]]
  BY <1>1 DEF TypeOK, ReplicaInv, FenceInv
<1>4. running' = running
  BY <1>1, <1>2, <1>3 DEF TypeOK
<1>5. NoStatus \in Statuses
  BY DEF NoStatus, Statuses
<1>6. /\ status' \in [Replicas -> [Apps -> Statuses]]
      /\ \A s \in Replicas : s # r => status'[s] = status[s]
      /\ \A a \in Apps : status'[r][a] = IF apps[a] = None THEN NoStatus ELSE status[r][a]
  BY <1>1, <1>2, <1>5 DEF TypeOK
<1>7. ASSUME pc'[r] # "apply" PROVE StatusInv(r)'
  BY <1>1, <1>4, <1>6, <1>7 DEF ReplicaInv, StatusInv, Pending, Configured, Validates
<1> QED BY <1>4, <1>6, <1>7

\* What a job says once its fence is known.
LEMMA FencedJob ==
  ASSUME NEW j \in Jobs, NEW m \in Nat
  PROVE  LET k == [j EXCEPT !.fence = m]
         IN  /\ k \in Jobs /\ k.op = j.op /\ k.id = j.id /\ k.app = j.app /\ k.req = j.req
             /\ k.orig = j.orig /\ k.want = j.want /\ k.base = j.base /\ k.fence = m /\ k.pos = j.pos
  BY DEF Jobs

LEMMA SweepKeeps == ASSUME IInv, NEW r \in Replicas, Sweep(r) PROVE IInv'
<1>1. /\ TypeOK /\ LogInv /\ CommittedHasContract /\ IdInv /\ InflightInv
      /\ \A s \in Replicas : ReplicaInv(s)
  BY DEF IInv
<1>2. /\ UNCHANGED <<log, contracts, inflight, seen, todo, wake, ver, stopping, ops, faults>>
      /\ pc[r] = "apply" /\ todo[r] = {} /\ loaded' = [loaded EXCEPT ![r] = TRUE]
  BY DEF Sweep, store
<1>3. loaded' \in [Replicas -> BOOLEAN]
  BY <1>1, <1>2, Zenon DEF TypeOK
<1>4. seen[r] \in 1 .. Len(log) /\ Len(log) \in Nat /\ log[seen[r]].mark \in Nat
  BY <1>1, <1>2, LogType DEF ReplicaInv, SeenInv
<1>5. /\ running' = running
      /\ status' \in [Replicas -> [Apps -> Statuses]]
      /\ \A s \in Replicas : s # r => status'[s] = status[s]
      /\ pc'[r] # "apply" => StatusInv(r)'
  BY SweepEffect
<1>6. CASE Ends(r, "error")
  <2>1. pc'[r] = "idle"
    BY <1>1, <1>6 DEF Ends, Goto, TypeOK
  <2>2. wake' \in [Replicas -> Nat] /\ wake'[r] \in {0, wake[r]} /\ faults' \in 0 .. MaxFaults
    BY <1>1, <1>2 DEF TypeOK
  <2>3. contracts' \subseteq Revs
    BY <1>1, <1>2 DEF TypeOK
  <2> QED BY <1>2, <1>3, <1>4, <1>5, <1>6, <2>1, <2>2, <2>3, EndKeeps
<1>7. CASE /\ Edits(job[r].op) /\ Converged(r, log[seen[r]].app)
           /\ Goto(r, "get") /\ job' = [job EXCEPT ![r].fence = log[seen[r]].mark] /\ UNCHANGED answer
  <2> DEFINE j == [job[r] EXCEPT !.fence = log[seen[r]].mark]
  <2>1. /\ j \in Jobs /\ j.op = job[r].op /\ j.id = job[r].id /\ j.app = job[r].app /\ j.req = job[r].req
        /\ j.base = job[r].base /\ j.fence = log[seen[r]].mark
    <3>1. job[r] \in Jobs /\ log[seen[r]].mark \in Nat
      BY <1>1, <1>4 DEF TypeOK
    <3> QED BY <3>1, FencedJob
  <2>2. /\ pc' = [pc EXCEPT ![r] = "get"] /\ job' = [job EXCEPT ![r] = j]
        /\ pc'[r] = "get" /\ job'[r] = j
        /\ \A s \in Replicas : s # r => job'[s] = job[s] /\ pc'[s] = pc[s]
    BY <1>1, <1>7 DEF Goto, TypeOK
  <2> HIDE DEF j
  <2>3. TypeOK'
    BY <1>1, <1>2, <1>3, <1>5, <1>7, <2>1, <2>2 DEF TypeOK
  <2>4. Grows /\ LogInv' /\ CommittedHasContract' /\ InflightInv'
    BY <1>1, <1>2, GlobalsKeep
  <2>5. IdInv'
    <3>1. \A s \in Replicas : job'[s].id \in {0, job[s].id}
      BY <2>1, <2>2
    <3> QED BY <1>1, <1>2, <3>1, IdKeeps
  <2>6. ASSUME NEW s \in Replicas, s # r PROVE ReplicaInv(s)'
    BY <1>1, <1>2, <1>5, <2>2, <2>4, <2>6, OthersKeep
  <2>7. ReplicaInv(r)'
    <3>1. JobInv(r)' /\ PreparedInv(r)'
      BY <1>1, <1>2, <1>7, <2>1, <2>2 DEF ReplicaInv, JobInv, AskedFor, Edits, PreparedInv
    <3>2. SeenInv(r)' /\ VerInv(r)'
      BY <1>1, <1>2, <1>4, <1>5, <2>2 DEF ReplicaInv, SeenInv, VerInv
    <3>3. FenceInv(r)'
      <4>1. \A b \in Apps \ {job[r].app} :
              Configured(log[seen[r]].app[b]) => running[r][b] = log[seen[r]].app[b]
        BY <1>7 DEF Converged, Configured, Current
      <4>2. \A b \in Apps : running[r][b] # None =>
              LET d == log[seen[r]].app[b] IN d # None /\ d.enabled /\ d.domain = running[r][b].domain
        BY <1>1, <1>2, <1>7 DEF ReplicaInv, FenceInv, Edits
      <4> QED BY <1>2, <1>5, <2>1, <2>2, <4>1, <4>2 DEF FenceInv, Configured, Validates
    <3> QED BY <1>5, <2>2, <3>1, <3>2, <3>3 DEF ReplicaInv
  <2> QED BY <2>3, <2>4, <2>5, <2>6, <2>7 DEF IInv
<1> QED BY <1>6, <1>7 DEF Sweep, Edits
-----------------------------------------------------------------------------
(* Create, update and delete                                               *)

\* A step that only ends what r is doing, or records a status for it.
LEMMA FailKeeps ==
  ASSUME IInv, NEW r \in Replicas, NEW how \in {"ok", "same", "error"}, Ends(r, how),
         UNCHANGED <<log, inflight, seen, todo, wake, running, ver, flags, ops>>,
         contracts \subseteq contracts', contracts' \subseteq Revs,
         pc[r] \notin {"idle", "list", "apply"}, faults' \in 0 .. MaxFaults,
         \/ UNCHANGED status
         \/ \E c \in Records, f \in BOOLEAN :
              /\ job[r].app \in Apps /\ Validates(c) /\ (~f /\ c.enabled => running[r][job[r].app] # None)
              /\ status' = [status EXCEPT ![r][job[r].app] = Recorded(c, running[r][job[r].app], f)]
  PROVE  IInv'
<1>1. TypeOK /\ ReplicaInv(r) /\ seen[r] # 0 /\ StatusInv(r)
  BY DEF IInv, ReplicaInv, SeenInv
<1>2. /\ status' \in [Replicas -> [Apps -> Statuses]]
      /\ \A s \in Replicas : s # r => status'[s] = status[s]
      /\ StatusInv(r)'
  <2>1. CASE UNCHANGED status
    <3>1. pc'[r] = "idle"
      BY <1>1 DEF Ends, Goto, TypeOK
    <3> QED BY <1>1, <2>1, <3>1 DEF TypeOK, StatusInv, Pending, Configured, Validates
  <2>2. ASSUME NEW c \in Records, NEW f \in BOOLEAN,
               job[r].app \in Apps, Validates(c), ~f /\ c.enabled => running[r][job[r].app] # None,
               status' = [status EXCEPT ![r][job[r].app] = Recorded(c, running[r][job[r].app], f)]
        PROVE  /\ status' \in [Replicas -> [Apps -> Statuses]]
               /\ \A s \in Replicas : s # r => status'[s] = status[s]
               /\ StatusInv(r)'
    BY <1>1, <2>2, RecordKeeps
  <2> QED BY <2>1, <2>2
<1>3. wake' \in [Replicas -> Nat] /\ wake'[r] \in {0, wake[r]} /\ loaded' \in [Replicas -> BOOLEAN]
  BY <1>1 DEF TypeOK, flags
<1> QED BY <1>1, <1>2, <1>3, EndKeeps DEF flags

\* A status recorded by an update that fails after its record was read.
LEMMA FailureRecordedKeeps ==
  ASSUME IInv, NEW r \in Replicas, Prepared(job[r]), Edits(job[r].op) \/ job[r].op = "delete", FailureRecorded(r)
  PROVE  \/ UNCHANGED status
         \/ \E c \in Records, f \in BOOLEAN :
              /\ job[r].app \in Apps /\ Validates(c) /\ (~f /\ c.enabled => running[r][job[r].app] # None)
              /\ status' = [status EXCEPT ![r][job[r].app] = Recorded(c, running[r][job[r].app], f)]
<1>1. TypeOK /\ ReplicaInv(r) /\ JobInv(r)
  BY DEF IInv, ReplicaInv
<1>2. CASE job[r].op = "update"
  <2>1. /\ job[r].app \in Apps /\ job[r].req \in Requests /\ Validates(job[r].want)
        /\ job[r].want = Patched(job[r].orig, job[r].req)
    BY <1>1, <1>2 DEF JobInv, AskedFor, Edits, Prepared
  <2>2. job[r].orig \in Records
    <3>1. PICK i \in 1 .. Len(log) : log[i].app[job[r].app] = job[r].orig /\ log[i].mod[job[r].app] = job[r].base
      BY <1>2 DEF Prepared
    <3>2. log[i].app[job[r].app] \in Records
      BY <1>2, <2>1, <3>1, LogType DEF IInv, LogInv, Prepared
    <3> QED BY <3>1, <3>2
  <2>3. job[r].want \in Records
    BY <2>1, <2>2, PatchedType
  <2> QED BY <1>2, <2>1, <2>3 DEF FailureRecorded
<1>3. CASE job[r].op # "update"
  BY <1>3 DEF FailureRecorded
<1> QED BY <1>2, <1>3

LEMMA GetFailsKeeps == ASSUME IInv, NEW r \in Replicas, GetFails(r) PROVE IInv'
<1>1. TypeOK
  BY DEF IInv
<1>2. faults' \in 0 .. MaxFaults
  BY <1>1, FaultType DEF GetFails
<1> QED BY <1>1, <1>2, FailKeeps DEF GetFails, store, local, TypeOK

\* A step of an operation that goes on: only what it knows changes.
LEMMA ContinueKeeps ==
  ASSUME IInv, NEW r \in Replicas, NEW p \in {"make", "put", "catalog", "commit"}, NEW j \in Jobs,
         pc' = [pc EXCEPT ![r] = p], job' = [job EXCEPT ![r] = j],
         pc[r] \in {"get", "make", "put", "catalog"},
         j.op = job[r].op, j.id = job[r].id, j.app = job[r].app, j.req = job[r].req,
         Edits(j.op) => j.fence = job[r].fence, p \in {"make", "put"} => Edits(j.op), p = "catalog" => j.op = "delete",
         p = "put" => j.req.idl # None, j.op = "create" => j.base = 0,
         UNCHANGED <<log, inflight, seen, todo, wake, running, ver, status, loaded, stopping, answer, ops, faults>>,
         contracts \subseteq contracts', contracts' \subseteq Revs,
         Prepared(j), p = "commit" /\ j.op # "delete" => j.want.rev \in contracts'
  PROVE  IInv'
<1>1. /\ TypeOK /\ LogInv /\ CommittedHasContract /\ IdInv /\ InflightInv
      /\ \A s \in Replicas : ReplicaInv(s)
  BY DEF IInv
<1>2. TypeOK'
  BY <1>1 DEF TypeOK
<1>3. Grows /\ LogInv' /\ CommittedHasContract' /\ InflightInv'
  BY <1>1, GlobalsKeep
<1>4. /\ pc'[r] = p /\ job'[r] = j
      /\ \A s \in Replicas : s # r => job'[s] = job[s] /\ pc'[s] = pc[s]
  BY <1>1 DEF TypeOK
<1>5. IdInv'
  <2>1. \A s \in Replicas : job'[s].id \in {0, job[s].id}
    BY <1>4
  <2> QED BY <1>1, <2>1, IdKeeps
<1>6. ASSUME NEW s \in Replicas, s # r PROVE ReplicaInv(s)'
  BY <1>1, <1>3, <1>4, <1>6, OthersKeep
<1>7. ReplicaInv(r)'
  <2>1. Prepared(j)' /\ (p = "commit" => Complete(j)')
    BY <1>1, <1>3, PreparedStays DEF Complete
  <2>2. JobInv(r)'
    BY <1>1, <1>4 DEF ReplicaInv, JobInv, AskedFor, Edits
  <2>3. PreparedInv(r)'
    BY <1>4, <2>1 DEF PreparedInv, Complete, Prepared
  <2>4. SeenInv(r)' /\ VerInv(r)'
    BY <1>1, <1>4 DEF ReplicaInv, SeenInv, VerInv
  <2>5. FenceInv(r)'
    <3>1. pc[r] = "catalog" => j.op = "delete"
      BY <1>1 DEF ReplicaInv, JobInv
    <3>2. FenceInv(r) /\ seen'[r] = seen[r] /\ running'[r] = running[r] /\ log' = log
      BY <1>1 DEF ReplicaInv
    <3>3. /\ Edits(j.op) /\ p \in {"get", "make", "put", "commit"} =>
                Edits(job[r].op) /\ pc[r] \in {"get", "make", "put", "commit"}
          /\ j.op # "delete" /\ p \in {"apply", "get", "make", "put"} =>
                job[r].op # "delete" /\ pc[r] \in {"apply", "get", "make", "put"}
      BY <1>4, <3>1 DEF Edits
    <3> HIDE DEF Edits
    <3> QED BY <1>4, <3>2, <3>3 DEF FenceInv, Configured, Validates
  <2>6. StatusInv(r)'
    BY <1>1, <1>4 DEF ReplicaInv, StatusInv, Pending, Configured, Validates
  <2> QED BY <2>2, <2>3, <2>4, <2>5, <2>6 DEF ReplicaInv
<1> QED BY <1>2, <1>3, <1>5, <1>6, <1>7 DEF IInv

\* Store.Get: the record a create must not find and the others must.
LEMMA GetKeeps == ASSUME IInv, NEW r \in Replicas, Get(r) PROVE IInv'
<1> DEFINE a == job[r].app
<1> DEFINE c == Tip.app[a]
<1>1. /\ TypeOK /\ LogInv /\ ReplicaInv(r) /\ JobInv(r) /\ AskedFor(job[r]) /\ pc[r] = "get"
      /\ Edits(job[r].op) \/ job[r].op = "delete"
  BY DEF IInv, ReplicaInv, JobInv, Get
<1>2. UNCHANGED <<log, contracts, inflight, seen, todo, wake, running, ver, status, loaded, stopping, ops, faults>>
  BY DEF Get, store, local, flags
<1>3. /\ job[r] \in Jobs /\ a \in Apps /\ Len(log) \in 1 .. Len(log) /\ Tip = log[Len(log)]
      /\ c \in Records \cup {None} /\ Tip.mod[a] \in Nat /\ ((Tip.mod[a] = 0) <=> (c = None))
  <2>1. job[r] \in Jobs /\ a \in Apps
    BY <1>1 DEF TypeOK, AskedFor, Edits
  <2>2. Len(log) \in 1 .. Len(log) /\ Tip = log[Len(log)]
    BY <1>1, LogType
  <2> QED BY <1>1, <2>1, <2>2, LogType DEF LogInv
<1>4. faults' \in 0 .. MaxFaults /\ contracts' \subseteq Revs
  BY <1>1, <1>2 DEF TypeOK
<1>5. CASE /\ job[r].op = "create" /\ c = None
           /\ job' = [job EXCEPT ![r].want = Created(job[r].req)]
           /\ Goto(r, "make") /\ UNCHANGED answer
  <2> DEFINE w == Created(job[r].req)
  <2> DEFINE j == [job[r] EXCEPT !.want = w]
  <2>1. w \in Records
    BY <1>1, <1>5, CreatedType DEF AskedFor, Edits
  <2> HIDE DEF w
  <2>2. /\ j \in Jobs /\ j.op = job[r].op /\ j.id = job[r].id /\ j.app = a /\ j.req = job[r].req
        /\ j.want = w /\ j.base = job[r].base /\ j.fence = job[r].fence
    BY <1>3, <2>1 DEF Jobs
  <2>3. job' = [job EXCEPT ![r] = j] /\ pc' = [pc EXCEPT ![r] = "make"]
    BY <1>5 DEF Goto, w
  <2> HIDE DEF j
  <2>4. Prepared(j) /\ j.base = 0
    BY <1>1, <1>5, <2>2 DEF Prepared, JobInv, w
  <2> QED BY <1>1, <1>2, <1>4, <1>5, <2>2, <2>3, <2>4, ContinueKeeps DEF Edits
<1>6. CASE /\ job[r].op = "update" /\ c # None /\ Validates(Patched(c, job[r].req))
           /\ job' = [job EXCEPT ![r].want = Patched(c, job[r].req), ![r].orig = c, ![r].base = Tip.mod[a]]
           /\ Goto(r, "make") /\ UNCHANGED answer
  <2> DEFINE w == Patched(c, job[r].req)
  <2> DEFINE j == [job[r] EXCEPT !.want = w, !.orig = c, !.base = Tip.mod[a]]
  <2>1. w \in Records /\ Validates(w) /\ w = Patched(c, job[r].req)
    BY <1>1, <1>3, <1>6, PatchedType DEF AskedFor, Edits
  <2> HIDE DEF w
  <2>2. /\ j \in Jobs /\ j.op = job[r].op /\ j.id = job[r].id /\ j.app = a /\ j.req = job[r].req
        /\ j.want = w /\ j.orig = c /\ j.base = Tip.mod[a] /\ j.fence = job[r].fence
    BY <1>3, <2>1 DEF Jobs
  <2>3. job' = [job EXCEPT ![r] = j] /\ pc' = [pc EXCEPT ![r] = "make"]
    BY <1>1, <1>6 DEF Goto, w, TypeOK
  <2> HIDE DEF j
  <2>4. Prepared(j)
    BY <1>3, <1>6, <2>1, <2>2 DEF Prepared
  <2> QED BY <1>1, <1>2, <1>4, <1>6, <2>2, <2>3, <2>4, ContinueKeeps DEF Edits
<1>7. CASE /\ job[r].op = "delete" /\ c # None
           /\ job' = [job EXCEPT ![r].base = Tip.mod[a]]
           /\ Goto(r, "catalog") /\ UNCHANGED answer
  <2> DEFINE j == [job[r] EXCEPT !.base = Tip.mod[a]]
  <2>1. /\ j \in Jobs /\ j.op = job[r].op /\ j.id = job[r].id /\ j.app = a /\ j.req = job[r].req
        /\ j.base = Tip.mod[a] /\ j.fence = job[r].fence
    BY <1>3 DEF Jobs
  <2>2. job' = [job EXCEPT ![r] = j] /\ pc' = [pc EXCEPT ![r] = "catalog"]
    BY <1>7 DEF Goto
  <2> HIDE DEF j
  <2>3. Prepared(j)
    BY <1>3, <1>7, <2>1 DEF Prepared
  <2> QED BY <1>1, <1>2, <1>4, <1>7, <2>1, <2>2, <2>3, ContinueKeeps DEF Edits
<1>8. CASE Ends(r, "error")
  BY <1>1, <1>2, <1>4, <1>8, FailKeeps DEF flags
<1> QED BY <1>5, <1>6, <1>7, <1>8 DEF Get

\* Delete takes its fence.
LEMMA DeleteCatalogKeeps == ASSUME IInv, NEW r \in Replicas, DeleteCatalog(r) PROVE IInv'
<1> DEFINE j == [job[r] EXCEPT !.fence = Tip.mark]
<1>1. /\ TypeOK /\ LogInv /\ pc[r] = "catalog" /\ job[r].op = "delete" /\ Prepared(job[r])
  BY DEF IInv, ReplicaInv, JobInv, PreparedInv, DeleteCatalog
<1>2. /\ UNCHANGED <<log, contracts, inflight, seen, todo, wake, running, ver, status, loaded, stopping,
                     answer, ops, faults>>
      /\ pc' = [pc EXCEPT ![r] = "commit"] /\ job' = [job EXCEPT ![r] = j]
  BY DEF DeleteCatalog, Goto, store, local, flags
<1>3. contracts' \subseteq Revs
  BY <1>1, <1>2 DEF TypeOK
<1>4. /\ j \in Jobs /\ j.op = job[r].op /\ j.id = job[r].id /\ j.app = job[r].app /\ j.req = job[r].req
      /\ j.base = job[r].base
  <2>1. job[r] \in Jobs /\ Tip.mark \in Nat
    BY <1>1, LogType DEF TypeOK, Catalogs
  <2> QED BY <2>1, FencedJob
<1> HIDE DEF j
<1>5. Prepared(j)
  BY <1>1, <1>4 DEF Prepared
<1> QED BY <1>1, <1>2, <1>3, <1>4, <1>5, ContinueKeeps DEF Edits

\* Resolving and building the new revision, or finding nothing to do.
LEMMA MakeKeeps == ASSUME IInv, NEW r \in Replicas, Make(r) PROVE IInv'
<1> DEFINE j == job[r]
<1>1. /\ TypeOK /\ LogInv /\ pc[r] = "make" /\ Edits(j.op) /\ Prepared(j) /\ JobInv(r) /\ j \in Jobs
  BY DEF IInv, ReplicaInv, JobInv, PreparedInv, Make, TypeOK
<1>2. UNCHANGED <<log, contracts, inflight, seen, todo, wake, running, ver, loaded, stopping, ops>>
  BY DEF Make, store, flags
<1>3. contracts' \subseteq Revs
  BY <1>1, <1>2 DEF TypeOK
<1>4. faults' \in 0 .. MaxFaults
  BY <1>1, FaultType DEF Make
<1>5. CASE /\ Unchanged(r) /\ Ends(r, "same")
           /\ status' = [status EXCEPT ![r][j.app] = Recorded(j.want, running[r][j.app], FALSE)]
  <2>1. /\ j.app \in Apps /\ j.want \in Records /\ Validates(j.want)
        /\ j.want.enabled => running[r][j.app] # None
    <3>1. j.op = "update" /\ j.want = j.orig /\ (j.want.enabled => running[r][j.app] # None)
      BY <1>5 DEF Unchanged
    <3>2. PICK i \in 1 .. Len(log) : log[i].app[j.app] = j.orig /\ log[i].mod[j.app] = j.base
      BY <1>1, <3>1 DEF Prepared
    <3>3. j.app \in Apps /\ Validates(j.want) /\ j.base # 0
      BY <1>1, <3>1 DEF JobInv, AskedFor, Edits, Prepared
    <3>4. log[i].app[j.app] \in Records
      BY <1>1, <3>2, <3>3, LogType DEF LogInv
    <3> QED BY <3>1, <3>2, <3>3, <3>4
  <2> QED BY <1>1, <1>2, <1>3, <1>4, <1>5, <2>1, FailKeeps DEF flags
<1>6. CASE /\ j.req.idl # None \/ j.want.rev \in contracts
           /\ Goto(r, IF j.req.idl # None THEN "put" ELSE "commit")
           /\ UNCHANGED <<job, answer, status, faults>>
  <2>1. job' = [job EXCEPT ![r] = j]
    BY <1>1, <1>6 DEF TypeOK
  <2>2. j.op = "create" => j.base = 0
    BY <1>1 DEF JobInv
  <2>3. CASE j.req.idl # None
    BY <1>1, <1>2, <1>3, <1>6, <2>1, <2>2, <2>3, ContinueKeeps DEF Edits, Goto
  <2>4. CASE j.req.idl = None
    BY <1>1, <1>2, <1>3, <1>6, <2>1, <2>2, <2>4, ContinueKeeps DEF Edits, Goto
  <2> QED BY <2>3, <2>4
<1>7. CASE FailureRecorded(r) /\ Ends(r, "error")
  BY <1>1, <1>2, <1>3, <1>4, <1>7, FailureRecordedKeeps, FailKeeps DEF flags
<1> QED BY <1>5, <1>6, <1>7 DEF Make

\* PutContract comes before the transaction.
LEMMA PutKeeps == ASSUME IInv, NEW r \in Replicas, Put(r) PROVE IInv'
<1> DEFINE j == job[r]
<1>1. /\ TypeOK /\ LogInv /\ pc[r] = "put" /\ Edits(j.op) /\ Prepared(j) /\ JobInv(r) /\ j \in Jobs
  BY DEF IInv, ReplicaInv, JobInv, PreparedInv, Put, TypeOK
<1>2. /\ UNCHANGED <<log, inflight, seen, todo, wake, running, ver, loaded, stopping, ops>>
      /\ contracts' \in {contracts, contracts \cup {j.want.rev}}
  BY DEF Put, Stored, store, flags
<1>3. j.want.rev \in Revs
  <2>1. j.req.idl # None /\ j.req \in Requests /\ j.app \in Apps /\ j.req.idl \in Revs
    BY <1>1, RequestsAssumption DEF JobInv, AskedFor
  <2>2. j.op = "create" => j.want.rev = j.req.idl
    BY <1>1 DEF Prepared, Created
  <2>3. j.op = "update" => j.want.rev = j.req.idl
    BY <1>1, <2>1 DEF Prepared, Patched, Or
  <2> QED BY <1>1, <2>1, <2>2, <2>3 DEF Edits
<1>4. contracts \subseteq contracts' /\ contracts' \subseteq Revs
  BY <1>1, <1>2, <1>3 DEF TypeOK
<1>5. faults' \in 0 .. MaxFaults
  BY <1>1, FaultType DEF Put
<1>6. CASE /\ contracts' = Stored(j.want.rev) /\ Goto(r, "commit")
           /\ UNCHANGED <<job, answer, status, faults>>
  <2>1. job' = [job EXCEPT ![r] = j] /\ j.want.rev \in contracts'
    BY <1>1, <1>6 DEF TypeOK, Stored
  <2>2. j.op = "create" => j.base = 0
    BY <1>1 DEF JobInv
  <2> QED BY <1>1, <1>2, <1>4, <1>6, <2>1, <2>2, ContinueKeeps DEF Edits, Goto
<1>7. CASE FailureRecorded(r) /\ Ends(r, "error")
  BY <1>1, <1>2, <1>4, <1>5, <1>7, FailureRecordedKeeps, FailKeeps DEF flags
<1> QED BY <1>6, <1>7 DEF Put
-----------------------------------------------------------------------------
(* The transaction                                                         *)

\* The log after a transaction Consul accepts, sent by r or left behind by somebody.
LEMMA TransactionKeepsLog ==
  ASSUME IInv, NEW t \in Jobs, t \in inflight \/ (\E r \in Replicas : t = job[r] /\ pc[r] = "commit"),
         Accepts(t), log' = Append(log, Committed(t)), contracts' = contracts
  PROVE  /\ Grows /\ LogInv' /\ CommittedHasContract'
         /\ Len(log') = Len(log) + 1 /\ t.app \in Apps
         /\ Tip' = Committed(t)
         /\ Tip'.app = [Tip.app EXCEPT ![t.app] = IF t.op = "delete" THEN None ELSE t.want]
         /\ log'[Len(log')].app[t.app] = IF t.op = "delete" THEN None ELSE t.want
<1>1. TypeOK /\ LogInv /\ CommittedHasContract
  BY DEF IInv
<1>2. AskedFor(t) /\ Complete(t) /\ (Edits(t.op) \/ t.op = "delete")
  BY DEF IInv, InflightInv, ReplicaInv, JobInv, PreparedInv
<1> QED BY <1>1, <1>2, CommitKeepsLog, CompleteType

\* A transaction that was given up, if it was sent at all.
LEMMA GivenUp ==
  ASSUME IInv, NEW r \in Replicas, log' = log, contracts' = contracts, ops' = ops,
         \/ inflight' = inflight
         \/ pc[r] = "commit" /\ inflight' = inflight \cup {job[r]},
         job'[r].id = 0, \A s \in Replicas : s # r => job'[s] = job[s]
  PROVE  /\ inflight' \subseteq Jobs /\ Grows /\ LogInv' /\ CommittedHasContract' /\ InflightInv' /\ IdInv'
<1>1. /\ TypeOK /\ LogInv /\ CommittedHasContract /\ IdInv /\ InflightInv /\ ReplicaInv(r)
  BY DEF IInv
<1>2. inflight' \subseteq Jobs
  BY <1>1 DEF TypeOK
<1>3. Grows /\ LogInv' /\ CommittedHasContract'
  <2>1. Grows
    BY <1>1, SameLogGrows
  <2> QED BY <1>1, <2>1 DEF LogInv, CommittedHasContract
<1>4. InflightInv'
  <2> SUFFICES ASSUME NEW t \in inflight'
               PROVE  (Edits(t.op) \/ t.op = "delete") /\ AskedFor(t) /\ Complete(t)'
    BY DEF InflightInv, AskedFor
  <2>1. (Edits(t.op) \/ t.op = "delete") /\ AskedFor(t) /\ Complete(t)
    BY <1>1 DEF InflightInv, ReplicaInv, JobInv, PreparedInv
  <2> QED BY <1>1, <1>3, <2>1, PreparedStays DEF Complete
<1>5. IdInv'
  <2>1. /\ ops \in Nat /\ \A s \in Replicas : job[s].id \in Nat
        /\ pc[r] = "commit" => job[r].id # 0
    BY <1>1, BoundsAssumption DEF TypeOK, Jobs, ReplicaInv, JobInv
  <2>2. \A t \in inflight' : t.id \in 1 .. ops /\ (t \in inflight \/ t = job[r])
    BY <1>1, <2>1 DEF IdInv
  <2>3. \A s \in Replicas : job'[s].id \in {0, job[s].id} /\ (s = r => job'[s].id = 0)
    OBVIOUS
  <2>4. /\ \A s \in Replicas : job'[s].id <= ops
        /\ \A s, u \in Replicas : s # u /\ job'[s].id # 0 => job'[s].id # job'[u].id
    BY <1>1, <2>1, <2>3 DEF IdInv
  <2>5. \A t \in inflight', s \in Replicas : t.id # job'[s].id
    BY <1>1, <2>1, <2>2, <2>3 DEF IdInv
  <2>6. \A t, u \in inflight' : t.id = u.id => t = u
    BY <1>1, <2>2 DEF IdInv
  <2> QED BY <2>2, <2>4, <2>5, <2>6 DEF IdInv
<1> QED BY <1>2, <1>3, <1>4, <1>5

LEMMA CommitKeeps == ASSUME IInv, NEW r \in Replicas, Commit(r) PROVE IInv'
<1> DEFINE t == job[r]
<1>1. /\ TypeOK /\ LogInv /\ CommittedHasContract /\ IdInv /\ InflightInv
      /\ \A s \in Replicas : ReplicaInv(s)
      /\ pc[r] = "commit" /\ t \in Jobs
  BY DEF IInv, Commit, TypeOK
<1>2. UNCHANGED <<contracts, inflight, seen, todo, wake, running, ver, loaded, stopping, ops, faults>>
  BY DEF Commit, flags
<1>3. CASE /\ Accepts(t) /\ log' = Append(log, Committed(t))
           /\ job' = [job EXCEPT ![r].pos = Len(log')]
           /\ Goto(r, "swap") /\ UNCHANGED <<answer, status>>
  <2> DEFINE j == [t EXCEPT !.pos = Len(log')]
  <2>1. /\ Grows /\ LogInv' /\ CommittedHasContract' /\ Len(log') = Len(log) + 1 /\ t.app \in Apps
        /\ log'[Len(log')].app[t.app] = IF t.op = "delete" THEN None ELSE t.want
    BY <1>1, <1>2, <1>3, TransactionKeepsLog
  <2>2. Len(log) \in Nat /\ Len(log') \in Nat
    BY <1>1, <2>1, LogType
  <2>3. /\ j \in Jobs /\ j.op = t.op /\ j.id = t.id /\ j.app = t.app /\ j.req = t.req
        /\ j.orig = t.orig /\ j.want = t.want /\ j.base = t.base /\ j.pos = Len(log')
    BY <1>1, <2>2 DEF Jobs
  <2>4. job' = [job EXCEPT ![r] = j] /\ pc' = [pc EXCEPT ![r] = "swap"]
    BY <1>3 DEF Goto
  <2> HIDE DEF j
  <2>5. TypeOK'
    <3>1. log' \in Seq(Catalogs)
      BY <2>1 DEF Grows
    <3>2. job' \in [Replicas -> Jobs] /\ answer' = answer /\ status' = status
      <4>1. job \in [Replicas -> Jobs]
        BY <1>1 DEF TypeOK
      <4> QED BY <1>3, <2>3, <2>4, <4>1
    <3> QED BY <1>1, <1>2, <2>4, <3>1, <3>2 DEF TypeOK
  <2>6. /\ pc'[r] = "swap" /\ job'[r] = j
        /\ \A s \in Replicas : s # r => job'[s] = job[s] /\ pc'[s] = pc[s]
    BY <1>1, <2>4 DEF TypeOK
  <2>7. IdInv'
    <3>1. \A s \in Replicas : job'[s].id \in {0, job[s].id}
      BY <2>3, <2>6
    <3> QED BY <1>1, <1>2, <3>1, IdKeeps
  <2>8. InflightInv'
    BY <1>1, <1>2, <2>1, PreparedStays DEF InflightInv, Complete, AskedFor
  <2>9. ASSUME NEW s \in Replicas, s # r PROVE ReplicaInv(s)'
    BY <1>1, <1>2, <1>3, <2>1, <2>6, <2>9, OthersKeep
  <2>10. ReplicaInv(r)'
    <3>1. JobInv(r)' /\ PreparedInv(r)' /\ FenceInv(r)'
      <4>1. JobInv(r)' /\ FenceInv(r)'
        BY <1>1, <2>3, <2>6 DEF ReplicaInv, JobInv, AskedFor, Edits, FenceInv
      <4>2. PICK u \in Jobs : u = t /\ Complete(u)
        BY <1>1 DEF ReplicaInv, PreparedInv
      <4>3. PICK k \in Jobs : k = j
        BY <2>3
      <4>4. Complete(u)'
        BY <1>1, <2>1, <4>2, PreparedStays DEF Complete
      <4>5. Complete(k)'
        BY <2>3, <4>2, <4>3, <4>4 DEF Complete, Prepared
      <4> QED BY <2>6, <4>1, <4>3, <4>5 DEF PreparedInv, Complete, Prepared
    <3>2. /\ \A i \in 1 .. Len(log) : log'[i] = log[i]
          /\ seen[r] \in 1 .. Len(log) /\ wake[r] \in 0 .. Len(log)
          /\ \A a \in Apps : ver[r][a] \in 0 .. Len(log)
      BY <1>1, <2>1, <2>2 DEF ReplicaInv, SeenInv, VerInv, Grows, TypeOK
    <3>3. SeenInv(r)'
      BY <1>1, <1>2, <2>1, <2>2, <2>6, <3>2 DEF SeenInv
    <3>4. VerInv(r)'
      BY <1>1, <1>2, <2>1, <2>2, <2>3, <2>6, <3>2 DEF ReplicaInv, VerInv
    <3>5. StatusInv(r)'
      BY <1>1, <1>2, <1>3, <2>6, <3>2 DEF ReplicaInv, StatusInv, Pending, Configured, Validates
    <3> QED BY <3>1, <3>3, <3>4, <3>5 DEF ReplicaInv
  <2> QED BY <2>1, <2>5, <2>7, <2>8, <2>9, <2>10 DEF IInv
<1>4. CASE FailureRecorded(r) /\ Ends(r, "error") /\ UNCHANGED log
  <2>1. Prepared(t) /\ (Edits(t.op) \/ t.op = "delete")
    BY <1>1 DEF ReplicaInv, JobInv, PreparedInv, Complete
  <2>2. contracts' \subseteq Revs /\ faults' \in 0 .. MaxFaults
    BY <1>1, <1>2 DEF TypeOK
  <2> QED BY <1>1, <1>2, <1>4, <2>1, <2>2, FailureRecordedKeeps, FailKeeps DEF flags
<1> QED BY <1>3, <1>4 DEF Commit

\* An answer that does not come leaves the transaction underway.
LEMMA CommitFailsKeeps == ASSUME IInv, NEW r \in Replicas, CommitFails(r) PROVE IInv'
<1>1. /\ TypeOK /\ ReplicaInv(r) /\ \A s \in Replicas : ReplicaInv(s)
      /\ LogInv /\ pc[r] = "commit" /\ FailureRecorded(r)
  BY DEF IInv, CommitFails
<1>2. /\ UNCHANGED <<log, contracts, seen, todo, wake, running, ver, loaded, stopping, ops>>
      /\ inflight' = inflight \cup {job[r]}
      /\ pc' = [pc EXCEPT ![r] = "idle"] /\ job' = [job EXCEPT ![r] = NoJob]
      /\ answer' \in [Replicas -> {"none", "ok", "same", "error"}]
  BY <1>1 DEF CommitFails, Ends, Goto, flags, TypeOK
<1>3. NoJob \in Jobs /\ NoJob.id = 0
  BY BoundsAssumption DEF NoJob, Jobs
<1>4. /\ pc'[r] = "idle" /\ job'[r] = NoJob
      /\ \A s \in Replicas : s # r => job'[s] = job[s] /\ pc'[s] = pc[s]
  BY <1>1, <1>2 DEF TypeOK
<1>5. /\ inflight' \subseteq Jobs /\ Grows /\ LogInv' /\ CommittedHasContract' /\ InflightInv' /\ IdInv'
  BY <1>1, <1>2, <1>3, <1>4, GivenUp
<1>6. /\ status' \in [Replicas -> [Apps -> Statuses]]
      /\ \A s \in Replicas : s # r => status'[s] = status[s]
      /\ StatusInv(r)'
  <2>1. Prepared(job[r]) /\ (Edits(job[r].op) \/ job[r].op = "delete") /\ StatusInv(r) /\ seen[r] # 0
    BY <1>1 DEF ReplicaInv, JobInv, PreparedInv, Complete, SeenInv
  <2>2. CASE UNCHANGED status
    BY <1>1, <1>2, <1>4, <2>1, <2>2 DEF TypeOK, StatusInv, Pending, Configured, Validates
  <2>3. ASSUME NEW c \in Records, NEW f \in BOOLEAN,
               job[r].app \in Apps, Validates(c), ~f /\ c.enabled => running[r][job[r].app] # None,
               status' = [status EXCEPT ![r][job[r].app] = Recorded(c, running[r][job[r].app], f)]
        PROVE  /\ status' \in [Replicas -> [Apps -> Statuses]]
               /\ \A s \in Replicas : s # r => status'[s] = status[s]
               /\ StatusInv(r)'
    BY <1>1, <1>2, <2>1, <2>3, RecordKeeps
  <2> QED BY <1>1, <2>1, <2>2, <2>3, FailureRecordedKeeps
<1>7. faults' \in 0 .. MaxFaults
  BY <1>1, FaultType DEF CommitFails
<1>8. TypeOK'
  BY <1>1, <1>2, <1>3, <1>5, <1>6, <1>7 DEF TypeOK
<1>9. ASSUME NEW s \in Replicas, s # r PROVE ReplicaInv(s)'
  BY <1>1, <1>2, <1>4, <1>5, <1>6, <1>9, OthersKeep
<1>10. ReplicaInv(r)'
  <2>1. seen[r] # 0
    BY <1>1 DEF ReplicaInv, SeenInv
  <2> QED BY <1>1, <1>2, <1>4, <1>5, <1>6, <2>1, IdleKeeps
<1> QED BY <1>5, <1>8, <1>9, <1>10 DEF IInv

\* Consul applies a transaction nobody waits for, or finds it out of date.
LEMMA DeliverKeeps == ASSUME IInv, NEW t \in inflight, Deliver(t) PROVE IInv'
<1>1. /\ TypeOK /\ LogInv /\ CommittedHasContract /\ IdInv /\ InflightInv
      /\ \A s \in Replicas : ReplicaInv(s)
      /\ t \in Jobs
  BY DEF IInv, TypeOK
<1>2. /\ UNCHANGED <<contracts, pc, job, seen, todo, wake, running, ver, status, loaded, stopping,
                     answer, ops, faults>>
      /\ inflight' \subseteq inflight
      /\ log' = IF Accepts(t) THEN Append(log, Committed(t)) ELSE log
  BY DEF Deliver, local, flags
<1>3. Grows /\ LogInv' /\ CommittedHasContract' /\ InflightInv'
  <2>1. CASE Accepts(t)
    <3>1. Grows /\ LogInv' /\ CommittedHasContract'
      BY <1>1, <1>2, <2>1, TransactionKeepsLog
    <3>2. InflightInv'
      BY <1>1, <1>2, <3>1, PreparedStays DEF InflightInv, Complete, AskedFor
    <3> QED BY <3>1, <3>2
  <2>2. CASE ~Accepts(t)
    BY <1>1, <1>2, <2>2, GlobalsKeep
  <2> QED BY <2>1, <2>2
<1>4. TypeOK'
  BY <1>1, <1>2, <1>3 DEF TypeOK, Grows
<1>5. IdInv'
  BY <1>1, <1>2, IdKeeps
<1>6. ASSUME NEW s \in Replicas PROVE ReplicaInv(s)'
  BY <1>1, <1>2, <1>3, OthersKeep
<1> QED BY <1>3, <1>4, <1>5, <1>6 DEF IInv

\* The local swap runs what was just committed.
LEMMA SwapKeeps == ASSUME IInv, NEW r \in Replicas, Swap(r) PROVE IInv'
<1> DEFINE j == job[r]
<1> DEFINE a == j.app
<1> DEFINE n == IF j.op = "delete" \/ ~j.want.enabled THEN None ELSE j.want
<1> DEFINE v == IF n = None THEN ver[r][a] ELSE j.pos
<1> DEFINE st == IF j.op = "delete" THEN NoStatus ELSE Recorded(j.want, n, FALSE)
<1>1. /\ TypeOK /\ LogInv /\ CommittedHasContract /\ IdInv /\ InflightInv
      /\ \A s \in Replicas : ReplicaInv(s)
  BY DEF IInv
<1>2. /\ pc[r] = "swap" /\ j \in Jobs /\ AskedFor(j) /\ Complete(j)
      /\ Edits(j.op) \/ j.op = "delete"
  BY <1>1 DEF Swap, ReplicaInv, JobInv, PreparedInv, TypeOK
<1>3. /\ a \in Apps /\ j.pos \in 1 .. Len(log) /\ Len(log) \in Nat
      /\ j.op # "delete" => j.want \in Records /\ j.want # None
      /\ log[j.pos].app[a] = IF j.op = "delete" THEN None ELSE j.want
  BY <1>1, <1>2, LogType, CompleteType DEF ReplicaInv, VerInv
<1>4. /\ UNCHANGED <<log, contracts, inflight, seen, todo, wake, loaded, stopping, ops, faults>>
      /\ pc' = [pc EXCEPT ![r] = "idle"] /\ job' = [job EXCEPT ![r] = NoJob]
      /\ answer' \in [Replicas -> {"none", "ok", "same", "error"}]
      /\ running' = [running EXCEPT ![r][a] = n]
      /\ ver' = [ver EXCEPT ![r][a] = v] /\ status' = [status EXCEPT ![r][a] = st]
  <2>1. /\ UNCHANGED <<log, contracts, inflight, seen, todo, wake, loaded, stopping, ops, faults>>
        /\ pc' = [pc EXCEPT ![r] = "idle"] /\ job' = [job EXCEPT ![r] = NoJob]
        /\ answer' \in [Replicas -> {"none", "ok", "same", "error"}]
    BY <1>1 DEF Swap, Ends, Goto, store, flags, TypeOK
  <2>2. /\ running' = [running EXCEPT ![r][a] = n] /\ status' = [status EXCEPT ![r][a] = st]
    BY DEF Swap, Published
  <2>3. ver' = [ver EXCEPT ![r][a] = IF n = None THEN @ ELSE j.pos]
    BY DEF Swap
  <2>4. ver' = [ver EXCEPT ![r][a] = v]
    BY <1>1, <2>3 DEF TypeOK
  <2> QED BY <2>1, <2>2, <2>4
<1>5. /\ n \in Records \cup {None} /\ v \in Nat /\ v <= j.pos /\ st \in Statuses
      /\ n # None => v = j.pos /\ n = log[v].app[a]
      /\ st = NoStatus \/ /\ st.cur = IF n = None THEN None ELSE n.rev
                          /\ st.st = "ready" => n # None
                          /\ st.st # "unconfigured"
  <2>1. n \in Records \cup {None} /\ (n # None => v = j.pos /\ n = log[v].app[a])
    BY <1>3
  <2>2. v \in Nat /\ v <= j.pos
    BY <1>1, <1>2, <1>3 DEF TypeOK, ReplicaInv, VerInv
  <2>3. NoStatus \in Statuses
    BY DEF NoStatus, Statuses
  <2>4. j.op # "delete" => /\ st \in Statuses /\ st.cur = IF n = None THEN None ELSE n.rev
                           /\ st.st = "ready" => n # None
                           /\ st.st # "unconfigured"
    BY <1>3, <2>1, RecordedType
  <2> QED BY <2>1, <2>2, <2>3, <2>4
<1> HIDE DEF n, v, st
<1>6. NoJob \in Jobs /\ NoJob.id = 0
  BY BoundsAssumption DEF NoJob, Jobs
<1>7. TypeOK'
  <2>1. /\ running' \in [Replicas -> [Apps -> Records \cup {None}]]
        /\ ver' \in [Replicas -> [Apps -> Nat]] /\ status' \in [Replicas -> [Apps -> Statuses]]
    BY <1>1, <1>3, <1>4, <1>5 DEF TypeOK
  <2> QED BY <1>1, <1>4, <1>6, <2>1 DEF TypeOK
<1>8. Grows /\ LogInv' /\ CommittedHasContract' /\ InflightInv'
  BY <1>1, <1>4, GlobalsKeep
<1>9. /\ pc'[r] = "idle" /\ job'[r] = NoJob
      /\ \A b \in Apps : /\ running'[r][b] = IF b = a THEN n ELSE running[r][b]
                         /\ ver'[r][b] = IF b = a THEN v ELSE ver[r][b]
                         /\ status'[r][b] = IF b = a THEN st ELSE status[r][b]
      /\ \A s \in Replicas : s # r => /\ pc'[s] = pc[s] /\ job'[s] = job[s] /\ running'[s] = running[s]
                                      /\ ver'[s] = ver[s] /\ status'[s] = status[s]
  BY <1>1, <1>3, <1>4 DEF TypeOK
<1>10. IdInv'
  <2>1. \A s \in Replicas : job'[s].id \in {0, job[s].id}
    BY <1>6, <1>9
  <2> QED BY <1>1, <1>4, <2>1, IdKeeps
<1>11. ASSUME NEW s \in Replicas, s # r PROVE ReplicaInv(s)'
  BY <1>1, <1>4, <1>8, <1>9, <1>11, OthersKeep
<1>12. ReplicaInv(r)'
  <2>1. JobInv(r)' /\ PreparedInv(r)' /\ FenceInv(r)'
    BY <1>9 DEF JobInv, AskedFor, Edits, NoJob, PreparedInv, FenceInv
  <2>2. SeenInv(r)'
    BY <1>1, <1>2, <1>4, <1>9 DEF ReplicaInv, SeenInv
  <2>3. VerInv(r)'
    <3>1. VerInv(r)
      BY <1>1 DEF ReplicaInv
    <3>2. v \in Nat /\ v <= Len(log) /\ (n # None => v # 0 /\ log[v].app[a] = n)
      BY <1>1, <1>3, <1>5, <3>1 DEF VerInv
    <3> QED BY <1>4, <1>9, <3>1, <3>2 DEF VerInv
  <2>4. StatusInv(r)'
    <3>1. seen[r] # 0
      BY <1>1, <1>2 DEF ReplicaInv, SeenInv
    <3>2. \A b \in Apps : ~Pending(r, b) /\ ~Pending(r, b)'
      BY <1>2, <1>9 DEF Pending
    <3> QED BY <1>1, <1>4, <1>5, <1>9, <3>1, <3>2 DEF ReplicaInv, StatusInv, Configured, Validates
  <2> QED BY <2>1, <2>2, <2>3, <2>4 DEF ReplicaInv
<1> QED BY <1>7, <1>8, <1>10, <1>11, <1>12 DEF IInv
-----------------------------------------------------------------------------
(* The process                                                             *)

LEMMA StopKeeps == ASSUME IInv, NEW r \in Replicas, Stop(r) PROVE IInv'
<1>1. /\ TypeOK /\ LogInv /\ CommittedHasContract /\ IdInv /\ InflightInv
      /\ \A s \in Replicas : ReplicaInv(s)
  BY DEF IInv
<1>2. /\ UNCHANGED <<log, contracts, inflight, pc, job, seen, todo, wake, running, ver, status, loaded, answer, ops>>
      /\ stopping' = [stopping EXCEPT ![r] = TRUE]
  BY DEF Stop, store, local
<1>3. stopping' \in [Replicas -> BOOLEAN]
  BY <1>1, <1>2, Zenon DEF TypeOK
<1>4. faults' \in 0 .. MaxFaults
  BY <1>1, FaultType DEF Stop, Fault
<1>5. TypeOK'
  BY <1>1, <1>2, <1>3, <1>4 DEF TypeOK
<1>6. Grows /\ LogInv' /\ CommittedHasContract' /\ InflightInv'
  BY <1>1, <1>2, GlobalsKeep
<1>7. IdInv'
  BY <1>1, <1>2 DEF IdInv
<1>8. ASSUME NEW s \in Replicas PROVE ReplicaInv(s)'
  BY <1>1, <1>2, <1>6, OthersKeep
<1> QED BY <1>5, <1>6, <1>7, <1>8 DEF IInv

\* A restarted replica knows nothing; its transaction may be underway.
LEMMA RestartKeeps == ASSUME IInv, NEW r \in Replicas, Restart(r) PROVE IInv'
<1>1. /\ TypeOK /\ LogInv /\ CommittedHasContract /\ IdInv /\ InflightInv
      /\ \A s \in Replicas : ReplicaInv(s)
  BY DEF IInv
<1>2. /\ UNCHANGED <<log, contracts, ops>>
      /\ pc' = [pc EXCEPT ![r] = "list"] /\ job' = [job EXCEPT ![r] = Boot]
      /\ seen' = [seen EXCEPT ![r] = 0] /\ todo' = [todo EXCEPT ![r] = {}]
      /\ wake' = [wake EXCEPT ![r] = 0]
      /\ running' = [running EXCEPT ![r] = [a \in Apps |-> None]]
      /\ ver' = [ver EXCEPT ![r] = [a \in Apps |-> 0]]
      /\ status' = [status EXCEPT ![r] = [a \in Apps |-> NoStatus]]
      /\ answer' = [answer EXCEPT ![r] = "none"]
      /\ inflight' = IF pc[r] = "commit" THEN inflight \cup {job[r]} ELSE inflight
  BY DEF Restart, Goto
<1>3. loaded' \in [Replicas -> BOOLEAN] /\ stopping' \in [Replicas -> BOOLEAN]
  <2>1. loaded' = [loaded EXCEPT ![r] = FALSE] /\ stopping' = [stopping EXCEPT ![r] = FALSE]
    BY DEF Restart
  <2> QED BY <1>1, <2>1, Zenon DEF TypeOK
<1>4. faults' \in 0 .. MaxFaults
  BY <1>1, FaultType DEF Restart
<1>5. Boot \in Jobs /\ NoStatus \in Statuses /\ Boot.id = 0
  BY BoundsAssumption DEF Boot, NoJob, Jobs, NoStatus, Statuses
<1>6. /\ pc'[r] = "list" /\ job'[r] = Boot /\ seen'[r] = 0 /\ wake'[r] = 0
      /\ \A a \in Apps : running'[r][a] = None /\ ver'[r][a] = 0 /\ status'[r][a] = NoStatus
  BY <1>1, <1>2 DEF TypeOK
<1>7. \A s \in Replicas : s # r =>
        /\ pc'[s] = pc[s] /\ job'[s] = job[s] /\ seen'[s] = seen[s] /\ todo'[s] = todo[s]
        /\ wake'[s] = wake[s] /\ running'[s] = running[s] /\ ver'[s] = ver[s] /\ status'[s] = status[s]
  BY <1>1, <1>2 DEF TypeOK
<1>8. /\ inflight' \subseteq Jobs /\ Grows /\ LogInv' /\ CommittedHasContract' /\ InflightInv' /\ IdInv'
  BY <1>2, <1>5, <1>6, <1>7, GivenUp
<1>9. TypeOK'
  <2>1. /\ pc' \in [Replicas -> {"idle", "list", "apply", "get", "make", "put", "catalog", "commit", "swap"}]
        /\ job' \in [Replicas -> Jobs] /\ seen' \in [Replicas -> Nat]
        /\ todo' \in [Replicas -> SUBSET Apps] /\ wake' \in [Replicas -> Nat]
        /\ answer' \in [Replicas -> {"none", "ok", "same", "error"}]
    BY <1>1, <1>2, <1>5 DEF TypeOK
  <2>2. /\ running' \in [Replicas -> [Apps -> Records \cup {None}]]
        /\ ver' \in [Replicas -> [Apps -> Nat]] /\ status' \in [Replicas -> [Apps -> Statuses]]
    BY <1>1, <1>2, <1>5 DEF TypeOK
  <2> QED BY <1>1, <1>2, <1>3, <1>4, <1>8, <2>1, <2>2 DEF TypeOK
<1>10. ASSUME NEW s \in Replicas, s # r PROVE ReplicaInv(s)'
  BY <1>1, <1>7, <1>8, <1>10, OthersKeep
<1>11. ReplicaInv(r)'
  <2>1. Len(log') \in Nat
    BY <1>1, <1>2, LogType
  <2> QED BY <1>6, <2>1 DEF ReplicaInv, JobInv, AskedFor, SeenInv, PreparedInv, FenceInv, VerInv, StatusInv,
                           Boot, NoJob, Edits
<1> QED BY <1>8, <1>9, <1>10, <1>11 DEF IInv

LEMMA StutterKeeps == ASSUME IInv, UNCHANGED vars PROVE IInv'
<1>1. /\ TypeOK /\ LogInv /\ CommittedHasContract /\ IdInv /\ InflightInv
      /\ \A s \in Replicas : ReplicaInv(s)
      /\ UNCHANGED <<log, contracts, inflight, pc, job, seen, todo, wake, running, ver, status,
                     loaded, stopping, answer, ops, faults>>
  BY DEF IInv, vars, store, local, flags
<1>2. TypeOK' /\ IdInv'
  BY <1>1 DEF TypeOK, IdInv
<1>3. Grows /\ LogInv' /\ CommittedHasContract' /\ InflightInv'
  BY <1>1, GlobalsKeep
<1>4. ASSUME NEW s \in Replicas PROVE ReplicaInv(s)'
  BY <1>1, <1>3, OthersKeep
<1> QED BY <1>2, <1>3, <1>4 DEF IInv

LEMMA NextInv == IInv /\ [Next]_vars => IInv'
<1> SUFFICES ASSUME IInv, [Next]_vars PROVE IInv'
  OBVIOUS
<1>1. ASSUME NEW r \in Replicas, Progress(r) PROVE IInv'
  BY <1>1, WakeKeeps, WatchBeginKeeps, ListKeeps, ListFailsKeeps, SweepKeeps, ApplyKeeps, GetKeeps,
     GetFailsKeeps, MakeKeeps, PutKeeps, DeleteCatalogKeeps, CommitKeeps, CommitFailsKeeps, SwapKeeps
     DEF Progress
<1>2. ASSUME NEW r \in Replicas, Asked(r) \/ Stop(r) \/ Restart(r) PROVE IInv'
  BY <1>2, AskedKeeps, StopKeeps, RestartKeeps
<1>3. ASSUME NEW t \in inflight, Deliver(t) PROVE IInv'
  BY <1>3, DeliverKeeps
<1>4. CASE UNCHANGED vars
  BY <1>4, StutterKeeps
<1> QED BY <1>1, <1>2, <1>3, <1>4 DEF Next
-----------------------------------------------------------------------------
(* Theorems                                                                *)

\* The invariant holds in every state, whatever the replicas, administrators and
\* faults do.
THEOREM Invariance == Spec => []IInv
  BY InitInv, NextInv, PTL DEF Spec

\* Type correctness of the whole control plane.
THEOREM TypeCorrect == Spec => []TypeOK
<1>1. IInv => TypeOK
  BY DEF IInv
<1> QED BY <1>1, Invariance, PTL

\* A committed record never names a contract that is not completely stored.
THEOREM RecordsComplete == Spec => []CommittedHasContract
<1>1. IInv => CommittedHasContract
  BY DEF IInv
<1> QED BY <1>1, Invariance, PTL

\* What runs is a record that was committed, as it was committed.
THEOREM OnlyCommittedRuns == Spec => []RunningWasCommitted
<1>1. IInv => RunningWasCommitted
  <2> SUFFICES ASSUME IInv, NEW r \in Replicas, NEW a \in Apps, running[r][a] # None
               PROVE  ver[r][a] \in 1 .. Len(log) /\ log[ver[r][a]].app[a] = running[r][a]
    BY DEF RunningWasCommitted
  <2>1. VerInv(r) /\ ver[r][a] \in Nat /\ Len(log) \in Nat
    BY LogType DEF IInv, ReplicaInv, TypeOK
  <2> QED BY <2>1 DEF VerInv
<1> QED BY <1>1, Invariance, PTL

\* From the first loop on nothing runs that the list revokes.
THEOREM RevocationFirst == Spec => []RevokedFirst
<1>1. IInv => RevokedFirst
  BY DEF IInv, ReplicaInv, FenceInv, RevokedFirst
<1> QED BY <1>1, Invariance, PTL

\* Between jobs the console shows the revision that runs.
THEOREM StatusIsTrue == Spec => []StatusShowsRunning
<1>1. IInv => StatusShowsRunning
  BY DEF IInv, ReplicaInv, StatusInv, Pending, StatusShowsRunning
<1> QED BY <1>1, Invariance, PTL

\* A replica the probe calls ready runs what it should.
THEOREM ReadyIsServing == Spec => []ReadyMeansServing
<1>1. IInv => ReadyMeansServing
  <2> SUFFICES ASSUME IInv, NEW r \in Replicas, NEW a \in Apps, pc[r] = "idle", Ready(r),
                      Configured(log[seen[r]].app[a]), running[r][a] = None,
                      status[r][a].st \notin {"none", "disabled"}
               PROVE  FALSE
    BY DEF ReadyMeansServing
  <2>1. StatusInv(r) /\ status[r][a] \in Statuses /\ ~Pending(r, a)
    BY DEF IInv, ReplicaInv, TypeOK, Pending
  <2>2. status[r][a] # NoStatus /\ status[r][a].st \in {"ready", "degraded", "unconfigured"}
    BY <2>1 DEF NoStatus, Statuses
  <2>3. status[r][a].cur = None
    BY <2>1, <2>2 DEF StatusInv
  <2>4. status[r][a].st # "degraded"
    BY <2>3 DEF Ready
  <2> QED BY <2>1, <2>2, <2>4 DEF StatusInv
<1> QED BY <1>1, Invariance, PTL
-----------------------------------------------------------------------------
(* What a step may never do                                                *)

\* What r runs, and the position it knows it from, change in three steps only.
LEMMA RunningChanges ==
  ASSUME IInv, Next, NEW r \in Replicas, job'[r] # Boot
  PROVE  \/ running'[r] = running[r] /\ ver'[r] = ver[r]
         \/ List(r) \/ (\E a \in Apps : Apply(r, a)) \/ Swap(r)
<1>1. TypeOK
  BY DEF IInv
<1>2. ASSUME NEW s \in Replicas, s # r,
             List(s) \/ (\E a \in Apps : Apply(s, a)) \/ Swap(s) \/ Restart(s)
      PROVE  running'[r] = running[r] /\ ver'[r] = ver[r]
  <2>1. CASE List(s)
    BY <1>1, <1>2, <2>1 DEF List, TypeOK
  <2>2. ASSUME NEW a \in Apps, Apply(s, a) PROVE running'[r] = running[r] /\ ver'[r] = ver[r]
    <3>1. PICK n, v : running' = [running EXCEPT ![s][a] = n] /\ ver' = [ver EXCEPT ![s][a] = v]
      BY <2>2, ApplyEffect
    <3> QED BY <1>1, <1>2, <3>1 DEF TypeOK
  <2>3. CASE Swap(s)
    <3>1. \E n, v : running' = [running EXCEPT ![s][job[s].app] = n] /\ ver' = [ver EXCEPT ![s][job[s].app] = v]
      BY <1>1, <2>3 DEF Swap, TypeOK
    <3> QED BY <1>1, <1>2, <3>1 DEF TypeOK
  <2>4. CASE Restart(s)
    BY <1>1, <1>2, <2>4 DEF Restart, TypeOK
  <2> QED BY <1>2, <2>1, <2>2, <2>3, <2>4
<1>3. ~Restart(r)
  BY <1>1 DEF Restart, TypeOK
<1>4. ASSUME NEW s \in Replicas, Sweep(s) PROVE running' = running /\ ver' = ver
  BY <1>4, SweepEffect DEF Sweep
<1>5. ASSUME NEW s \in Replicas,
             \/ Wake(s) \/ WatchBegin(s) \/ ListFails(s) \/ Get(s) \/ GetFails(s) \/ Make(s) \/ Put(s)
             \/ DeleteCatalog(s) \/ Commit(s) \/ CommitFails(s) \/ Asked(s) \/ Stop(s)
      PROVE  running' = running /\ ver' = ver
  BY <1>5 DEF Wake, WatchBegin, ListFails, Get, GetFails, Make, Put, DeleteCatalog, Commit, CommitFails,
              Asked, CreateBegin, UpdateBegin, DeleteBegin, Begin, Stop, local
<1>6. ASSUME NEW t \in inflight, Deliver(t) PROVE running' = running /\ ver' = ver
  BY <1>6 DEF Deliver, local
<1> DEFINE Goal == \/ running'[r] = running[r] /\ ver'[r] = ver[r]
                   \/ List(r) \/ (\E a \in Apps : Apply(r, a)) \/ Swap(r)
<1>7. ASSUME NEW s \in Replicas, Progress(s) PROVE Goal
  <2>1. CASE List(s) \/ (\E a \in Apps : Apply(s, a)) \/ Swap(s)
    BY <1>2, <2>1
  <2>2. CASE Sweep(s)
    BY <1>4, <2>2
  <2> QED BY <1>5, <1>7, <2>1, <2>2 DEF Progress
<1>8. ASSUME NEW s \in Replicas, Asked(s) \/ Stop(s) \/ Restart(s) PROVE Goal
  BY <1>2, <1>3, <1>5, <1>8
<1> QED BY <1>6, <1>7, <1>8 DEF Next

\* A replica never goes back to an older record.
THEOREM HistoryFollowed == Spec => NeverBackwards
<1>1. IInv /\ [Next]_vars =>
        [\A r \in Replicas, a \in Apps : job'[r] # Boot => ver'[r][a] >= ver[r][a]]_vars
  <2> SUFFICES ASSUME IInv, Next, NEW r \in Replicas, NEW a \in Apps, job'[r] # Boot
               PROVE  ver'[r][a] >= ver[r][a]
    OBVIOUS
  <2>1. TypeOK /\ LogInv /\ ReplicaInv(r) /\ ver[r][a] \in Nat /\ Len(log) \in Nat /\ seen[r] \in Nat
    BY LogType DEF IInv, TypeOK
  <2>2. CASE List(r)
    BY <2>1, <2>2 DEF List
  <2>3. ASSUME NEW b \in Apps, Apply(r, b) PROVE ver'[r][a] >= ver[r][a]
    <3>1. PICK v \in {ver[r][b], seen[r]} : ver' = [ver EXCEPT ![r][b] = v]
      BY <2>3, ApplyEffect
    <3>2. pc[r] = "apply"
      BY <2>3 DEF Apply
    <3>3. ver[r][b] \in Nat /\ ver[r][b] <= seen[r]
      BY <2>1, <3>2 DEF ReplicaInv, VerInv, TypeOK
    <3> QED BY <2>1, <3>1, <3>3 DEF TypeOK
  <2>4. CASE Swap(r)
    <3>1. \E v \in {ver[r][job[r].app], job[r].pos} : ver' = [ver EXCEPT ![r][job[r].app] = v]
      <4>1. \E b \in BOOLEAN : ver' = [ver EXCEPT ![r][job[r].app] = IF b THEN ver[r][job[r].app] ELSE job[r].pos]
        BY <2>1, <2>4 DEF Swap, TypeOK
      <4> QED BY <4>1
    <3>2. ver[r][a] <= job[r].pos /\ job[r].pos \in Nat
      BY <2>1, <2>4 DEF ReplicaInv, VerInv, Swap
    <3> QED BY <2>1, <3>1, <3>2 DEF TypeOK
  <2> QED BY <2>1, <2>2, <2>3, <2>4, RunningChanges
<1> QED BY <1>1, Invariance, PTL DEF Spec, NeverBackwards

\* What runs stops only when the log, from what runs on, revokes it.
THEOREM LastKnownGood == Spec => OnlyRevocationStops
<1>1. IInv /\ [Next]_vars =>
        [\A r \in Replicas, a \in Apps :
           running[r][a] # None /\ running'[r][a] = None /\ job'[r] # Boot =>
             \E i \in ver[r][a] .. Len(log) : Revoked(running[r][a], log[i].app[a])]_vars
  <2> SUFFICES ASSUME IInv, Next, NEW r \in Replicas, NEW a \in Apps, job'[r] # Boot,
                      running[r][a] # None, running'[r][a] = None
               PROVE  \E i \in ver[r][a] .. Len(log) : Revoked(running[r][a], log[i].app[a])
    OBVIOUS
  <2>1. TypeOK /\ LogInv /\ ReplicaInv(r) /\ ver[r][a] \in Nat /\ Len(log) \in Nat /\ seen[r] \in Nat
    BY LogType DEF IInv, TypeOK
  <2>2. ver[r][a] <= Len(log)
    BY <2>1 DEF ReplicaInv, VerInv
  <2>3. CASE List(r)
    <3>1. Revoked(running[r][a], log[Len(log)].app[a])
      BY <2>1, <2>3 DEF List, Listed, TypeOK
    <3> QED BY <2>1, <2>2, <3>1
  <2>4. ASSUME NEW b \in Apps, Apply(r, b)
        PROVE  \E i \in ver[r][a] .. Len(log) : Revoked(running[r][a], log[i].app[a])
    <3> DEFINE c == log[seen[r]].app[b]
    <3>1. PICK n \in Records \cup {None} :
            /\ running' = [running EXCEPT ![r][b] = n]
            /\ (n = None /\ ~c.enabled) \/ n = running[r][b] \/ n = c
      <4> DEFINE d == log[seen[r]].app[b]
      <4>1. PICK n \in Records \cup {None}, v \in {ver[r][b], seen[r]}, st \in Statuses :
              /\ running' = [running EXCEPT ![r][b] = n]
              /\ ver' = [ver EXCEPT ![r][b] = v]
              /\ status' = [status EXCEPT ![r][b] = st]
              /\ \/ n = None /\ ~d.enabled
                 \/ n = running[r][b] /\ v = ver[r][b] /\ d.enabled
                 \/ n = d /\ v = seen[r] /\ d.enabled
              /\ \/ /\ st.cur = IF n = None THEN None ELSE n.rev
                    /\ st.st = "ready" => n # None
                    /\ st.st = "unconfigured" => ~Configured(d)
                 \/ st = status[r][b] /\ n = running[r][b] /\ n # None
        BY <2>4, ApplyEffect
      <4> QED BY <4>1
    <3>2. b = a /\ n = None
      BY <2>1, <3>1 DEF TypeOK
    <3>3. Revoked(running[r][a], log[seen[r]].app[a])
      BY <3>1, <3>2 DEF Revoked
    <3>4. seen[r] \in ver[r][a] .. Len(log)
      <4>1. SeenInv(r) /\ VerInv(r) /\ pc[r] = "apply"
        BY <2>1, <2>4 DEF ReplicaInv, Apply
      <4> QED BY <2>1, <4>1 DEF SeenInv, VerInv
    <3> QED BY <3>3, <3>4
  <2>5. CASE Swap(r)
    <3> DEFINE j == job[r]
    <3>1. /\ AskedFor(j) /\ Complete(j) /\ (Edits(j.op) \/ j.op = "delete") /\ j \in Jobs
          /\ j.pos \in 1 .. Len(log) /\ ver[r][a] <= j.pos
          /\ log[j.pos].app[j.app] = IF j.op = "delete" THEN None ELSE j.want
      BY <2>1, <2>5 DEF ReplicaInv, JobInv, PreparedInv, VerInv, Swap, TypeOK
    <3>2. j.app \in Apps /\ (j.op # "delete" => j.want # None)
      BY <2>1, <3>1, CompleteType
    <3>3. running' = [running EXCEPT ![r][j.app] =
                        IF j.op = "delete" \/ ~j.want.enabled THEN None ELSE j.want]
      BY <2>5 DEF Swap
    <3>4. j.app = a /\ (j.op = "delete" \/ ~j.want.enabled)
      BY <2>1, <3>2, <3>3 DEF TypeOK
    <3>5. Revoked(running[r][a], log[j.pos].app[a])
      BY <3>1, <3>4 DEF Revoked
    <3> QED BY <2>1, <3>1, <3>5
  <2> QED BY <2>3, <2>4, <2>5, RunningChanges
<1> QED BY <1>1, Invariance, PTL DEF Spec, OnlyRevocationStops

\* Only the transaction of r takes it from "commit" to "swap".
LEMMA OnlyCommitSwaps ==
  ASSUME IInv, Next, NEW r \in Replicas, pc[r] = "commit", pc'[r] = "swap"
  PROVE  /\ Accepts(job[r]) /\ log' = Append(log, Committed(job[r]))
<1>1. TypeOK
  BY DEF IInv
<1>2. ASSUME NEW s \in Replicas, Progress(s) PROVE s = r /\ Commit(r)
  <2>1. CASE s # r
    BY <1>1, <1>2, <2>1 DEF TypeOK, Progress, Wake, WatchBegin, List, ListFails, Sweep, Apply, Get, GetFails,
                            Make, Put, DeleteCatalog, Commit, CommitFails, Swap, Ends, Goto
  <2>2. CASE s = r
    BY <1>1, <1>2, <2>2 DEF TypeOK, Progress, Wake, WatchBegin, List, ListFails, Sweep, Apply, Get, GetFails,
                            Make, Put, DeleteCatalog, CommitFails, Swap, Ends, Goto
  <2> QED BY <2>1, <2>2
<1>3. ASSUME NEW s \in Replicas, Asked(s) \/ Stop(s) \/ Restart(s) PROVE FALSE
  BY <1>1, <1>3 DEF TypeOK, Asked, CreateBegin, UpdateBegin, DeleteBegin, Begin, Stop, Restart, Goto
<1>4. ASSUME NEW t \in inflight, Deliver(t) PROVE FALSE
  BY <1>4 DEF Deliver
<1>5. Commit(r)
  BY <1>2, <1>3, <1>4 DEF Next
<1> QED BY <1>1, <1>5 DEF Commit, Ends, Goto, TypeOK

\* An edit commits over the catalog it was listed and that runs, and over no other; a
\* delete over the record it read (consul_store.go:149, service.go:303).
THEOREM FencedByIndex == Spec => CommitsAreFenced
<1>1. ASSUME IInv, [Next]_vars, NEW r \in Replicas, pc[r] = "commit", pc'[r] = "swap"
      PROVE  /\ TypeOK /\ LogInv /\ JobInv(r) /\ SeenInv(r) /\ FenceInv(r) /\ PreparedInv(r)
             /\ Len(log) \in Nat \ {0} /\ Tip = log[Len(log)] /\ Accepts(job[r])
             /\ \A i \in 1 .. Len(log) : log[i].mark \in Nat /\ \A a \in Apps : log[i].mod[a] \in Nat
  <2>1. TypeOK /\ LogInv /\ ReplicaInv(r)
    BY <1>1 DEF IInv
  <2>2. Next
    BY <1>1 DEF vars
  <2> QED BY <1>1, <2>1, <2>2, LogType, OnlyCommitSwaps DEF ReplicaInv
<1>2. ASSUME IInv, [Next]_vars, NEW r \in Replicas, pc[r] = "commit", pc'[r] = "swap", job[r].op # "delete"
      PROVE  /\ seen[r] = Len(log)
             /\ \A b \in Apps \ {job[r].app} :
                  Configured(Tip.app[b]) => running[r][b] = Tip.app[b]
  <2>1. Edits(job[r].op) /\ seen[r] \in 1 .. Len(log)
    BY <1>1, <1>2 DEF JobInv, SeenInv
  <2>2. Tip.mark = job[r].fence /\ job[r].fence = log[seen[r]].mark
    BY <1>1, <1>2, <2>1 DEF Accepts, MarkerUnchanged, FenceInv
  <2>3. seen[r] = Len(log)
    BY <1>1, <1>2, <2>1, <2>2 DEF LogInv
  <2> QED BY <1>1, <1>2, <2>1, <2>3 DEF FenceInv
<1>3. ASSUME IInv, [Next]_vars, NEW r \in Replicas, pc[r] = "commit", pc'[r] = "swap", job[r].op = "delete",
             NEW i \in job[r].base .. Len(log)
      PROVE  log[i].app[job[r].app] = log[job[r].base].app[job[r].app]
  <2> DEFINE a == job[r].app
             b == job[r].base
  <2>1. a \in Apps /\ b # 0 /\ Tip.mod[a] = b
    BY <1>1, <1>3 DEF JobInv, AskedFor, PreparedInv, Complete, Prepared, Accepts, RecordUnchanged
  <2>2. b \in 1 .. Len(log) /\ i \in 1 .. Len(log) /\ Len(log) \in 1 .. Len(log)
    BY <1>1, <1>3, <2>1 DEF LogInv
  <2> HIDE DEF a, b
  <2>3. log[Len(log)].mod[a] = b /\ b <= i /\ i <= Len(log)
    BY <1>1, <1>3, <2>1, <2>2 DEF b
  <2>4. ASSUME NEW k \in 1 .. Len(log), b <= k PROVE log[k].mod[a] = b
    <3> DEFINE n == Len(log)
    <3>1. n \in 1 .. Len(log) /\ k <= n /\ log[n].mod[a] # 0 /\ log[n].mod[a] <= k
      BY <1>1, <2>1, <2>2, <2>3, <2>4
    <3> HIDE DEF n
    <3>2. log[k].mod[a] = log[n].mod[a]
      BY <1>1, <1>3, <2>1, <2>4, <3>1 DEF LogInv
    <3> QED BY <2>3, <3>2 DEF n
  <2>5. log[i].app[a] = log[b].app[a]
    <3>1. log[i].mod[a] = log[b].mod[a]
      BY <2>2, <2>3, <2>4
    <3> QED BY <1>1, <1>3, <2>1, <2>2, <3>1 DEF LogInv
  <2> QED BY <2>5 DEF a, b
<1>4. IInv /\ [Next]_vars =>
        [\A r \in Replicas : pc[r] = "commit" /\ pc'[r] = "swap" =>
           LET j == job[r]
           IN  IF j.op = "delete"
               THEN \A i \in j.base .. Len(log) : log[i].app[j.app] = log[j.base].app[j.app]
               ELSE /\ seen[r] = Len(log)
                    /\ \A b \in Apps \ {j.app} :
                         Configured(Tip.app[b]) => running[r][b] = Tip.app[b]]_vars
  BY <1>2, <1>3
<1> QED BY <1>4, Invariance, PTL DEF Spec, CommitsAreFenced
-----------------------------------------------------------------------------
(* The replicas together are one catalog                                   *)

\* The refinement mapping.
Calls == [r \in Replicas |-> IF job[r].id # 0 THEN CallOf(job[r]) ELSE None]
Effective == [r \in Replicas |-> pc[r] = "swap"]
Orphans == {CallOf(t) : t \in inflight}

LEMMA MapInit == ASSUME Init PROVE Atomic!Init
<1>1. PICK s \in InitialApps, mark \in {0, 1} :
        /\ log = <<[app |-> s, mark |-> mark, val |-> mark,
                    mod |-> [a \in Apps |-> IF s[a] = None THEN 0 ELSE 1]]>>
        /\ contracts = {s[a].rev : a \in {b \in Apps : s[b] # None}} \cap Revs
  BY DEF Init
<1>2. Tip.app = s
  BY <1>1 DEF Tip
<1>3. \A a \in Apps : s[a] # None /\ s[a].rev \in Revs => s[a].rev \in contracts
  BY <1>1
<1>4. Calls = [r \in Replicas |-> None] /\ Effective = [r \in Replicas |-> FALSE] /\ Orphans = {}
  BY DEF Init, Calls, Effective, Orphans, Boot, NoJob
<1> QED BY <1>2, <1>3, <1>4 DEF Atomic!Init, Calls, Effective, Orphans, Init

\* Steps the administrators do not see.
LEMMA MapStutter ==
  ASSUME TypeOK, UNCHANGED <<log, contracts, inflight, answer>>,
         \A s \in Replicas : /\ \/ job'[s].id = 0 /\ job[s].id = 0
                                \/ /\ job'[s].id = job[s].id /\ job'[s].op = job[s].op
                                   /\ job'[s].app = job[s].app /\ job'[s].req = job[s].req
                             /\ (pc'[s] = "swap") <=> (pc[s] = "swap")
  PROVE  UNCHANGED Atomic!vars
<1>1. Calls' = Calls
  BY DEF Calls, CallOf
<1>2. Effective' = Effective
  BY DEF Effective
<1>3. Orphans' = Orphans /\ Tip' = Tip
  BY DEF Orphans, Tip, CallOf
<1> QED BY <1>1, <1>2, <1>3 DEF Atomic!vars, Calls, Effective, Orphans

\* A call that is underway is one, and different from the others.
LEMMA CallType ==
  ASSUME IInv, NEW r \in Replicas, job[r].id # 0
  PROVE  /\ Calls[r] = CallOf(job[r]) /\ CallOf(job[r]) # None
         /\ CallOf(job[r]).op = job[r].op /\ CallOf(job[r]).app = job[r].app /\ CallOf(job[r]).req = job[r].req
<1>1. /\ job[r].id \in 1 .. MaxOps /\ job[r].op \in {"create", "update", "delete"}
      /\ job[r].app \in Apps /\ job[r].req \in Requests \cup {None}
  BY BoundsAssumption DEF IInv, TypeOK, Jobs, ReplicaInv, JobInv, AskedFor, Edits
<1> QED BY <1>1, NoCallAssumption DEF Calls, CallOf

\* An operation ends, in the terms of the catalog.
LEMMA MapEnds ==
  ASSUME IInv, NEW r \in Replicas, NEW how, Ends(r, how), log' = log, pc[r] # "idle"
  PROVE  /\ Tip' = Tip
         /\ Calls' = [Calls EXCEPT ![r] = None] /\ Effective' = [Effective EXCEPT ![r] = FALSE]
         /\ job[r].id # 0 => answer' = [answer EXCEPT ![r] = how]
         /\ job[r].id = 0 /\ pc[r] # "swap" =>
              answer' = answer /\ Calls' = Calls /\ Effective' = Effective
<1>1. TypeOK /\ JobInv(r)
  BY DEF IInv, ReplicaInv
<1>2. /\ pc'[r] = "idle" /\ job'[r] = NoJob /\ NoJob.id = 0
      /\ \A s \in Replicas : s # r => pc'[s] = pc[s] /\ job'[s] = job[s]
  BY <1>1 DEF Ends, Goto, TypeOK, NoJob
<1>3. Calls' = [Calls EXCEPT ![r] = None]
  BY <1>2 DEF Calls, CallOf
<1>4. Effective' = [Effective EXCEPT ![r] = FALSE]
  <2>1. \A s \in Replicas : (pc'[s] = "swap") = (IF s = r THEN FALSE ELSE pc[s] = "swap")
    BY <1>2
  <2> QED BY <2>1, Zenon DEF Effective
<1>5. (job[r].op \in {"boot", "watch"}) <=> (job[r].id = 0 /\ job[r].op # "none")
  BY <1>1 DEF JobInv, Edits, TypeOK, Jobs
<1>6. job[r].id # 0 => answer' = [answer EXCEPT ![r] = how]
  BY <1>1, <1>5 DEF Ends
<1>7. ASSUME job[r].id = 0, pc[r] # "swap"
      PROVE  answer' = answer /\ Calls' = Calls /\ Effective' = Effective
  <2>1. answer' = answer
    <3>1. job[r].op \in {"boot", "watch"}
      BY <1>1, <1>5, <1>7 DEF JobInv
    <3> QED BY <1>1, <3>1 DEF Ends, TypeOK
  <2>2. Calls' = Calls
    BY <1>3, <1>7 DEF Calls
  <2>3. Effective' = Effective
    BY <1>4, <1>7, Zenon DEF Effective
  <2> QED BY <2>1, <2>2, <2>3
<1> QED BY <1>3, <1>4, <1>6, <1>7 DEF Tip

\* An operation that ends in an error, perhaps with its contract stored and perhaps
\* with its transaction underway.
LEMMA MapFails ==
  ASSUME IInv, NEW r \in Replicas, Ends(r, "error"), log' = log, pc[r] \notin {"idle", "swap"},
         contracts' \in {contracts} \cup {contracts \cup {v} : v \in Revs},
         inflight' = inflight \/ (inflight' = inflight \cup {job[r]} /\ job[r].id # 0),
         job[r].id = 0 => contracts' = contracts
  PROVE  Atomic!Fail(r) \/ UNCHANGED Atomic!vars
<1>1. /\ Tip' = Tip
      /\ Calls' = [Calls EXCEPT ![r] = None] /\ Effective' = [Effective EXCEPT ![r] = FALSE]
      /\ job[r].id # 0 => answer' = [answer EXCEPT ![r] = "error"]
      /\ job[r].id = 0 => answer' = answer /\ Calls' = Calls /\ Effective' = Effective
  BY MapEnds
<1>2. CASE job[r].id # 0
  <2>1. Calls[r] = CallOf(job[r]) /\ Calls[r] # None
    BY <1>2, CallType
  <2>2. Orphans' \in {Orphans, Orphans \cup {Calls[r]}}
    <3>1. CASE inflight' = inflight
      BY <3>1 DEF Orphans, CallOf
    <3>2. CASE inflight' = inflight \cup {job[r]}
      BY <2>1, <3>2 DEF Orphans, CallOf
    <3> QED BY <3>1, <3>2
  <2>3. ~Effective[r]
    BY DEF Effective
  <2> QED BY <1>1, <1>2, <2>1, <2>2, <2>3 DEF Atomic!Fail, Atomic!Answered, Calls, Effective, Orphans
<1>3. CASE job[r].id = 0
  <2>1. Orphans' = Orphans
    BY <1>3 DEF Orphans, CallOf
  <2> QED BY <1>1, <1>3, <2>1 DEF Atomic!vars, Calls, Effective, Orphans
<1> QED BY <1>2, <1>3

\* An operation that ends well.
LEMMA MapSucceeds ==
  ASSUME IInv, NEW r \in Replicas, NEW how \in {"ok", "same"}, Ends(r, how), job[r].id # 0,
         pc[r] # "idle", UNCHANGED <<log, contracts, inflight>>,
         how = IF pc[r] = "swap" THEN "ok" ELSE "same", pc[r] = "swap" \/ job[r].op = "update"
  PROVE  Atomic!Succeed(r)
<1>1. /\ Tip' = Tip
      /\ Calls' = [Calls EXCEPT ![r] = None] /\ Effective' = [Effective EXCEPT ![r] = FALSE]
      /\ answer' = [answer EXCEPT ![r] = how]
  BY MapEnds
<1>2. Calls[r] # None /\ Calls[r].op = job[r].op
  BY CallType
<1>3. Orphans' = Orphans
  BY DEF Orphans, CallOf
<1>4. Effective[r] = (pc[r] = "swap")
  BY DEF Effective
<1>5. answer' = [answer EXCEPT ![r] = IF Effective[r] THEN "ok" ELSE "same"]
  BY <1>1, <1>4
<1>6. Effective[r] \/ Calls[r].op = "update"
  BY <1>2, <1>4
<1> QED BY <1>1, <1>2, <1>3, <1>5, <1>6 DEF Atomic!Succeed, Atomic!Answered, Calls, Effective, Orphans

\* An accepted transaction is the operation it belongs to, on the catalog as it is.
LEMMA MapTransaction ==
  ASSUME IInv, NEW t \in Jobs, t \in inflight \/ (\E r \in Replicas : t = job[r] /\ pc[r] = "commit"),
         Accepts(t), log' = Append(log, Committed(t)), contracts' = contracts
  PROVE  LET c == CallOf(t)
             new == Outcome(t.op, Tip.app[t.app], t.req)
         IN  /\ c.op = t.op /\ c.app = t.app /\ c.req = t.req
             /\ (Tip.app[t.app] = None) = (t.op = "create")
             /\ new # None => new.rev \in contracts
             /\ Tip'.app = [Tip.app EXCEPT ![t.app] = new]
<1>1. TypeOK /\ LogInv
  BY DEF IInv
<1>2. AskedFor(t) /\ Complete(t) /\ (Edits(t.op) \/ t.op = "delete")
  BY DEF IInv, InflightInv, ReplicaInv, JobInv, PreparedInv
<1>3. /\ t.app \in Apps /\ (t.op # "delete" => t.want \in Records /\ t.want # None /\ t.want.rev \in contracts)
      /\ Tip'.app = [Tip.app EXCEPT ![t.app] = IF t.op = "delete" THEN None ELSE t.want]
  BY <1>1, <1>2, CompleteType, TransactionKeepsLog
<1>4. /\ Tip.mod[t.app] = t.base /\ Tip = log[Len(log)] /\ Len(log) \in 1 .. Len(log)
      /\ ((t.base = 0) <=> (Tip.app[t.app] = None))
  BY <1>1, <1>3, LogType DEF Accepts, RecordUnchanged, LogInv
<1>5. (Tip.app[t.app] = None) = (t.op = "create")
  BY <1>2, <1>4 DEF Complete, Prepared, Edits
<1>6. Outcome(t.op, Tip.app[t.app], t.req) = IF t.op = "delete" THEN None ELSE t.want
  <2>1. CASE t.op = "create"
    BY <1>2, <2>1 DEF Outcome, Complete, Prepared
  <2>2. CASE t.op = "update"
    <3>1. PICK i \in 1 .. Len(log) : log[i].app[t.app] = t.orig /\ log[i].mod[t.app] = t.base
      BY <1>2, <2>2 DEF Complete, Prepared
    <3>2. Tip.app[t.app] = t.orig
      BY <1>1, <1>3, <1>4, <3>1 DEF LogInv
    <3> QED BY <1>2, <2>2, <3>2 DEF Outcome, Complete, Prepared
  <2>3. CASE t.op = "delete"
    BY <2>3 DEF Outcome
  <2> QED BY <1>2, <2>1, <2>2, <2>3 DEF Edits
<1> QED BY <1>3, <1>5, <1>6 DEF CallOf

\* A call begins with an identity nobody has.
LEMMA MapBegin ==
  ASSUME IInv, NEW r \in Replicas, NEW o \in {"create", "update", "delete"}, NEW a \in Apps,
         NEW q \in Requests \cup {None}, Begin(r, o, a, q), NEW p \in {"list", "get"}, Goto(r, p)
  PROVE  Atomic!Call(r)
<1> DEFINE c == [id |-> ops + 1, op |-> o, app |-> a, req |-> q]
<1>1. TypeOK /\ IdInv /\ JobInv(r) /\ ops \in Nat /\ MaxOps \in Nat
      /\ \A s \in Replicas : job[s].id \in Nat
  <2>1. TypeOK /\ IdInv /\ JobInv(r)
    BY DEF IInv, ReplicaInv
  <2>2. ops \in Nat /\ MaxOps \in Nat
    BY <2>1, BoundsAssumption DEF TypeOK
  <2>3. \A s \in Replicas : job[s].id \in Nat
    <3>1. \A j \in Jobs : j.id \in Nat
      BY <2>2 DEF Jobs
    <3> QED BY <2>1, <3>1 DEF TypeOK
  <2> QED BY <2>1, <2>2, <2>3
<1>2. /\ pc[r] = "idle" /\ ops < MaxOps /\ ops' = ops + 1
      /\ job' = [job EXCEPT ![r] = [NoJob EXCEPT !.op = o, !.id = ops', !.app = a, !.req = q]]
      /\ answer' = [answer EXCEPT ![r] = "none"] /\ pc' = [pc EXCEPT ![r] = p]
      /\ UNCHANGED <<log, contracts, inflight>>
  BY DEF Begin, Goto, store
<1>3. job[r].id = 0 /\ Calls[r] = None
  BY <1>1, <1>2 DEF JobInv, Calls, Edits
<1>4. /\ job'[r].id = ops + 1 /\ CallOf(job[r])' = c
      /\ \A s \in Replicas : s # r => job'[s] = job[s] /\ pc'[s] = pc[s]
      /\ pc'[r] # "swap"
  BY <1>1, <1>2 DEF TypeOK, NoJob, CallOf
<1>5. Calls' = [Calls EXCEPT ![r] = c]
  <2>1. job'[r].id # 0 /\ CallOf(job'[r]) = c
    BY <1>1, <1>4 DEF CallOf
  <2> HIDE DEF c
  <2>2. \A s \in Replicas : (IF job'[s].id # 0 THEN CallOf(job'[s]) ELSE None) =
                              IF s = r THEN c ELSE Calls[s]
    BY <1>4, <2>1 DEF Calls
  <2>3. Calls' = [s \in Replicas |-> IF job'[s].id # 0 THEN CallOf(job'[s]) ELSE None]
    BY DEF Calls, CallOf
  <2> QED BY <2>2, <2>3 DEF Calls
<1>6. Effective' = Effective
  <2>1. \A s \in Replicas : (pc'[s] = "swap") = (pc[s] = "swap")
    BY <1>2, <1>4
  <2> QED BY <2>1, Zenon DEF Effective
<1>7. Orphans' = Orphans /\ Tip' = Tip
  BY <1>2 DEF Orphans, Tip, CallOf
<1>8. \A d \in Orphans \cup {Calls[s] : s \in Replicas} : d # None => d.id # ops + 1
  <2>1. \A t \in inflight : CallOf(t).id = t.id /\ t.id \in 1 .. ops
    BY <1>1 DEF IdInv, CallOf
  <2>2. \A s \in Replicas : Calls[s] # None => Calls[s].id = job[s].id /\ job[s].id <= ops
    BY <1>1 DEF IdInv, Calls, CallOf
  <2> QED BY <1>1, <2>1, <2>2 DEF Orphans
<1>9. ops + 1 \in 1 .. MaxOps
  BY <1>1, <1>2
<1> HIDE DEF c
<1>10. \E i \in 1 .. MaxOps, u \in {"create", "update", "delete"}, b \in Apps, w \in Requests \cup {None} :
          /\ \A d \in Orphans \cup {Calls[s] : s \in Replicas} : d # None => d.id # i
          /\ Calls' = [Calls EXCEPT ![r] = [id |-> i, op |-> u, app |-> b, req |-> w]]
  BY <1>5, <1>8, <1>9 DEF c
<1> QED BY <1>2, <1>3, <1>6, <1>7, <1>10
        DEF Atomic!Call, Atomic!Operations, Calls, Effective, Orphans

\* The swap of an accepted transaction.
LEMMA MapCommit == ASSUME IInv, NEW r \in Replicas, Commit(r) PROVE Atomic!Next \/ UNCHANGED Atomic!vars
<1> DEFINE t == job[r]
<1>1. /\ TypeOK /\ LogInv /\ JobInv(r) /\ pc[r] = "commit" /\ t \in Jobs /\ t.id # 0
      /\ UNCHANGED <<contracts, inflight>>
  BY DEF IInv, ReplicaInv, JobInv, Commit, TypeOK
<1>2. CASE /\ Accepts(t) /\ log' = Append(log, Committed(t))
           /\ job' = [job EXCEPT ![r].pos = Len(log')]
           /\ Goto(r, "swap") /\ UNCHANGED answer
  <2>1. /\ Calls[r] = CallOf(t) /\ Calls[r] # None /\ Calls[r].op = t.op /\ Calls[r].app = t.app
        /\ Calls[r].req = t.req
    BY <1>1, CallType
  <2>2. LET new == Outcome(t.op, Tip.app[t.app], t.req)
        IN  /\ (Tip.app[t.app] = None) = (t.op = "create")
            /\ new # None => new.rev \in contracts
            /\ Tip'.app = [Tip.app EXCEPT ![t.app] = new]
    BY <1>1, <1>2, MapTransaction
  <2>3. \A s \in Replicas : /\ job'[s].id = job[s].id /\ job'[s].op = job[s].op
                            /\ job'[s].app = job[s].app /\ job'[s].req = job[s].req
    BY <1>1, <1>2 DEF TypeOK, Jobs
  <2>4. Calls' = Calls
    BY <2>3 DEF Calls, CallOf
  <2>5. Effective' = [Effective EXCEPT ![r] = TRUE] /\ ~Effective[r]
    <3>1. \A s \in Replicas : (pc'[s] = "swap") = (IF s = r THEN TRUE ELSE pc[s] = "swap")
      BY <1>1, <1>2 DEF Goto, TypeOK
    <3> QED BY <1>1, <3>1, Zenon DEF Effective
  <2>6. Orphans' = Orphans
    BY <1>1 DEF Orphans, CallOf
  <2>7. Atomic!Happens(Calls[r])
    BY <2>1, <2>2 DEF Atomic!Happens
  <2>8. Atomic!Effect(r)
    BY <1>1, <1>2, <2>1, <2>4, <2>5, <2>6, <2>7 DEF Atomic!Effect, Calls, Effective, Orphans
  <2> QED BY <2>8 DEF Atomic!Next
<1>3. CASE Ends(r, "error") /\ UNCHANGED log
  BY <1>1, <1>3, MapFails DEF Atomic!Next
<1> QED BY <1>2, <1>3 DEF Commit

\* A transaction that was given up takes effect late, or is lost.
LEMMA MapDeliver == ASSUME IInv, NEW t \in inflight, Deliver(t) PROVE Atomic!Next
<1> DEFINE c == CallOf(t)
<1>1. /\ TypeOK /\ IdInv /\ t \in Jobs /\ inflight' = inflight \ {t}
      /\ UNCHANGED <<contracts, pc, job, answer>>
      /\ log' = IF Accepts(t) THEN Append(log, Committed(t)) ELSE log
  BY DEF IInv, Deliver, TypeOK
<1>2. /\ Calls' = Calls /\ Effective' = Effective
      /\ UNCHANGED <<contracts, answer>>
  BY <1>1 DEF Calls, Effective, CallOf
<1>3. Orphans' = Orphans \ {c} /\ c \in Orphans
  <2>1. \A u \in inflight : u # t => CallOf(u) # c
    BY <1>1 DEF IdInv, CallOf
  <2>2. Orphans' = {CallOf(u) : u \in inflight \ {t}}
    BY <1>1 DEF Orphans, CallOf
  <2> HIDE DEF c
  <2>3. c = CallOf(t)
    BY DEF c
  <2> QED BY <2>1, <2>2, <2>3 DEF Orphans
<1>4. CASE Accepts(t)
  <2>1. LET new == Outcome(t.op, Tip.app[t.app], t.req)
        IN  /\ c.op = t.op /\ c.app = t.app /\ c.req = t.req
            /\ (Tip.app[t.app] = None) = (t.op = "create")
            /\ new # None => new.rev \in contracts
            /\ Tip'.app = [Tip.app EXCEPT ![t.app] = new]
    BY <1>1, <1>4, MapTransaction
  <2> HIDE DEF c
  <2>2. Atomic!Happens(c)
    BY <2>1 DEF Atomic!Happens
  <2>3. Atomic!LateEffect(c)
    BY <1>2, <1>3, <2>2 DEF Atomic!LateEffect, Calls, Effective, Orphans
  <2> QED BY <1>3, <2>3 DEF Atomic!Next, Orphans
<1>5. CASE ~Accepts(t)
  <2>1. Tip' = Tip
    BY <1>1, <1>5 DEF Tip
  <2> HIDE DEF c
  <2>2. \E d \in Orphans : Orphans' = Orphans \ {d} /\ Calls' = Calls /\ Effective' = Effective /\ answer' = answer
    BY <1>2, <1>3
  <2> QED BY <1>2, <2>1, <2>2 DEF Atomic!Next, Atomic!Forget, Calls, Effective, Orphans
<1> QED BY <1>4, <1>5

\* A restart forgets the call, whose transaction may be underway.
LEMMA MapRestart == ASSUME IInv, NEW r \in Replicas, Restart(r) PROVE Atomic!Next
<1>1. /\ TypeOK /\ JobInv(r) /\ UNCHANGED <<log, contracts>>
      /\ pc' = [pc EXCEPT ![r] = "list"] /\ job' = [job EXCEPT ![r] = Boot]
      /\ answer' = [answer EXCEPT ![r] = "none"]
      /\ inflight' = IF pc[r] = "commit" THEN inflight \cup {job[r]} ELSE inflight
  BY DEF IInv, ReplicaInv, Restart, Goto
<1>2. Boot.id = 0
  BY DEF Boot, NoJob
<1>3. /\ pc'[r] = "list" /\ job'[r] = Boot
      /\ \A s \in Replicas : s # r => pc'[s] = pc[s] /\ job'[s] = job[s]
  BY <1>1 DEF TypeOK
<1>4. Calls' = [Calls EXCEPT ![r] = None] /\ Tip' = Tip
  BY <1>1, <1>2, <1>3 DEF Calls, CallOf, Tip
<1>5. Effective' = [Effective EXCEPT ![r] = FALSE]
  <2>1. \A s \in Replicas : (pc'[s] = "swap") = (IF s = r THEN FALSE ELSE pc[s] = "swap")
    BY <1>3
  <2> QED BY <2>1, Zenon DEF Effective
<1>6. Orphans' = Orphans \/ (Calls[r] # None /\ ~Effective[r] /\ Orphans' = Orphans \cup {Calls[r]})
  <2>1. CASE pc[r] = "commit"
    <3>1. job[r].id # 0
      BY <1>1, <2>1 DEF JobInv
    <3>2. Calls[r] = CallOf(job[r]) /\ Calls[r] # None
      BY <3>1, CallType
    <3>3. Orphans' = Orphans \cup {Calls[r]}
      BY <1>1, <2>1, <3>2 DEF Orphans, CallOf
    <3>4. ~Effective[r]
      BY <2>1 DEF Effective
    <3> QED BY <3>2, <3>3, <3>4
  <2>2. CASE pc[r] # "commit"
    BY <1>1, <2>2 DEF Orphans, CallOf
  <2> QED BY <2>1, <2>2
<1>7. Atomic!Forget
  BY <1>1, <1>4, <1>5, <1>6 DEF Atomic!Forget, Calls, Effective, Orphans
<1> QED BY <1>7 DEF Atomic!Next

\* A step inside an operation that no administrator sees.
LEMMA MapContinue ==
  ASSUME IInv, NEW r \in Replicas, NEW p, p # "swap", pc[r] # "swap",
         pc' = [pc EXCEPT ![r] = p], UNCHANGED <<log, inflight, answer>>,
         NEW j \in Jobs, job' = [job EXCEPT ![r] = j],
         j.id = job[r].id, j.op = job[r].op, j.app = job[r].app, j.req = job[r].req
  PROVE  /\ Tip' = Tip /\ Calls' = Calls /\ Effective' = Effective /\ Orphans' = Orphans
         /\ contracts' = contracts => UNCHANGED Atomic!vars
<1>1. TypeOK
  BY DEF IInv
<1>2. \A s \in Replicas : /\ job'[s].id = job[s].id /\ job'[s].op = job[s].op
                          /\ job'[s].app = job[s].app /\ job'[s].req = job[s].req
                          /\ (pc'[s] = "swap") = (pc[s] = "swap")
  BY <1>1 DEF TypeOK
<1>3. Calls' = Calls
  BY <1>2 DEF Calls, CallOf
<1>4. Effective' = Effective
  BY <1>2, Zenon DEF Effective
<1>5. Orphans' = Orphans /\ Tip' = Tip
  BY DEF Orphans, Tip, CallOf
<1> QED BY <1>3, <1>4, <1>5 DEF Atomic!vars, Calls, Effective, Orphans

\* Every step of a replica is one of the catalog, or none.
LEMMA MapProgress ==
  ASSUME IInv, NEW r \in Replicas, Progress(r) PROVE Atomic!Next \/ UNCHANGED Atomic!vars
<1> DEFINE Goal == Atomic!Next \/ UNCHANGED Atomic!vars
<1> USE DEF store, local, flags
<1>1. /\ TypeOK /\ LogInv /\ JobInv(r) /\ PreparedInv(r) /\ SeenInv(r) /\ job[r] \in Jobs
      /\ job = [job EXCEPT ![r] = job[r]]
  BY DEF IInv, ReplicaInv, TypeOK
<1>2. ASSUME NEW c \in Jobs, NEW p, p # "swap", pc[r] # "swap",
             pc' = [pc EXCEPT ![r] = p], job' = [job EXCEPT ![r] = c],
             c.id = job[r].id, c.op = job[r].op, c.app = job[r].app, c.req = job[r].req,
             UNCHANGED <<log, contracts, inflight, answer>>
      PROVE  Goal
  BY <1>2, MapContinue
<1>3. ASSUME Ends(r, "error"), pc[r] \notin {"idle", "swap"}, UNCHANGED <<log, contracts, inflight>> PROVE Goal
  BY <1>3, MapFails DEF Atomic!Next
<1>4. CASE Wake(r) \/ List(r) \/ WatchBegin(r) \/ \E a \in Apps : Apply(r, a)
  <2>1. CASE Wake(r) \/ List(r) \/ \E a \in Apps : Apply(r, a)
    <3>1. /\ UNCHANGED <<log, contracts, inflight, answer, job>>
          /\ \A s \in Replicas : (pc'[s] = "swap") <=> (pc[s] = "swap")
      BY <1>1, <2>1 DEF Wake, List, Apply, Goto, TypeOK
    <3> QED BY <1>1, <3>1, MapStutter
  <2>2. CASE WatchBegin(r)
    <3>1. /\ UNCHANGED <<log, contracts, inflight, answer>> /\ pc[r] = "idle"
          /\ pc' = [pc EXCEPT ![r] = "list"] /\ job' = [job EXCEPT ![r] = [NoJob EXCEPT !.op = "watch"]]
      BY <2>2 DEF WatchBegin, Goto
    <3>2. job[r].id = 0 /\ job'[r].id = 0 /\ pc'[r] = "list"
          /\ \A s \in Replicas : s # r => job'[s] = job[s] /\ pc'[s] = pc[s]
      BY <1>1, <3>1 DEF JobInv, Edits, NoJob, TypeOK
    <3> QED BY <1>1, <3>1, <3>2, MapStutter
  <2> QED BY <1>4, <2>1, <2>2
<1>5. CASE ListFails(r) \/ GetFails(r)
  BY <1>3, <1>5 DEF ListFails, GetFails
<1>6. CASE Sweep(r)
  <2>1. CASE Ends(r, "error")
    BY <1>3, <1>6, <2>1 DEF Sweep
  <2>2. CASE /\ Goto(r, "get") /\ job' = [job EXCEPT ![r].fence = log[seen[r]].mark] /\ UNCHANGED answer
    <3> DEFINE c == [job[r] EXCEPT !.fence = log[seen[r]].mark]
    <3>1. log[seen[r]].mark \in Nat
      BY <1>1, <1>6, LogType DEF SeenInv, Sweep
    <3>2. c \in Jobs /\ c.id = job[r].id /\ c.op = job[r].op /\ c.app = job[r].app /\ c.req = job[r].req
      BY <1>1, <3>1, FencedJob
    <3>3. job' = [job EXCEPT ![r] = c] /\ pc' = [pc EXCEPT ![r] = "get"]
      BY <2>2 DEF Goto
    <3> QED BY <1>2, <1>6, <2>2, <3>2, <3>3 DEF Sweep
  <2> QED BY <1>6, <2>1, <2>2 DEF Sweep
<1>7. CASE Get(r)
  <2>1. CASE Ends(r, "error")
    BY <1>3, <1>7, <2>1 DEF Get
  <2>2. CASE ~Ends(r, "error")
    <3>1. \E w, o, b, p : /\ job' = [job EXCEPT ![r] = [job[r] EXCEPT !.want = w, !.orig = o, !.base = b]]
                          /\ pc' = [pc EXCEPT ![r] = p] /\ p \in {"make", "catalog"} /\ UNCHANGED answer
      <4> DEFINE a == job[r].app
      <4>1. CASE /\ job' = [job EXCEPT ![r].want = Created(job[r].req)]
                 /\ Goto(r, "make") /\ UNCHANGED answer
        <5> DEFINE w == Created(job[r].req)
        <5> HIDE DEF w
        <5>1. [job[r] EXCEPT !.want = w] = [job[r] EXCEPT !.want = w, !.orig = job[r].orig, !.base = job[r].base]
          BY <1>1 DEF Jobs
        <5>2. job' = [job EXCEPT ![r] = [job[r] EXCEPT !.want = w]]
          BY <4>1 DEF w
        <5>3. job' = [job EXCEPT ![r] =
                        [job[r] EXCEPT !.want = w, !.orig = job[r].orig, !.base = job[r].base]]
          BY <5>1, <5>2
        <5>4. pc' = [pc EXCEPT ![r] = "make"] /\ UNCHANGED answer
          BY <4>1 DEF Goto
        <5> QED BY <5>3, <5>4
      <4>2. CASE /\ job' = [job EXCEPT ![r].want = Patched(Tip.app[a], job[r].req), ![r].orig = Tip.app[a],
                                       ![r].base = Tip.mod[a]]
                 /\ Goto(r, "make") /\ UNCHANGED answer
        <5> DEFINE w == Patched(Tip.app[a], job[r].req)
        <5>1. job' = [job EXCEPT ![r] =
                        [job[r] EXCEPT !.want = w, !.orig = Tip.app[a], !.base = Tip.mod[a]]]
          <6> HIDE DEF w
          <6>1. job' = [job EXCEPT ![r].want = w, ![r].orig = Tip.app[a], ![r].base = Tip.mod[a]]
            BY <4>2 DEF w
          <6> QED BY <1>1, <6>1 DEF TypeOK
        <5>2. pc' = [pc EXCEPT ![r] = "make"] /\ UNCHANGED answer
          BY <4>2 DEF Goto
        <5> QED BY <5>1, <5>2
      <4>3. CASE /\ job' = [job EXCEPT ![r].base = Tip.mod[a]]
                 /\ Goto(r, "catalog") /\ UNCHANGED answer
        <5> DEFINE b == Tip.mod[a]
        <5> HIDE DEF b
        <5>1. [job[r] EXCEPT !.base = b] = [job[r] EXCEPT !.want = job[r].want, !.orig = job[r].orig, !.base = b]
          BY <1>1 DEF Jobs
        <5>2. job' = [job EXCEPT ![r] = [job[r] EXCEPT !.base = b]]
          BY <4>3 DEF b
        <5>3. job' = [job EXCEPT ![r] =
                        [job[r] EXCEPT !.want = job[r].want, !.orig = job[r].orig, !.base = b]]
          BY <5>1, <5>2
        <5>4. pc' = [pc EXCEPT ![r] = "catalog"] /\ UNCHANGED answer
          BY <4>3 DEF Goto
        <5> QED BY <5>3, <5>4
      <4> QED BY <1>7, <2>2, <4>1, <4>2, <4>3 DEF Get
    <3>2. \A w, o, b : LET c == [job[r] EXCEPT !.want = w, !.orig = o, !.base = b]
                       IN  c.id = job[r].id /\ c.op = job[r].op /\ c.app = job[r].app /\ c.req = job[r].req
      BY <1>1 DEF Jobs
    <3>3. job'[r] \in Jobs
      <4>1. IInv'
        BY <1>7, GetKeeps
      <4> QED BY <4>1 DEF IInv, TypeOK
    <3>4. PICK p \in {"make", "catalog"} : pc' = [pc EXCEPT ![r] = p] /\ answer' = answer
      BY <3>1
    <3>5. PICK c \in Jobs : c = job'[r]
      BY <3>3
    <3>6. /\ job' = [job EXCEPT ![r] = c] /\ c.id = job[r].id /\ c.op = job[r].op /\ c.app = job[r].app
          /\ c.req = job[r].req
      BY <1>1, <3>1, <3>2, <3>5 DEF TypeOK
    <3> QED BY <1>2, <1>7, <3>4, <3>6 DEF Get
  <2> QED BY <2>1, <2>2
<1>8. CASE Make(r)
  <2>1. job[r].id # 0
    BY <1>1, <1>8 DEF JobInv, Make
  <2>2. CASE Ends(r, "same") /\ Unchanged(r)
    BY <1>8, <2>1, <2>2, MapSucceeds DEF Make, Unchanged, Atomic!Next
  <2>3. CASE Ends(r, "error")
    BY <1>3, <1>8, <2>3 DEF Make
  <2>4. CASE /\ Goto(r, IF job[r].req.idl # None THEN "put" ELSE "commit") /\ UNCHANGED <<job, answer>>
    BY <1>1, <1>2, <1>8, <2>4 DEF Make, Goto
  <2> QED BY <1>8, <2>2, <2>3, <2>4 DEF Make
<1>9. CASE Put(r)
  <2>1. /\ contracts' \in {contracts, contracts \cup {job[r].want.rev}} /\ pc[r] = "put"
        /\ UNCHANGED <<log, inflight>> /\ job[r].id # 0
    BY <1>1, <1>9 DEF Put, Stored, JobInv
  <2>2. contracts' \in {contracts} \cup {contracts \cup {v} : v \in Revs}
    <3>1. IInv'
      BY <1>9, PutKeeps
    <3>2. contracts' \subseteq Revs
      BY <3>1 DEF IInv, TypeOK
    <3> QED BY <2>1, <3>2
  <2>3. CASE Ends(r, "error")
    BY <2>1, <2>2, <2>3, MapFails DEF Atomic!Next
  <2>4. CASE Goto(r, "commit") /\ UNCHANGED <<job, answer>>
    <3>1. Tip' = Tip /\ Calls' = Calls /\ Effective' = Effective /\ Orphans' = Orphans
      BY <1>1, <2>1, <2>4, MapContinue DEF Goto
    <3>2. CASE contracts' = contracts
      BY <2>4, <3>1, <3>2 DEF Atomic!vars, Calls, Effective, Orphans
    <3>3. ASSUME NEW v \in Revs, contracts' = contracts \cup {v} PROVE Goal
      <4>1. Atomic!Store(v)
        BY <2>4, <3>1, <3>3 DEF Atomic!Store, Calls, Effective, Orphans
      <4> QED BY <4>1 DEF Atomic!Next
    <3> QED BY <2>2, <3>2, <3>3
  <2> QED BY <1>9, <2>3, <2>4 DEF Put
<1>10. CASE DeleteCatalog(r)
  <2> DEFINE c == [job[r] EXCEPT !.fence = Tip.mark]
  <2>1. c \in Jobs /\ c.id = job[r].id /\ c.op = job[r].op /\ c.app = job[r].app /\ c.req = job[r].req
    BY <1>1, LogType, FencedJob DEF Catalogs
  <2>2. job' = [job EXCEPT ![r] = c] /\ pc' = [pc EXCEPT ![r] = "commit"]
    BY <1>10 DEF DeleteCatalog, Goto
  <2> QED BY <1>2, <1>10, <2>1, <2>2 DEF DeleteCatalog
<1>11. CASE CommitFails(r)
  <2>1. job[r].id # 0 /\ contracts' \in {contracts} \cup {contracts \cup {v} : v \in Revs}
    BY <1>1, <1>11 DEF JobInv, CommitFails
  <2> QED BY <1>11, <2>1, MapFails DEF CommitFails, Atomic!Next
<1>12. CASE Swap(r)
  <2>1. job[r].id # 0
    BY <1>1, <1>12 DEF JobInv, Swap
  <2> QED BY <1>12, <2>1, MapSucceeds DEF Swap, Atomic!Next
<1> QED BY <1>4, <1>5, <1>6, <1>7, <1>8, <1>9, <1>10, <1>11, <1>12, MapCommit DEF Progress

\* The operations of all the replicas, with crashes and lost answers, are atomic
\* operations on one catalog.
THEOREM Refinement == Spec => ImplementsCatalog
<1>1. Init => Atomic!Init
  BY MapInit
<1>2. IInv /\ [Next]_vars => [Atomic!Next]_Atomic!vars
  <2> SUFFICES ASSUME IInv, [Next]_vars PROVE Atomic!Next \/ UNCHANGED Atomic!vars
    OBVIOUS
  <2>1. ASSUME NEW r \in Replicas, Asked(r) PROVE Atomic!Next
    <3>1. Atomic!Call(r)
      BY <2>1, MapBegin DEF Asked, CreateBegin, UpdateBegin, DeleteBegin
    <3> QED BY <3>1 DEF Atomic!Next
  <2>2. ASSUME NEW r \in Replicas, Stop(r) PROVE UNCHANGED Atomic!vars
    BY <2>2, MapStutter DEF Stop, IInv, store
  <2>3. CASE UNCHANGED vars
    BY <2>3, MapStutter DEF IInv, vars, store
  <2> QED BY <2>1, <2>2, <2>3, MapProgress, MapRestart, MapDeliver DEF Next
<1> QED BY <1>1, <1>2, Invariance, PTL DEF Spec, ImplementsCatalog, Atomic!Spec
=============================================================================
