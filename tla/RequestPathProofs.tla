-------------------------- MODULE RequestPathProofs --------------------------
(***************************************************************************)
(* Which method a request calls, and what its answer says, for any         *)
(* contracts, patterns, applications and number of requests.               *)
(***************************************************************************)
EXTENDS RequestPath, TLAPS, FiniteSetTheorems, WellFoundedInduction

-----------------------------------------------------------------------------
(* Routing: a table and the tables of its files agree                      *)

\* Of two patterns only one can come before the other.
LEMMA BeforeAsymmetric ==
  ASSUME NEW p, NEW q, DOMAIN p \subseteq Nat \ {0}, DOMAIN q \subseteq Nat \ {0}, Before(p, q)
  PROVE  ~Before(q, p)
<1> SUFFICES ASSUME Before(q, p) PROVE FALSE
  OBVIOUS
<1>1. PICK i \in DOMAIN p \cap DOMAIN q :
        /\ Generality(p[i]) < Generality(q[i])
        /\ \A k \in 1 .. i - 1 : Generality(p[k]) = Generality(q[k])
  BY DEF Before
<1>2. PICK j \in DOMAIN p \cap DOMAIN q :
        /\ Generality(q[j]) < Generality(p[j])
        /\ \A k \in 1 .. j - 1 : Generality(q[k]) = Generality(p[k])
  BY DEF Before
<1>3. /\ Generality(p[i]) \in Int /\ Generality(q[i]) \in Int
      /\ Generality(p[j]) \in Int /\ Generality(q[j]) \in Int
  BY DEF Generality
<1>4. i \in Nat \ {0} /\ j \in Nat \ {0}
  OBVIOUS
<1> QED BY <1>1, <1>2, <1>3, <1>4

\* What a lookup finds is a route of the table that fits.
LEMMA LookupFits ==
  ASSUME NEW routes, NEW method, NEW path
  PROVE  /\ Lookup(routes, method, path) \in routes \cup {None}
         /\ Lookup(routes, method, path) # None =>
              Lookup(routes, method, path) \in First(Fitting(routes, method, path))
  BY DEF Lookup, First, Fitting

\* At most one route comes first.
LEMMA FirstIsUnique ==
  ASSUME NEW fit, \A t \in fit : DOMAIN t.path \subseteq Nat \ {0},
         NEW r \in First(fit), NEW q \in First(fit)
  PROVE  r = q
<1> SUFFICES ASSUME r # q PROVE FALSE
  OBVIOUS
<1>1. Before(r.path, q.path) /\ Before(q.path, r.path)
  BY DEF First
<1>2. DOMAIN r.path \subseteq Nat \ {0} /\ DOMAIN q.path \subseteq Nat \ {0}
  BY DEF First
<1> QED BY <1>1, <1>2, BeforeAsymmetric

\* The client of the file a route is in finds that route again among the routes
\* of its file, whatever overlaps with it there (multi_client.go:23).
THEOREM LookupInFile ==
  ASSUME NEW routes, NEW method, NEW path,
         \A t \in routes : DOMAIN t.path \subseteq Nat \ {0},
         Lookup(routes, method, path) # None, None \notin routes
  PROVE  LET t == Lookup(routes, method, path)
         IN  Lookup({u \in routes : u.file = t.file}, method, path) = t
<1> DEFINE t == Lookup(routes, method, path)
           own == {u \in routes : u.file = t.file}
<1>1. t \in First(Fitting(routes, method, path))
  BY LookupFits
<1>2. t \in First(Fitting(own, method, path))
  BY <1>1 DEF First, Fitting
<1>3. Lookup(own, method, path) \in First(Fitting(own, method, path))
  BY <1>2 DEF Lookup
<1>4. \A u \in Fitting(own, method, path) : DOMAIN u.path \subseteq Nat \ {0}
  BY DEF Fitting
<1> QED BY <1>2, <1>3, <1>4, FirstIsUnique

\* What ExtractRoutes makes of an annotated path: a list of at least one segment.
IsPattern(p) == Len(p) \in Nat \ {0} /\ DOMAIN p = 1 .. Len(p)

\* A set of numbers has a least one, if any.
LEMMA LeastNumber ==
  ASSUME NEW T \in SUBSET Nat, T # {}
  PROVE  \E x \in T : \A y \in T : x <= y
<1> DEFINE R == {p \in Nat \X Nat : p[1] < p[2]}
<1>1. IsWellFoundedOn(R, Nat)
  BY NatLessThanWellFounded DEF OpToRel
<1> HIDE DEF R
<1>2. PICK x \in T : \A y \in T : ~(<<y, x>> \in R)
  BY <1>1, WFMin
<1>3. \A y \in T : ~(y < x)
  BY <1>2 DEF R
<1> QED BY <1>3

\* The order is lexicographic, and so transitive.
LEMMA BeforeTransitive ==
  ASSUME NEW p, NEW q, NEW r, IsPattern(p), IsPattern(q), IsPattern(r), Before(p, q), Before(q, r)
  PROVE  Before(p, r)
<1>1. PICK i \in DOMAIN p \cap DOMAIN q :
        /\ Generality(p[i]) < Generality(q[i])
        /\ \A k \in 1 .. i - 1 : Generality(p[k]) = Generality(q[k])
  BY DEF Before
<1>2. PICK j \in DOMAIN q \cap DOMAIN r :
        /\ Generality(q[j]) < Generality(r[j])
        /\ \A k \in 1 .. j - 1 : Generality(q[k]) = Generality(r[k])
  BY DEF Before
<1>3. \A s : Generality(s) \in Int
  BY DEF Generality
<1>4. /\ i \in Nat \ {0} /\ i <= Len(p) /\ i <= Len(q) /\ j \in Nat \ {0} /\ j <= Len(q) /\ j <= Len(r)
      /\ DOMAIN p = 1 .. Len(p) /\ DOMAIN r = 1 .. Len(r) /\ Len(p) \in Nat /\ Len(q) \in Nat /\ Len(r) \in Nat
  BY DEF IsPattern
<1>5. CASE i <= j
  <2>1. i \in DOMAIN p \cap DOMAIN r
    BY <1>4, <1>5
  <2>2. Generality(p[i]) < Generality(r[i])
    <3>1. CASE i = j
      BY <1>1, <1>2, <1>3, <3>1
    <3>2. CASE i < j
      <4>1. i \in 1 .. j - 1
        BY <1>4, <3>2
      <4> QED BY <1>1, <1>2, <4>1
    <3> QED BY <1>4, <1>5, <3>1, <3>2
  <2>3. \A k \in 1 .. i - 1 : k \in 1 .. j - 1
    BY <1>4, <1>5
  <2>4. \A k \in 1 .. i - 1 : Generality(p[k]) = Generality(r[k])
    BY <1>1, <1>2, <2>3
  <2> QED BY <2>1, <2>2, <2>4 DEF Before
<1>6. CASE j < i
  <2>1. j \in DOMAIN p \cap DOMAIN r
    BY <1>4, <1>6
  <2>2. j \in 1 .. i - 1 /\ \A k \in 1 .. j - 1 : k \in 1 .. i - 1
    BY <1>4, <1>6
  <2>3. Generality(p[j]) < Generality(r[j])
    BY <1>1, <1>2, <2>2
  <2>4. \A k \in 1 .. j - 1 : Generality(p[k]) = Generality(r[k])
    BY <1>1, <1>2, <2>2
  <2> QED BY <2>1, <2>3, <2>4 DEF Before
<1> QED BY <1>4, <1>5, <1>6

\* Of two patterns that one path fits, one is tried before the other, unless they end
\* at one node of the tree.
LEMMA BeforeTotal ==
  ASSUME NEW p, NEW q, NEW path, IsPattern(p), IsPattern(q), Len(path) \in Nat,
         MatchesPath(p, path), MatchesPath(q, path), ValidPattern(p), ValidPattern(q), ~SameNode(p, q)
  PROVE  Before(p, q) \/ Before(q, p)
<1> DEFINE D == {i \in DOMAIN p \cap DOMAIN q : Generality(p[i]) # Generality(q[i])}
<1>1. \A s : Generality(s) \in {0, 1, 2} /\ (Generality(s) = 2 <=> s \in CatchAllSegs)
                /\ (Generality(s) = 0 <=> s \notin ParamSegs \cup CatchAllSegs)
  BY SegsDisjoint DEF Generality
<1>2. /\ DOMAIN p = 1 .. Len(p) /\ DOMAIN q = 1 .. Len(q)
      /\ Len(p) \in Nat \ {0} /\ Len(q) \in Nat \ {0}
  BY DEF IsPattern
<1>3. CASE D # {}
  <2>1. PICK i \in D : \A k \in D : i <= k
    <3>1. D \in SUBSET Nat
      BY <1>2
    <3> QED BY <1>3, <3>1, LeastNumber
  <2>2. i \in DOMAIN p \cap DOMAIN q /\ Generality(p[i]) # Generality(q[i])
    OBVIOUS
  <2>3. \A k \in 1 .. i - 1 : Generality(p[k]) = Generality(q[k])
    <3> SUFFICES ASSUME NEW k \in 1 .. i - 1, Generality(p[k]) # Generality(q[k]) PROVE FALSE
      OBVIOUS
    <3>1. k \in DOMAIN p \cap DOMAIN q /\ ~(i <= k)
      BY <1>2, <2>2
    <3> QED BY <2>1, <3>1
  <2>4. Generality(p[i]) < Generality(q[i]) \/ Generality(q[i]) < Generality(p[i])
    BY <1>1, <2>2
  <2> QED BY <2>2, <2>3, <2>4 DEF Before
<1>4. CASE D = {}
  <2>1. \A i \in DOMAIN p \cap DOMAIN q : Generality(p[i]) = Generality(q[i])
    BY <1>4
  <2>2. /\ IF p[Len(p)] \in CatchAllSegs THEN Len(path) >= Len(p) ELSE Len(path) = Len(p)
        /\ IF q[Len(q)] \in CatchAllSegs THEN Len(path) >= Len(q) ELSE Len(path) = Len(q)
    BY DEF MatchesPath, IsCatchAll
  <2>3. Len(p) = Len(q)
    <3>1. ASSUME Len(p) < Len(q) PROVE FALSE
      <4>1. Len(p) \in 1 .. Len(q) - 1 /\ Len(p) \in DOMAIN p \cap DOMAIN q
        BY <1>2, <3>1
      <4>2. q[Len(p)] \notin CatchAllSegs
        BY <4>1 DEF ValidPattern
      <4>3. p[Len(p)] \notin CatchAllSegs
        BY <1>1, <2>1, <4>1, <4>2
      <4> QED BY <1>2, <2>2, <3>1, <4>3
    <3>2. ASSUME Len(q) < Len(p) PROVE FALSE
      <4>1. Len(q) \in 1 .. Len(p) - 1 /\ Len(q) \in DOMAIN p \cap DOMAIN q
        BY <1>2, <3>2
      <4>2. p[Len(q)] \notin CatchAllSegs
        BY <4>1 DEF ValidPattern
      <4>3. q[Len(q)] \notin CatchAllSegs
        BY <1>1, <2>1, <4>1, <4>2
      <4> QED BY <1>2, <2>2, <3>2, <4>3
    <3>3. Len(p) \in Int /\ Len(q) \in Int
      BY <1>2
    <3> QED BY ONLY <3>1, <3>2, <3>3
  <2>4. ASSUME NEW i \in DOMAIN p
        PROVE  p[i] = q[i] \/ (Generality(p[i]) = Generality(q[i]) /\ Generality(p[i]) > 0)
    <3>1. i \in DOMAIN q
      BY <1>2, <2>3
    <3>2. Generality(p[i]) = Generality(q[i])
      BY <2>1, <3>1
    <3>3. Accepts(p, i, path[i]) /\ Accepts(q, i, path[i])
      BY <3>1 DEF MatchesPath
    <3>4. /\ p[i] \in ParamSegs \cup CatchAllSegs <=> Generality(p[i]) # 0
          /\ q[i] \in ParamSegs \cup CatchAllSegs <=> Generality(q[i]) # 0
      BY <1>1
    <3>5. Generality(p[i]) # 0 => Generality(p[i]) > 0
      BY <1>1
    <3> QED BY <3>2, <3>3, <3>4, <3>5 DEF Accepts
  <2> QED BY <2>3, <2>4 DEF SameNode
<1> QED BY <1>3, <1>4

\* In a finite set of routes, any two of which are tried one before the other, some
\* route is tried before all others.
LEMMA FirstExists ==
  ASSUME NEW fit, IsFiniteSet(fit), fit # {}, \A r \in fit : IsPattern(r.path),
         \A r, q \in fit : r # q => Before(r.path, q.path) \/ Before(q.path, r.path),
         \A r \in fit : ~Before(r.path, r.path)
  PROVE  First(fit) # {}
<1> DEFINE ahead(r) == {q \in fit : Before(q.path, r.path)}
           N == {Cardinality(ahead(r)) : r \in fit}
<1>1. \A r \in fit : IsFiniteSet(ahead(r)) /\ Cardinality(ahead(r)) \in Nat
  <2> SUFFICES ASSUME NEW r \in fit PROVE IsFiniteSet(ahead(r)) /\ Cardinality(ahead(r)) \in Nat
    OBVIOUS
  <2>1. ahead(r) \in SUBSET fit
    OBVIOUS
  <2> HIDE DEF ahead
  <2> QED BY <2>1, FS_Subset, FS_CardinalityType
<1>2. N \in SUBSET Nat /\ N # {}
  <2> HIDE DEF ahead
  <2> QED BY <1>1
<1>3. PICK n \in N : \A m \in N : n <= m
  <2> HIDE DEF N
  <2> QED BY <1>2, LeastNumber
<1>4. PICK r \in fit : n = Cardinality(ahead(r))
  OBVIOUS
<1>5. ASSUME NEW q \in fit \ {r}, ~Before(r.path, q.path) PROVE FALSE
  <2>1. q \in ahead(r)
    BY <1>5
  <2>2. \A t \in ahead(q) : t \in ahead(r)
    BY <2>1, BeforeTransitive
  <2>3. q \notin ahead(q)
    OBVIOUS
  <2>4. ahead(q) \in SUBSET (ahead(r) \ {q})
    <3> HIDE DEF ahead
    <3> QED BY <2>2, <2>3
  <2> HIDE DEF ahead
  <2>5. Cardinality(ahead(r) \ {q}) = Cardinality(ahead(r)) - 1 /\ IsFiniteSet(ahead(r) \ {q})
    BY <1>1, <2>1, FS_RemoveElement
  <2>6. Cardinality(ahead(q)) <= Cardinality(ahead(r) \ {q})
    BY <2>4, <2>5, FS_Subset
  <2>7. Cardinality(ahead(r)) <= Cardinality(ahead(q))
    BY <1>3, <1>4
  <2> QED BY <1>1, <2>5, <2>6, <2>7
<1>6. r \in First(fit)
  BY <1>5 DEF First
<1> QED BY <1>6

\* A table that Build accepts is never in doubt: a path that any of its routes fits gets
\* one, which is tried before all others that fit (table.go).
THEOREM LookupDecides ==
  ASSUME NEW routes, IsFiniteSet(routes), Buildable(routes), None \notin routes,
         \A r \in routes : IsPattern(r.path), NEW method, NEW path, Len(path) \in Nat
  PROVE  LET fit == Fitting(routes, method, path)
             found == Lookup(routes, method, path)
         IN  IF fit = {} THEN found = None
             ELSE found \in fit /\ \A q \in fit \ {found} : Before(found.path, q.path)
<1> DEFINE fit == Fitting(routes, method, path)
           found == Lookup(routes, method, path)
<1>1. CASE fit = {}
  BY <1>1 DEF Lookup, First
<1>2. CASE fit # {}
  <2>1. IsFiniteSet(fit)
    <3>1. fit \in SUBSET routes
      BY DEF Fitting
    <3> QED BY <3>1, FS_Subset
  <2>2. \A r \in fit : r \in routes /\ r.method = method /\ MatchesPath(r.path, path)
    BY DEF Fitting
  <2>3. ASSUME NEW r \in fit, NEW q \in fit, r # q PROVE Before(r.path, q.path) \/ Before(q.path, r.path)
    <3>1. ValidPattern(r.path) /\ ValidPattern(q.path) /\ ~SameNode(r.path, q.path)
      BY <2>2, <2>3 DEF Buildable
    <3>2. IsPattern(r.path) /\ IsPattern(q.path)
      BY <2>2
    <3> HIDE DEF fit
    <3> QED BY <2>2, <3>1, <3>2, BeforeTotal
  <2>4. ASSUME NEW r \in fit, Before(r.path, r.path) PROVE FALSE
    <3>1. \A s : Generality(s) \in Int
      BY DEF Generality
    <3> QED BY <2>4, <3>1 DEF Before
  <2>5. First(fit) # {}
    <3>1. \A r \in fit : IsPattern(r.path)
      BY <2>2
    <3> HIDE DEF fit
    <3> QED BY <1>2, <2>1, <2>3, <2>4, <3>1, FirstExists
  <2>6. found \in First(fit)
    BY <2>5 DEF Lookup
  <2>7. found \in fit /\ \A q \in fit \ {found} : Before(found.path, q.path)
    <3> HIDE DEF fit, found
    <3> QED BY <2>6 DEF First
  <2> QED BY <1>2, <2>7
<1> QED BY <1>1, <1>2

-----------------------------------------------------------------------------
(* The invariant                                                           *)

\* A runtime that is found for an application is one the lease pins.
LEMMA FoundIsPinned ==
  ASSUME NEW q \in Requests, NEW a, RuntimeOf(q, a) # None
  PROVE  RuntimeOf(q, a) \in pinned[q] /\ AppOf[RuntimeOf(q, a)] = a
  BY DEF RuntimeOf

\* Init establishes the invariant.
LEMMA InitInv == Init => IInv
  BY SMT DEF Init, IInv, TypeOK, LeaseInv, AskedInv, ChosenInv, CalledInv, Leased!Init

\* A lease is taken: what it pins is published, so it is open.
LEMMA ArriveInv ==
  ASSUME IInv, NEW q \in Requests, NEW i \in Inputs, Arrive(q, i) PROVE IInv'
<1>1. /\ pc[q] = "idle"
      /\ pc' \in {[pc EXCEPT ![q] = "leased"], [pc EXCEPT ![q] = "answered"]}
      /\ input' = [input EXCEPT ![q] = i]
      /\ UNCHANGED <<published, closed, open, target, called>>
  BY SMT DEF Arrive, Leased!Pin, Answers, Goto, leaseVars
<1>2. \/ open /\ pinned' = [pinned EXCEPT ![q] = {published[a] : a \in Apps} \ {None}]
      \/ pinned' = pinned
  BY SMT DEF Arrive, Leased!Pin, leaseVars
<1>3. TypeOK
  BY DEF IInv
<1>4. TypeOK'
  BY <1>1, <1>2, <1>3, SMT DEF TypeOK
<1>5. LeaseInv'
  BY <1>1, <1>2, <1>3, SMT DEF LeaseInv, TypeOK, IInv
<1>6. /\ pc'[q] \in {"leased", "answered"}
      /\ \A p \in Requests \ {q} : pc'[p] = pc[p] /\ input'[p] = input[p] /\ pinned'[p] = pinned[p]
  BY <1>1, <1>2, <1>3, SMT DEF TypeOK
<1>7. ChosenInv' /\ CalledInv'
  BY <1>1, <1>6, SMT DEF ChosenInv, CalledInv, IInv, LacksLogin, Method, Path
<1>8. AskedInv'
  BY <1>1, <1>3, SMT DEF AskedInv, IInv, TypeOK
<1> QED BY <1>4, <1>5, <1>7, <1>8 DEF IInv

\* A request is refused: nothing it could call is recorded.
LEMMA RefusedInv ==
  ASSUME IInv, NEW q \in Requests, pc[q] # "idle", pc' = [pc EXCEPT ![q] = "answered"],
         UNCHANGED <<leaseVars, input, target, called>>
  PROVE  IInv'
<1>1. TypeOK /\ TypeOK'
  BY SMT DEF IInv, TypeOK, leaseVars
<1>2. LeaseInv'
  BY SMT DEF IInv, LeaseInv, leaseVars
<1>3. pc'[q] = "answered" /\ \A p \in Requests \ {q} : pc'[p] = pc[p]
  BY <1>1, SMT DEF TypeOK
<1>4. ChosenInv' /\ CalledInv'
  BY <1>3, SMT DEF ChosenInv, CalledInv, IInv, leaseVars, LacksLogin, Method, Path
<1>5. AskedInv'
  BY <1>3, SMT DEF AskedInv, IInv
<1> QED BY <1>1, <1>2, <1>4, <1>5 DEF IInv

\* A route is chosen that the request's runtime really has, for whom it is meant.
LEMMA ChoosesInv ==
  ASSUME IInv, NEW q \in Requests, NEW r, NEW t, Chooses(q, r, t),
         UNCHANGED <<leaseVars, input, called>>,
         pc[q] # "idle", r \in pinned[q],
         t # None, t = Lookup(Contract[r], Method(input[q]), Path(input[q])),
         input[q].kind = "http" =>
            Len(input[q].codes) = 1 /\ input[q].codes[1] = AppOf[r] /\ input[q].domain = DomainOf[r],
         input[q].kind = "tool" => r = input[q].runtime /\ t = input[q].route
  PROVE  IInv'
<1>1. TypeOK
  BY DEF IInv
<1>2. /\ pc' = [pc EXCEPT ![q] = "chosen"]
      /\ target' = [target EXCEPT ![q] = [runtime |-> r, route |-> t]]
  BY DEF Chooses, Goto
<1>3. r \in Runtimes /\ t \in Contract[r]
  <2>1. t \in Contract[r] \cup {None}
    BY LookupFits
  <2> QED BY <1>1, <2>1 DEF TypeOK
<1>4. [runtime |-> r, route |-> t] \in Calls
  BY <1>3 DEF Calls
<1>5. TypeOK'
  BY <1>1, <1>2, <1>4, SMT DEF TypeOK, leaseVars
<1>6. LeaseInv'
  BY SMT DEF IInv, LeaseInv, leaseVars
<1>7. /\ pc'[q] = "chosen" /\ target'[q] = [runtime |-> r, route |-> t]
      /\ \A p \in Requests \ {q} : pc'[p] = pc[p] /\ target'[p] = target[p]
  BY <1>1, <1>2, SMT DEF TypeOK
<1>8. ChosenInv'
  BY <1>7, SMT DEF ChosenInv, IInv, leaseVars, Method, Path
<1>9. CalledInv'
  BY <1>7, SMT DEF CalledInv, IInv, LacksLogin
<1>10. AskedInv'
  BY <1>7, SMT DEF AskedInv, IInv
<1> QED BY <1>5, <1>6, <1>8, <1>9, <1>10 DEF IInv

\* An HTTP request is refused, or chosen for the application and domain it names.
LEMMA AdmitHttpInv ==
  ASSUME IInv, NEW q \in Requests, AdmitHttp(q) PROVE IInv'
<1> DEFINE i == input[q]
           r == RuntimeOf(q, i.codes[1])
           t == Lookup(Contract[r], i.method, i.path)
<1>1. UNCHANGED <<leaseVars, input, called>> /\ i.kind = "http" /\ pc[q] = "leased"
  BY DEF AdmitHttp
<1>2. \/ pc' = [pc EXCEPT ![q] = "answered"] /\ UNCHANGED target
      \/ HasApp(q, i.domain, i.codes) /\ t # None /\ Chooses(q, r, t)
  BY DEF AdmitHttp, Refuses, Answers, Goto
<1>3. CASE pc' = [pc EXCEPT ![q] = "answered"] /\ UNCHANGED target
  BY <1>1, <1>3, RefusedInv
<1>4. CASE HasApp(q, i.domain, i.codes) /\ t # None /\ Chooses(q, r, t)
  <2>1. Len(i.codes) = 1 /\ r # None /\ DomainOf[r] = i.domain
    BY <1>4 DEF HasApp
  <2>2. r \in pinned[q] /\ AppOf[r] = i.codes[1]
    BY <2>1, FoundIsPinned
  <2>3. t = Lookup(Contract[r], Method(i), Path(i))
    BY <1>1 DEF Method, Path
  <2> QED BY <1>1, <1>4, <2>1, <2>2, <2>3, ChoosesInv
<1> QED BY <1>2, <1>3, <1>4

\* A tool call is refused, or chosen for the route that was granted.
LEMMA AdmitToolInv ==
  ASSUME IInv, NEW q \in Requests, AdmitTool(q) PROVE IInv'
<1> DEFINE i == input[q]
           r == RuntimeOf(q, AppOf[i.runtime])
           path == RequestPathOf(i.route, i.args)
<1>1. UNCHANGED <<leaseVars, input, called>> /\ i.kind = "tool" /\ pc[q] = "leased" /\ r = i.runtime
  BY DEF AdmitTool
<1>2. \/ pc' = [pc EXCEPT ![q] = "answered"] /\ UNCHANGED target
      \/ StaysOnRoute(r, i.route, path) /\ Chooses(q, r, i.route)
  BY DEF AdmitTool, Refuses, Answers, Goto
<1>3. CASE pc' = [pc EXCEPT ![q] = "answered"] /\ UNCHANGED target
  BY <1>1, <1>3, RefusedInv
<1>4. CASE StaysOnRoute(r, i.route, path) /\ Chooses(q, r, i.route)
  <2>1. i \in ToolCalls
    BY <1>1, InputsAreRequests DEF IInv, AskedInv, Inputs
  <2>2. r \in Runtimes /\ r # None /\ i.route \in Contract[r] /\ i.route # None
    BY <1>1, <2>1, InputsAreRequests, ContractsWereBuilt
  <2>3. r \in pinned[q]
    BY <2>2, FoundIsPinned
  <2>4. i.route = Lookup(Contract[r], Method(i), Path(i))
    BY <1>1, <1>4 DEF StaysOnRoute, Method, Path
  <2> QED BY <1>1, <1>4, <2>2, <2>3, <2>4, ChoosesInv
<1> QED BY <1>2, <1>3, <1>4

\* The call goes to the client of the file of the chosen route, which finds that
\* same route.
LEMMA ExecuteInv ==
  ASSUME IInv, NEW q \in Requests, Execute(q) PROVE IInv'
<1> DEFINE i == input[q]
           r == target[q].runtime
           t == target[q].route
<1>1. UNCHANGED <<leaseVars, input, target>> /\ pc[q] = "chosen"
  BY DEF Execute
<1>2. \/ pc' = [pc EXCEPT ![q] = "answered"] /\ UNCHANGED called
      \/ /\ ~LacksLogin(i, t) /\ pc' = [pc EXCEPT ![q] = "calling"]
         /\ called' = [called EXCEPT ![q] = [runtime |-> r, route |-> Reached(r, Method(i), Path(i))]]
  BY DEF Execute, Answers, Goto
<1>3. CASE pc' = [pc EXCEPT ![q] = "answered"] /\ UNCHANGED called
  BY <1>1, <1>3, RefusedInv
<1>4. CASE /\ ~LacksLogin(i, t) /\ pc' = [pc EXCEPT ![q] = "calling"]
           /\ called' = [called EXCEPT ![q] = [runtime |-> r, route |-> Reached(r, Method(i), Path(i))]]
  <2>1. TypeOK
    BY DEF IInv
  <2>2. r \in pinned[q] /\ t # None /\ t = Lookup(Contract[r], Method(i), Path(i))
    BY <1>1 DEF IInv, ChosenInv
  <2>3. r \in Runtimes
    BY <2>1, <2>2 DEF TypeOK
  <2>4. Reached(r, Method(i), Path(i)) = t
    BY <2>2, <2>3, LookupInFile, ContractsWereBuilt DEF Reached, ClientFor
  <2>5. t \in Contract[r] /\ [runtime |-> r, route |-> t] \in Calls
    <3>1. t \in Contract[r] \cup {None}
      BY <2>2, LookupFits
    <3> QED BY <2>2, <2>3, <3>1 DEF Calls
  <2>6. TypeOK'
    BY <1>1, <1>4, <2>1, <2>4, <2>5, SMT DEF TypeOK, leaseVars
  <2>7. LeaseInv'
    BY <1>1, SMT DEF IInv, LeaseInv, leaseVars
  <2>8. /\ pc'[q] = "calling" /\ called'[q] = [runtime |-> r, route |-> t]
        /\ \A p \in Requests \ {q} : pc'[p] = pc[p] /\ called'[p] = called[p]
    BY <1>4, <2>1, <2>4, SMT DEF TypeOK
  <2>9. AskedInv' /\ ChosenInv'
    BY <1>1, <2>8, SMT DEF IInv, AskedInv, ChosenInv, leaseVars, Method, Path
  <2>10. CalledInv'
    BY <1>1, <1>4, <2>8, SMT DEF IInv, CalledInv, LacksLogin
  <2> QED BY <2>6, <2>7, <2>9, <2>10 DEF IInv
<1> QED BY <1>2, <1>3, <1>4

\* The handler returns: the request is gone, with its lease.
LEMMA ReleaseInv ==
  ASSUME IInv, NEW q \in Requests, Release(q) PROVE IInv'
<1>1. TypeOK
  BY DEF IInv
<1>2. /\ pc' = [pc EXCEPT ![q] = "idle"] /\ input' = [input EXCEPT ![q] = None]
      /\ target' = [target EXCEPT ![q] = None] /\ called' = [called EXCEPT ![q] = None]
      /\ pinned' = [pinned EXCEPT ![q] = {}] /\ UNCHANGED <<published, closed, open>>
  BY DEF Release, Goto, Leased!Unpin
<1>3. TypeOK'
  BY <1>1, <1>2, SMT DEF TypeOK
<1>4. /\ pc'[q] = "idle" /\ pinned'[q] = {}
      /\ \A p \in Requests \ {q} :
           /\ pc'[p] = pc[p] /\ input'[p] = input[p] /\ target'[p] = target[p]
           /\ called'[p] = called[p] /\ pinned'[p] = pinned[p]
  BY <1>1, <1>2, SMT DEF TypeOK
<1>5. LeaseInv'
  BY <1>2, <1>4, SMT DEF IInv, LeaseInv
<1>6. AskedInv' /\ ChosenInv' /\ CalledInv'
  BY <1>4, SMT DEF IInv, AskedInv, ChosenInv, CalledInv, LacksLogin, Method, Path
<1> QED BY <1>3, <1>5, <1>6 DEF IInv

\* Publications and closes: only what nobody uses and nobody can get is closed.
LEMMA SurroundingsInv ==
  ASSUME IInv, Surroundings PROVE IInv'
<1>1. TypeOK
  BY DEF IInv
<1>2. UNCHANGED <<pc, input, target, called, pinned>>
  BY DEF Surroundings, Leased!Replace, Leased!Close, Leased!Shut
<1>3. \/ \E a \in Apps, n \in {None} \cup (Runtimes \ closed) :
         published' = [published EXCEPT ![a] = n] /\ UNCHANGED <<closed, open>>
      \/ \E r \in Runtimes : /\ \A q \in Requests : r \notin pinned[q]
                            /\ ~(open /\ \E a \in Apps : published[a] = r)
                            /\ closed' = closed \cup {r} /\ UNCHANGED <<published, open>>
      \/ open' = FALSE /\ UNCHANGED <<published, closed>>
  BY InputsAreRequests DEF Surroundings, Leased!Replace, Leased!Close, Leased!Shut, Leased!InUse, Leased!Serving
<1>4. TypeOK'
  <2>1. ASSUME NEW a \in Apps, NEW n \in Runtimes \cup {None}, published' = [published EXCEPT ![a] = n]
        PROVE  published' \in [Apps -> Runtimes \cup {None}]
    BY <1>1, <2>1, SMT DEF TypeOK
  <2>2. published' \in [Apps -> Runtimes \cup {None}]
    BY <1>1, <1>3, <2>1 DEF TypeOK
  <2>3. closed' \subseteq Runtimes /\ open' \in BOOLEAN
    BY <1>1, <1>3 DEF TypeOK
  <2> QED BY <1>1, <1>2, <2>2, <2>3 DEF TypeOK
<1>5. LeaseInv'
  BY <1>1, <1>2, <1>3, InputsAreRequests, SMT DEF TypeOK, IInv, LeaseInv
<1>6. AskedInv' /\ ChosenInv' /\ CalledInv'
  BY <1>2, SMT DEF IInv, AskedInv, ChosenInv, CalledInv, LacksLogin, Method, Path
<1> QED BY <1>4, <1>5, <1>6 DEF IInv

\* Every step keeps the invariant.
LEMMA NextInv == IInv /\ [Next]_vars => IInv'
<1> SUFFICES ASSUME IInv, [Next]_vars PROVE IInv'
  OBVIOUS
<1>1. ASSUME NEW q \in Requests, RefuseStaleTool(q) PROVE IInv'
  BY <1>1, RefusedInv DEF RefuseStaleTool, Refuses, Answers, Goto
<1>2. ASSUME NEW q \in Requests, NEW o \in Outcomes, Reply(q, o) PROVE IInv'
  BY <1>2, RefusedInv DEF Reply, Answers, Goto
<1>3. CASE UNCHANGED vars
  BY <1>3, SMT DEF vars, leaseVars, IInv, TypeOK, LeaseInv, AskedInv, ChosenInv, CalledInv, LacksLogin, Method, Path
<1> QED
  BY <1>1, <1>2, <1>3, ArriveInv, AdmitHttpInv, AdmitToolInv, ExecuteInv, ReleaseInv, SurroundingsInv DEF Next

\* The inductive invariant holds throughout.
THEOREM Invariance == Spec => []IInv
  BY InitInv, NextInv, PTL DEF Spec

\* Every variable of the request path keeps its type.
THEOREM TypeCorrect == Spec => []TypeOK
<1>1. IInv => TypeOK
  BY DEF IInv
<1> QED BY <1>1, Invariance, PTL

\* The method that is called is the one the request or the grant chose, in an open
\* runtime of the application and domain it names, for all contracts (service.go:573).
THEOREM RightMethod == Spec => []CallsWhatWasChosen
<1>1. IInv => CallsWhatWasChosen
  <2> SUFFICES ASSUME IInv, NEW q \in Requests, pc[q] = "calling"
               PROVE  LET i == input[q]
                          c == called[q]
                      IN  /\ c.runtime \in pinned[q] \ closed
                          /\ i.kind = "http" => /\ c.route = target[q].route
                                                /\ Len(i.codes) = 1 /\ i.codes[1] = AppOf[c.runtime]
                                                /\ i.domain = DomainOf[c.runtime]
                          /\ i.kind = "tool" => c = [runtime |-> i.runtime, route |-> i.route]
    BY DEF CallsWhatWasChosen
  <2>1. called[q] = [runtime |-> target[q].runtime, route |-> target[q].route]
    BY DEF IInv, CalledInv
  <2>2. target[q].runtime \in pinned[q] /\ pinned[q] \cap closed = {}
    BY DEF IInv, ChosenInv, LeaseInv
  <2> QED BY <2>1, <2>2 DEF IInv, ChosenInv
<1> QED BY <1>1, Invariance, PTL

\* No method that requires a login is called for a request without a user, for all
\* contracts and on both ways in (executor.go:48).
THEOREM LoginRequired == Spec => []LoginEnforced
<1>1. IInv => LoginEnforced
  <2> SUFFICES ASSUME IInv, NEW q \in Requests, pc[q] = "calling", called[q].route.login
               PROVE  input[q].user
    BY DEF LoginEnforced
  <2>1. called[q] = [runtime |-> target[q].runtime, route |-> target[q].route]
    BY DEF IInv, CalledInv
  <2>2. ~LacksLogin(input[q], target[q].route)
    BY DEF IInv, CalledInv
  <2>3. target[q].route.login
    BY <2>1
  <2> QED BY <2>2, <2>3, Zenon DEF LacksLogin
<1> QED BY <1>1, Invariance, PTL


\* What apperr.Map makes of an error is an error, whatever the error holds.
LEMMA ErrorsFail ==
  ASSUME NEW is
  PROVE  ErrorAnswer(is).status \in 400 .. 599 /\ ErrorAnswer(is).code \in Int \ {Success}
<1> DEFINE hits == {i \in DOMAIN ErrorTable : ErrorTable[i].found \in is}
           first == CHOOSE i \in hits : \A j \in hits : i <= j
           Fails(e) == e.status \in 400 .. 599 /\ e.code \in Int \ {Success}
<1>1. DOMAIN ErrorTable = 1 .. 9
  BY DEF ErrorTable
<1>2. \A i \in 1 .. 9 : Fails(ErrorTable[i])
  <2>1. InvalidArgument \in Int \ {Success} /\ DependencyUnavailable \in Int \ {Success}
    BY DEF Success, InvalidArgument, DependencyUnavailable
  <2>2. Fails(ErrorTable[1]) /\ Fails(ErrorTable[2]) /\ Fails(ErrorTable[3])
    BY <2>1 DEF ErrorTable
  <2>3. Fails(ErrorTable[4]) /\ Fails(ErrorTable[5]) /\ Fails(ErrorTable[6])
    BY <2>1 DEF ErrorTable
  <2>4. Fails(ErrorTable[7]) /\ Fails(ErrorTable[8]) /\ Fails(ErrorTable[9])
    BY <2>1 DEF ErrorTable
  <2>5. \A i \in 1 .. 9 : i \in {1, 2, 3, 4, 5, 6, 7, 8, 9}
    OBVIOUS
  <2> HIDE DEF Fails
  <2> QED BY <2>2, <2>3, <2>4, <2>5
<1>3. ErrorAnswer(is) = IF hits = {} THEN [status |-> 500, code |-> Internal]
                        ELSE [status |-> ErrorTable[first].status, code |-> ErrorTable[first].code]
  BY Zenon DEF ErrorAnswer
<1>4. CASE hits = {}
  <2> HIDE DEF hits, first
  <2> QED BY <1>3, <1>4 DEF Internal, Success
<1>5. CASE hits # {}
  <2>1. \E i \in hits : \A j \in hits : i <= j
    <3> DEFINE Least(i) == i \in hits /\ \A j \in 1 .. (i - 1) : j \notin hits
    <3>1. hits \subseteq 1 .. 9
      BY <1>1
    <3> HIDE DEF hits
    <3>2. \/ Least(1) \/ Least(2) \/ Least(3) \/ Least(4) \/ Least(5)
          \/ Least(6) \/ Least(7) \/ Least(8) \/ Least(9)
      <4>1. PICK i \in hits : i \in 1 .. 9
        BY <1>5, <3>1
      <4>2. \/ 1 \in hits \/ 2 \in hits \/ 3 \in hits \/ 4 \in hits \/ 5 \in hits
            \/ 6 \in hits \/ 7 \in hits \/ 8 \in hits \/ 9 \in hits
        BY <4>1
      <4> QED BY <4>2
    <3>3. \A i \in 1 .. 9 : Least(i) => \A j \in hits : i <= j
      BY <3>1
    <3>4. \A i \in 1 .. 9 : Least(i) => i \in hits
      OBVIOUS
    <3> QED BY <3>2, <3>3, <3>4
  <2>2. first \in hits
    BY <2>1
  <2>3. Fails(ErrorTable[first])
    BY <1>1, <1>2, <2>2
  <2>4. ErrorAnswer(is) = [status |-> ErrorTable[first].status, code |-> ErrorTable[first].code]
    BY <1>3, <1>5
  <2> HIDE DEF first, hits
  <2> QED BY <2>3, <2>4
<1> QED BY <1>4, <1>5

\* An error status with an error code is a failure in both.
LEMMA FailureShape ==
  ASSUME NEW a, a.status \in 400 .. 599, a.code \in Int \ {Success}
  PROVE  /\ a.status \in 200 .. 599 /\ a.code \in Int
         /\ ~(a.code = Success) /\ ~(a.status \in 200 .. 299)
<1> HIDE DEF Success
<1>1. a.status \in 200 .. 599 /\ ~(a.status \in 200 .. 299)
  OBVIOUS
<1>2. a.code \in Int /\ ~(a.code = Success)
  OBVIOUS
<1> QED BY <1>1, <1>2

\* The reply of an upstream is a success in status and in code, or in neither.
LEMMA RepliesAreHonest ==
  ASSUME NEW o, o.status \in Int
  PROVE  /\ ReplyAnswer(o).status \in 200 .. 599 /\ ReplyAnswer(o).code \in Int
         /\ ReplyAnswer(o).code = Success <=> ReplyAnswer(o).status \in 200 .. 299
         /\ ReplyAnswer(o).code = Success <=> ReplyStatus(o) \div 100 = 2 /\ o.body # "broken"
<1> DEFINE s == ReplyStatus(o)
<1>1. s \in Int /\ (s \div 100 = 2 <=> s \in 200 .. 299)
  BY DEF ReplyStatus
<1>2. HttpErrorCode(s) \in Int \ {Success}
  <2>1. s \in {400, 401, 403, 404, 409} \/ s \notin {400, 401, 403, 404, 409}
    OBVIOUS
  <2>2. HttpErrorCode(s) \in {InvalidArgument, IdentityRequired, PermissionDenied, NotFound, Conflict, Internal}
    BY <1>1, <2>1 DEF HttpErrorCode
  <2> QED BY <2>2 DEF InvalidArgument, IdentityRequired, PermissionDenied, NotFound, Conflict, Internal, Success
<1> HIDE DEF s
<1>3. CASE Within(400, s, 599)
  <2>1. ReplyAnswer(o) = [status |-> s, code |-> HttpErrorCode(s)]
    BY <1>3 DEF ReplyAnswer, s
  <2> QED BY <1>1, <1>2, <1>3, <2>1 DEF Within, s
<1>4. CASE ~Within(400, s, 599) /\ (~Within(200, s, 299) \/ o.body = "broken")
  <2>1. ReplyAnswer(o) = [status |-> 502, code |-> DependencyUnavailable]
    BY <1>4 DEF ReplyAnswer, s
  <2> QED BY <1>1, <1>4, <2>1 DEF Within, s, DependencyUnavailable, Success
<1>5. CASE ~Within(400, s, 599) /\ Within(200, s, 299) /\ o.body # "broken"
  <2>1. ReplyAnswer(o) = [status |-> IF s \in {204, 205} THEN 200 ELSE s, code |-> Success]
    BY <1>5 DEF ReplyAnswer, s
  <2> QED BY <1>1, <1>5, <2>1 DEF Within, s, Success
<1> QED BY <1>3, <1>4, <1>5

\* What the executor answers: a 2xx status and 000000 for a success upstream, and
\* for nothing else.
LEMMA AnswersAreHonest ==
  ASSUME NEW o \in Outcomes
  PROVE  /\ AnswerTo(o).status \in 200 .. 599 /\ AnswerTo(o).code \in Int
         /\ AnswerTo(o).code = Success <=> AnswerTo(o).status \in 200 .. 299
         /\ AnswerTo(o).code = Success <=>
              o.kind = "reply" /\ ReplyStatus(o) \div 100 = 2 /\ o.body # "broken"
<1>1. CASE o.kind = "business"
  <2>1. AnswerTo(o) = BusinessAnswer(o.code)
    BY <1>1 DEF AnswerTo
  <2>2. o.code \in Int
    BY <1>1, OutcomesAssumption
  <2>3. BusinessAnswer(o.code).status \in 400 .. 599 /\ BusinessAnswer(o.code).code \in Int \ {Success}
    BY <2>2 DEF BusinessAnswer, OutOfRange, Within, Internal, Success
  <2>4. o.kind # "reply"
    BY <1>1
  <2> QED BY <2>1, <2>3, <2>4, FailureShape
<1>2. CASE o.kind = "error"
  <2>1. AnswerTo(o) = ErrorAnswer(o.is)
    BY <1>2 DEF AnswerTo
  <2>2. o.kind # "reply"
    BY <1>2
  <2> QED BY <2>1, <2>2, ErrorsFail, FailureShape
<1>3. CASE o.kind = "reply"
  <2>1. AnswerTo(o) = ReplyAnswer(o)
    BY <1>3 DEF AnswerTo
  <2>2. o.status \in Int
    BY <1>3, OutcomesAssumption
  <2> QED BY <1>3, <2>1, <2>2, RepliesAreHonest
<1>4. CASE o.kind = "nonsense"
  <2>1. AnswerTo(o) = [status |-> 502, code |-> DependencyUnavailable]
    BY <1>4 DEF AnswerTo
  <2> QED BY <1>4, <2>1 DEF DependencyUnavailable, Success
<1> QED BY <1>1, <1>2, <1>3, <1>4, OutcomesAssumption

\* An answer the gateway makes itself, before or instead of a call, is an error.
LEMMA OwnAnswer ==
  ASSUME HeardInv, FailureIsFailure, NEW q \in Requests, TypeOK, pc[q] # "answered",
         NEW status \in 400 .. 599, NEW code \in Int \ {Success}, Answers(q, status, code),
         heard' = heard, \A p \in Requests \ {q} : input'[p] = input[p]
  PROVE  HeardInv' /\ FailureIsFailure'
<1>1. /\ answer'[q] = [status |-> status, code |-> code] /\ pc'[q] = "answered"
      /\ \A p \in Requests \ {q} : pc'[p] = pc[p] /\ answer'[p] = answer[p]
  BY DEF Answers, Goto, HeardInv, TypeOK
<1>2. heard[q] = "nothing"
  BY DEF HeardInv
<1>3. HeardInv'
  BY <1>1 DEF HeardInv, Answers
<1>4. FailureIsFailure'
  BY <1>1, <1>2, SMTT(20) DEF FailureIsFailure, Within, Success
<1> QED BY <1>3, <1>4

\* No answer is given in this step.
LEMMA NoAnswer ==
  ASSUME HeardInv, FailureIsFailure, NEW q \in Requests, TypeOK, pc'[q] # "answered",
         pc[q] # "answered", UNCHANGED <<heard, answer>>,
         \A p \in Requests \ {q} : pc'[p] = pc[p] /\ input'[p] = input[p]
  PROVE  HeardInv' /\ FailureIsFailure'
<1>1. HeardInv'
  BY DEF HeardInv
<1> QED BY <1>1 DEF FailureIsFailure

\* The answer to a call says of the upstream what was heard of it.
LEMMA ReplyHonest ==
  ASSUME HeardInv, FailureIsFailure, TypeOK, AskedInv, NEW q \in Requests, NEW o \in Outcomes, Reply(q, o)
  PROVE  HeardInv' /\ FailureIsFailure'
<1> DEFINE a == IF input[q].kind = "tool" THEN ToolAnswer(o) ELSE AnswerTo(o)
           good == o.kind = "reply" /\ ReplyStatus(o) \div 100 = 2 /\ o.body # "broken"
           said == IF good THEN "success" ELSE "failure"
<1>1. /\ Answers(q, a.status, a.code) /\ heard' = [heard EXCEPT ![q] = said]
      /\ pc[q] = "calling" /\ input' = input
  BY DEF Reply
<1>2. /\ a.status \in 200 .. 599 /\ a.code \in Int
      /\ a.code = Success <=> a.status \in 200 .. 299
      /\ a.code = Success => good
      /\ good /\ input[q].kind = "http" => a.code = Success
  <2>1. CASE a = AnswerTo(o)
    BY <2>1, AnswersAreHonest
  <2>2. CASE a # AnswerTo(o)
    <3>1. input[q].kind = "tool" /\ a = [status |-> 500, code |-> Internal]
      BY <2>2 DEF ToolAnswer
    <3> QED BY <3>1 DEF Internal, Success
  <2> QED BY <2>1, <2>2
<1> HIDE DEF a, good
<1>3. /\ answer'[q] = [status |-> a.status, code |-> a.code] /\ pc'[q] = "answered"
      /\ \A p \in Requests \ {q} : pc'[p] = pc[p] /\ answer'[p] = answer[p]
      /\ answer' \in [Requests -> [status : Int, code : Int] \cup {None}]
  BY <1>1, <1>2 DEF Answers, Goto, HeardInv, TypeOK
<1>4. /\ heard'[q] = said /\ \A p \in Requests \ {q} : heard'[p] = heard[p]
      /\ heard' \in [Requests -> {"nothing", "success", "failure"}]
  BY <1>1 DEF HeardInv
<1>5. HeardInv'
  BY <1>3, <1>4 DEF HeardInv
<1>6. (a.code = Success) = (a.status \in 200 .. 299)
  BY <1>2
<1>7. FailureIsFailure'
  BY <1>1, <1>2, <1>3, <1>4, <1>6 DEF FailureIsFailure, Within
<1> QED BY <1>5, <1>7

\* The gateway reports a success exactly when the upstream succeeded and the result could
\* be delivered, for every status, business code and error (mapper.go:23, executor.go:75).
THEOREM HonestAnswers == Spec => []FailureIsFailure
<1>1. Init => HeardInv /\ FailureIsFailure
  BY DEF Init, HeardInv, FailureIsFailure
<1>2. ASSUME IInv, HeardInv, FailureIsFailure, [Next]_vars PROVE HeardInv' /\ FailureIsFailure'
  <2> USE DEF Success, InvalidArgument, PermissionDenied, NotFound, IdentityRequired, DependencyUnavailable
  <2>1. TypeOK /\ AskedInv
    BY <1>2 DEF IInv
  <2>2. ASSUME NEW q \in Requests, NEW i \in Inputs, Arrive(q, i) PROVE HeardInv' /\ FailureIsFailure'
    <3>1. pc[q] = "idle" /\ heard' = heard /\ \A p \in Requests \ {q} : input'[p] = input[p]
      BY <2>1, <2>2 DEF Arrive, TypeOK
    <3>2. CASE Goto(q, "leased") /\ UNCHANGED answer
      BY <1>2, <2>1, <3>1, <3>2, NoAnswer DEF Goto, TypeOK
    <3>3. CASE Answers(q, 503, DependencyUnavailable)
      BY <1>2, <2>1, <3>1, <3>3, OwnAnswer
    <3> QED BY <2>2, <3>2, <3>3 DEF Arrive
  <2>3. ASSUME NEW q \in Requests, AdmitHttp(q) \/ RefuseStaleTool(q) \/ AdmitTool(q)
        PROVE  HeardInv' /\ FailureIsFailure'
    <3>1. pc[q] = "leased" /\ heard' = heard /\ input' = input
      BY <2>3 DEF AdmitHttp, RefuseStaleTool, AdmitTool
    <3>2. CASE \E s \in 400 .. 599, c \in Int \ {Success} : Answers(q, s, c)
      BY <1>2, <2>1, <3>1, <3>2, OwnAnswer
    <3>3. CASE Goto(q, "chosen") /\ UNCHANGED answer
      BY <1>2, <2>1, <3>1, <3>3, NoAnswer DEF Goto, TypeOK
    <3> QED BY <2>3, <3>2, <3>3 DEF AdmitHttp, RefuseStaleTool, AdmitTool, Refuses, Chooses
  <2>4. ASSUME NEW q \in Requests, Execute(q) PROVE HeardInv' /\ FailureIsFailure'
    <3>1. pc[q] = "chosen" /\ heard' = heard /\ input' = input
      BY <2>4 DEF Execute
    <3>2. CASE \E s \in 400 .. 599, c \in Int \ {Success} : Answers(q, s, c)
      BY <1>2, <2>1, <3>1, <3>2, OwnAnswer
    <3>3. CASE Goto(q, "calling") /\ UNCHANGED answer
      BY <1>2, <2>1, <3>1, <3>3, NoAnswer DEF Goto, TypeOK
    <3> QED BY <2>4, <3>2, <3>3 DEF Execute
  <2>5. ASSUME NEW q \in Requests, Release(q) PROVE HeardInv' /\ FailureIsFailure'
    <3>1. /\ pc'[q] = "idle" /\ heard'[q] = "nothing"
          /\ \A p \in Requests \ {q} : /\ pc'[p] = pc[p] /\ heard'[p] = heard[p]
                                       /\ answer'[p] = answer[p] /\ input'[p] = input[p]
      BY <1>2, <2>1, <2>5 DEF Release, Goto, TypeOK, HeardInv
    <3>2. HeardInv'
      BY <1>2, <2>5, <3>1 DEF Release, HeardInv
    <3> QED BY <1>2, <3>1, <3>2 DEF FailureIsFailure
  <2>6. CASE Surroundings \/ UNCHANGED vars
    <3>1. UNCHANGED <<pc, input, heard, answer>>
      BY <2>6 DEF Surroundings, vars
    <3> QED BY <1>2, <3>1 DEF HeardInv, FailureIsFailure
  <2> QED BY <1>2, <2>1, <2>2, <2>3, <2>4, <2>5, <2>6, ReplyHonest DEF Next
<1> QED BY <1>1, <1>2, Invariance, PTL DEF Spec
-----------------------------------------------------------------------------
(* Leases                                                                  *)

\* A request that is over holds nothing, and one that calls holds what it calls.
HoldsLease ==
    \A q \in Requests : /\ pinned[q] \cap closed = {}
                        /\ pc[q] = "idle" => pinned[q] = {}
                        /\ pc[q] = "calling" => called[q].runtime \in pinned[q]

\* What a request is using is open until it has answered, and then it holds nothing:
\* neither a publication nor the shutdown closes a client under a call (runtime.go:33).
THEOREM LeasesOpen == Spec => []HoldsLease
<1> DEFINE Free == \A q \in Requests : pc[q] = "idle" => pinned[q] = {}
<1>1. Init => Free
  BY DEF Init, Leased!Init
<1>2. ASSUME IInv, Free, [Next]_vars PROVE Free'
  <2>1. pc \in [Requests -> {"idle", "leased", "chosen", "calling", "answered"}]
        /\ pinned \in [Requests -> SUBSET Runtimes]
    BY <1>2 DEF IInv, TypeOK
  <2>2. ASSUME NEW q \in Requests, NEW i \in Inputs, Arrive(q, i) PROVE Free'
    BY <1>2, <2>1, <2>2 DEF Arrive, Goto, Answers, Leased!Pin, leaseVars
  <2>3. ASSUME NEW q \in Requests,
               AdmitHttp(q) \/ RefuseStaleTool(q) \/ AdmitTool(q) \/ Execute(q) \/ \E o \in Outcomes : Reply(q, o)
        PROVE  Free'
    <3>1. pinned' = pinned
      BY <2>3 DEF AdmitHttp, RefuseStaleTool, AdmitTool, Execute, Reply, leaseVars
    <3>2. \A s \in Requests : pc'[s] = "idle" => pc[s] = "idle"
      BY <2>1, <2>3 DEF AdmitHttp, RefuseStaleTool, AdmitTool, Execute, Reply, Refuses, Chooses, Answers, Goto
    <3> QED BY <1>2, <3>1, <3>2
  <2>4. ASSUME NEW q \in Requests, Release(q) PROVE Free'
    BY <1>2, <2>1, <2>4 DEF Release, Goto, Leased!Unpin
  <2>5. CASE Surroundings
    BY <1>2, <2>5 DEF Surroundings, Leased!Replace, Leased!Close, Leased!Shut
  <2>6. CASE UNCHANGED vars
    BY <1>2, <2>6 DEF vars, leaseVars
  <2> QED BY <1>2, <2>2, <2>3, <2>4, <2>5, <2>6 DEF Next
<1>3. ASSUME IInv, Free PROVE HoldsLease
  <2> SUFFICES ASSUME NEW q \in Requests, pc[q] = "calling" PROVE called[q].runtime \in pinned[q]
    BY <1>3 DEF IInv, LeaseInv, HoldsLease
  <2>1. called[q] = [runtime |-> target[q].runtime, route |-> target[q].route]
    BY <1>3 DEF IInv, CalledInv
  <2>2. target[q].runtime \in pinned[q]
    BY <1>3 DEF IInv, ChosenInv
  <2> QED BY <2>1, <2>2
<1> HIDE DEF Free
<1> QED BY <1>1, <1>2, <1>3, Invariance, PTL DEF Spec
=============================================================================
