------------------------------- MODULE Routing -------------------------------
(***************************************************************************)
(* internal/router/table.go: routes of HTTP methods and path patterns, and *)
(* which of them a path selects.  A path is the sequence of its segments,  *)
(* and so is a pattern, some of whose segments stand for any one segment   *)
(* (":id") or for the whole rest (catch-all).  The tree behind the table,  *)
(* Kitex's descriptor.Router, is external and modelled by what table.go    *)
(* relies on: the most specific match from left to right, a panic when two *)
(* patterns end at one node of the tree.                                   *)
(***************************************************************************)
EXTENDS Integers, Sequences

CONSTANTS ParamSegs,     \* pattern segments ":name"
          CatchAllSegs,  \* pattern segments "*name"
          None

ASSUME SegsDisjoint == ParamSegs \cap CatchAllSegs = {}

\* A route: [file, method, path, rpc, login], as ExtractRoutes makes them.

\* How general a pattern segment is: the tree prefers static ones.
Generality(s) == IF s \in ParamSegs THEN 1 ELSE IF s \in CatchAllSegs THEN 2 ELSE 0

IsCatchAll(p) == p[Len(p)] \in CatchAllSegs

\* Position i of pattern p accepts segment s.
Accepts(p, i, s) == p[i] \in ParamSegs \cup CatchAllSegs \/ p[i] = s

MatchesPath(p, path) ==
    /\ IF IsCatchAll(p) THEN Len(path) >= Len(p) ELSE Len(path) = Len(p)
    /\ \A i \in DOMAIN p : Accepts(p, i, path[i])

\* Pattern p is tried before q: static before parameter before catch-all at
\* the first place where they differ in kind.
Before(p, q) ==
    \E i \in DOMAIN p \cap DOMAIN q :
        /\ Generality(p[i]) < Generality(q[i])
        /\ \A j \in 1 .. i - 1 : Generality(p[j]) = Generality(q[j])

Fitting(routes, method, path) == {r \in routes : r.method = method /\ MatchesPath(r.path, path)}

First(fit) == {r \in fit : \A q \in fit \ {r} : Before(r.path, q.path)}

\* table.Match on a table of these routes.
Lookup(routes, method, path) ==
    LET first == First(Fitting(routes, method, path))
    IN  IF first = {} THEN None ELSE CHOOSE r \in first : TRUE

\* Two patterns that end at the same node: equal but for the names of parameters.
SameNode(p, q) ==
    /\ Len(p) = Len(q)
    /\ \A i \in DOMAIN p :
         p[i] = q[i] \/ (Generality(p[i]) = Generality(q[i]) /\ Generality(p[i]) > 0)

\* A catch-all in the middle makes the tree panic.
ValidPattern(p) == \A i \in 1 .. Len(p) - 1 : p[i] \notin CatchAllSegs

\* router.Build succeeds on these routes.
Buildable(routes) ==
    /\ \A r \in routes : ValidPattern(r.path)
    /\ \A r, q \in routes : r # q => ~(r.method = q.method /\ SameNode(r.path, q.path))
=============================================================================
