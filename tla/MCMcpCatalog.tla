----------------------------- MODULE MCMcpCatalog -----------------------------
(* Finite instances of McpCatalog for TLC.                                  *)
EXTENDS McpCatalog, TLC

CONSTANTS q1, n1, n2, a1, p1, p2, s1, t1, t2, k1, k2, find, list

MCReplicas == {n1, n2}
MCTools == {t1, t2}
MCKeys == {k1, k2}
MCPaths == {p1, p2}
MCOperations == {find, list}

\* The second contract has lost an operation.
MCRevs == {1, 2}
MCHasOperation == {<<find, 1>>, <<find, 2>>, <<list, 1>>}

Server(p, e) == [app |-> a1, path |-> p, enabled |-> e]
Tool(s, o) == [server |-> s, op |-> o]
Granted(s, ts) == [[x \in Servers |-> None] EXCEPT ![s] = ts]
Key(h, g) == [enabled |-> TRUE, hash |-> h, grants |-> g]
Change(kind, id, how, new, rotate) ==
    [kind |-> kind, id |-> id, how |-> how, new |-> new, rotate |-> rotate]

\* Server s1 with tool t1, which the first key may call.
MCStored == [Empty EXCEPT !.servers[s1] = Server(p1, TRUE), !.tools[t1] = Tool(s1, find),
                          !.keys[k1] = Key(1, Granted(s1, {t1}))]
MCInitial == {MCStored}

\* Revoke the grant, rotate the key, move the tool to the operation that goes away.
MCMutations == {Change("access", s1, "update", [k \in Keys |-> None], FALSE),
                Change("key", k1, "update", Key(0, Granted(s1, {t1})), TRUE),
                Change("tool", t1, "update", Tool(s1, list), FALSE)}

\* Revoke and rotate.
MCFewMutations == {m \in MCMutations : m.kind # "tool"}

\* Every kind of edit.
MCAllMutations == MCMutations \cup
    {Change("server", s1, "update", Server(p1, FALSE), FALSE),
     Change("server", s1, "delete", None, FALSE),
     Change("tool", t2, "create", Tool(s1, list), FALSE),
     Change("tool", t1, "delete", None, FALSE),
     Change("key", k1, "update", Key(0, Granted(s1, {})), FALSE),
     Change("key", k1, "delete", None, FALSE),
     Change("key", k2, "create", Key(0, Granted(s1, {t1})), FALSE)}
=============================================================================
