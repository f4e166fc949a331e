---------------------------- MODULE MCRequestPath ----------------------------
(* An instance of RequestPath for TLC: three contracts whose routes overlap. *)
EXTENDS RequestPath

CONSTANTS a1, a2, d1, d2, r1, r2, r3, f1, f2, q1

Route(f, m, p, rpc, login) == [file |-> f, method |-> m, path |-> p, rpc |-> rpc, login |-> login]

\* The static segment wins over the parameter, whichever file it is in, and
\* over the catch-all; some need a login where their neighbour does not.
MCContract ==
    [r \in {r1, r2, r3} |->
       CASE r = r1 -> {Route(f1, "GET", <<"orders", ":id">>, "Get", FALSE),
                       Route(f2, "GET", <<"orders", "mine">>, "Mine", TRUE),
                       Route(f2, "POST", <<"orders", ":id">>, "Change", TRUE),
                       Route(f2, "GET", <<"orders", "*rest">>, "Browse", FALSE)}
         [] r = r2 -> {Route(f2, "GET", <<"orders", ":id">>, "Get", TRUE),
                       Route(f1, "GET", <<"orders", "mine">>, "Mine", FALSE),
                       Route(f1, "GET", <<":kind", "mine">>, "Any", TRUE)}
         [] r = r3 -> {Route(f1, "GET", <<"orders", "mine">>, "Mine", FALSE)}]

Paths == {<<"orders", "mine">>, <<"orders", "7">>, <<"orders", "7", "x">>, <<"bills", "mine">>}

\* Whatever fits, one route of a table that could be built comes first.
ASSUME FirstExists ==
    \A r \in {r1, r2, r3}, m \in {"GET", "POST"}, p \in Paths :
       Fitting(MCContract[r], m, p) # {} => First(Fitting(MCContract[r], m, p)) # {}

MCAppOf == [r \in {r1, r2, r3} |-> IF r = r3 THEN a2 ELSE a1]
MCDomainOf == [r \in {r1, r2, r3} |-> IF r = r2 THEN d2 ELSE d1]

Http(d, c, m, p, b, u) ==
    [kind |-> "http", domain |-> d, codes |-> c, method |-> m, path |-> p, body |-> b, user |-> u]

\* Everything about the route, and everything about who is addressed.
MCHttpRequests ==
    {Http(d1, <<a1>>, m, p, "json", u) : m \in {"GET", "POST", "PUT"}, p \in Paths, u \in BOOLEAN}
    \cup {Http(d, c, "GET", <<"orders", "mine">>, b, TRUE) :
            d \in {d1, d2}, c \in {<<>>, <<a1>>, <<a2>>, <<a1, a1>>}, b \in {"json", "large", "broken", "odd"}}

MCToolCalls ==
    UNION {UNION {{[kind |-> "tool", runtime |-> r, route |-> t, args |-> g, user |-> u] :
                     g \in [1 .. Cardinality(Places(t.path)) -> {"7", "mine", "orders", ".."}], u \in BOOLEAN} :
                  t \in MCContract[r]} : r \in {r1, r2, r3}}

MCOutcomes ==
    {[kind |-> "nonsense"]} \cup {[kind |-> "business", code |-> c] :
       c \in {-1, 0, 1, 99999, 100000, 200000, 399999, 400000, 404001, 599999, 600000, 999999, 1000000}}
    \cup {[kind |-> "error", is |-> {ErrorTable[i].found, ErrorTable[j].found}] : i, j \in DOMAIN ErrorTable}
    \cup {[kind |-> "error", is |-> {}]}
    \cup {[kind |-> "reply", status |-> s, body |-> b, fits |-> f] :
            s \in {0, 100, 199, 200, 204, 205, 299, 300, 399, 400, 401, 403, 404, 409, 418, 500, 599, 600},
            b \in {"json", "broken"}, f \in BOOLEAN}
=============================================================================
