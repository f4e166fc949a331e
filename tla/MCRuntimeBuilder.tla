--------------------------- MODULE MCRuntimeBuilder ---------------------------
(* An instance of RuntimeBuilder for TLC: archives whose entries, includes    *)
(* and routes vary one group at a time, around one that is sound.             *)
EXTENDS RuntimeBuilder

FileA == <<"idl", "a">>
FileB == <<"idl", "b">>
FileC == <<"idl", "sub", "c">>

MCFiles == {FileA, FileB, FileC, <<"idl", "a", "b">>}

\* Thrift files -------------------------------------------------------------

NoTypedefs == [t \in {} |-> <<"Q">>]

Body(includes, services, structs, typedefs) ==
    [includes |-> includes, services |-> services, structs |-> structs, typedefs |-> typedefs]

Service(fns) == [extends |-> FALSE, functions |-> fns]

Fn(rpc, auth, http, arg) ==
    [rpc |-> rpc, auth |-> auth, http |-> http, args |-> <<arg>>, oneway |-> FALSE, result |-> <<"Q">>]

On(method, path) == <<[method |-> method, paths |-> <<path>>]>>

Include(segs) == [abs |-> FALSE, backslash |-> FALSE, segs |-> segs]

Plain(rpc, path) == Fn(rpc, <<>>, On("GET", path), <<"Q">>)

\* Archives -----------------------------------------------------------------

Entry(name, slash, mode, claimed, actual, readable, body) ==
    [name |-> name, slash |-> slash, mode |-> mode, claimed |-> claimed, actual |-> actual,
     readable |-> readable, body |-> body]

ZipOf(entries) == [status |-> 200, announced |-> -1, length |-> 2, cut |-> FALSE, zip |-> TRUE, entries |-> entries]

Serving1 == Body(<<>>, <<Service(<<Plain("Get", <<"orders", ":id">>)>>)>>, {"Q"}, NoTypedefs)

\* Of how a download goes.
Transports ==
    {[ZipOf(<<Entry(FileA, FALSE, "file", 1, 1, TRUE, Serving1)>>) EXCEPT
        !.status = s, !.announced = a, !.length = l, !.cut = c, !.zip = z] :
       s \in {200, 404}, a \in {-1, 4, 5}, l \in {4, 5, 6}, c \in BOOLEAN, z \in BOOLEAN}

\* Of what is in the ZIP: names, kinds and sizes, in every order.
Things ==
    {Entry(FileA, FALSE, "file", n, n, TRUE, Serving1) : n \in {0, 1, 2, 3}}
    \cup {Entry(FileB, FALSE, "file", n, 2, TRUE, Body(<<>>, <<>>, {}, NoTypedefs)) : n \in {2, 7}}
    \cup {Entry(<<"idl", "a", "b">>, FALSE, "file", 1, 1, TRUE, Serving1),
          Entry(<<"idl", "a">>, TRUE, "file", 0, 0, TRUE, None),
          Entry(<<"idl", "sub">>, TRUE, "dir", 0, 0, TRUE, None),
          Entry(<<"idl", "sub">>, FALSE, "dir", 0, 0, TRUE, None),
          Entry(<<"idl">>, TRUE, "file", 2, 0, TRUE, None),
          Entry(FileC, FALSE, "special", 1, 1, TRUE, Serving1),
          Entry(FileC, FALSE, "file", 1, 1, FALSE, Serving1),
          Entry(<<"idl", "sub", "..", "c">>, FALSE, "file", 1, 1, TRUE, Serving1),
          Entry(<<"lib", "c">>, FALSE, "file", 1, 1, TRUE, Serving1),
          Entry(<<"idl", "notes">>, FALSE, "file", 1, 1, TRUE, Serving1)}

Contents == {ZipOf(s) : s \in UNION {[1 .. n -> Things] : n \in 0 .. 2}}
            \cup {ZipOf(<<Entry(FileA, FALSE, "file", n, n, TRUE, Serving1),
                        Entry(FileB, FALSE, "file", k, k, TRUE, Body(<<>>, <<>>, {}, NoTypedefs)),
                        Entry(FileC, FALSE, "file", l, l, TRUE, Body(<<>>, <<>>, {}, NoTypedefs))>>) :
                    n, k, l \in 0 .. 3}
            \cup {ZipOf([i \in 1 .. 4 |-> Entry(<<"idl", <<"a", "b", "c", "d">>[i]>>, FALSE, "file", 0, 0, TRUE, Serving1)])}

Archive(a, b, c) ==
    ZipOf(<<Entry(FileA, FALSE, "file", 1, 1, TRUE, a), Entry(FileB, FALSE, "file", 1, 1, TRUE, b),
          Entry(FileC, FALSE, "file", 1, 1, TRUE, c)>>)

\* Of who includes whom, and of what is not there or not allowed.
Shown(n) == IF n = FileC THEN [a |-> <<"..", "a">>, b |-> <<"..", "b">>, c |-> <<"c">>]
            ELSE [a |-> <<"a">>, b |-> <<".", "b">>, c |-> <<"sub", "c">>]

IncludesOf(n, s) == [i \in 1 .. Cardinality(s) |-> Include(Shown(n)[SetToSeq(s)[i]])]

Graphs ==
    {Archive([Serving1 EXCEPT !.includes = IncludesOf(FileA, s)],
             Body(IncludesOf(FileB, t), <<>>, {}, NoTypedefs), Body(IncludesOf(FileC, u), <<>>, {}, NoTypedefs)) :
       s, t, u \in SUBSET {"a", "b", "c"}}
    \cup {Archive([Serving1 EXCEPT !.includes = <<i>>], b, Body(<<>>, <<>>, {}, NoTypedefs)) :
            i \in {Include(<<"d">>), Include(<<"..", "a">>), Include(<<"..", "..", "idl", "b">>),
                   [Include(<<"idl", "b">>) EXCEPT !.abs = TRUE], [Include(<<"b">>) EXCEPT !.backslash = TRUE]},
            b \in {None, Body(<<>>, <<>>, {}, NoTypedefs)}}

\* Of methods and their annotations, in one file and in two.
Methods ==
    {Plain("Get", p) : p \in {<<"orders", ":id">>, <<"orders", ":name">>, <<"orders", "mine">>, <<"*all">>,
                              <<"*all", "x">>, <<"healthz">>, None}}
    \cup {Fn("Get", v, On("GET", <<"x">>), <<"Q">>) :
            v \in {<< <<"required">> >>, << <<"optional">> >>, << <<"maybe">> >>, << <<"required">>, <<"optional">> >>}}
    \cup {Fn("Get", <<>>, On(m, <<"orders", ":id">>), <<"Q">>) : m \in {"POST", "PATCH"}}
    \cup {Fn("Get", <<>>, On("GET", <<"y">>), t) : t \in {<<"None">>, <<"Alias">>, <<"Loop">>, <<"b", "R">>, <<"d", "R">>}}
    \cup {Fn("Get", <<>>, On("GET", <<"y">>) \o On("POST", <<"y">>), <<"Q">>),
          Fn("Get", <<>>, <<>>, <<"None">>),
          [Plain("Get", <<"y">>) EXCEPT !.oneway = TRUE],
          [Plain("Get", <<"y">>) EXCEPT !.args = <<>>],
          [Plain("Get", <<"y">>) EXCEPT !.http[1].paths = <<<<"y">>, <<"z">>>>]}

Typedefs == [t \in {"Alias", "Loop"} |-> IF t = "Alias" THEN <<"b", "R">> ELSE <<"Loop">>]

\* The second method of a file has a name of its own.
Renamed(fn) == [fn EXCEPT !.rpc = "Second"]

Seconds == {Plain("Get", p) : p \in {<<"orders", ":name">>, <<"orders", "mine">>, <<"x">>}}

Interfaces ==
    {Archive(Body(<<Include(<<"b">>)>>, <<Service(fs)>>, {"Q"}, Typedefs),
             Body(<<>>, s, {"Q", "R"}, NoTypedefs), Body(<<>>, <<>>, {}, NoTypedefs)) :
       fs \in {<<fn>> : fn \in Methods} \cup {<<fn, Renamed(gn)>> : fn \in Methods, gn \in Seconds},
       s \in {<<>>, <<Service(<<Plain("Other", <<"orders", ":key">>)>>)>>, <<Service(<<>>)>>}}
    \cup {Archive(Serving1, Body(<<>>, s, {"Q"}, NoTypedefs), Body(<<>>, <<Service(<<Plain("Third", <<"t">>)>>)>>, {"Q"}, NoTypedefs)) :
            s \in {<<>>, <<Service(<<>>), Service(<<>>)>>, <<[Service(<<Plain("Other", <<"o">>)>>) EXCEPT !.extends = TRUE]>>,
                   <<Service(<<Plain("Other", <<"o">>)>>)>>}}

MCDownloads == Transports \cup Contents \cup Graphs \cup Interfaces
=============================================================================
