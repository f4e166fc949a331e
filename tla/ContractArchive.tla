--------------------------- MODULE ContractArchive ---------------------------
(***************************************************************************)
(* From a downloaded ZIP to the routes of a contract, as pure functions:   *)
(* archiveidl.Resolve and Unpack (fetcher.go), idl.LoadArchive (loader.go) *)
(* and idl.ExtractRoutes (routes.go), and SoundArchive, what an archive    *)
(* that is accepted ought to be.  A name is the sequence of its segments;  *)
(* that of a thrift file is written without ".thrift".  Texts are modelled *)
(* by what the parser finds in them.                                       *)
(***************************************************************************)
EXTENDS Routing, SequencesExt

CONSTANTS ThriftNames,  \* segments that end with ".thrift"
          BadSegs,      \* segments no clean name has: "", "." , "..", with \ or a zero byte
          MaxArchive, MaxExpanded, MaxFile,  \* sizes
          MaxFiles, MaxDepth,
          W             \* sizes are W-bit words

ASSUME SizesAreWords == MaxExpanded \in Nat /\ MaxFile \in Nat /\ 2 ^ W \in Nat /\ 2 ^ W > MaxExpanded + MaxFile

\* A download: [status, announced, length, cut, zip, entries], announced being -1 if unknown.
\* An entry: [name, slash, mode, claimed, actual, readable, body].
\* A body: None if it does not parse, or [includes, services, structs, typedefs].

\* What entries are at least, whoever made them: lists, of names and sizes.
TypedEntries(es) ==
    /\ es \in Seq(Range(es))
    /\ \A i \in DOMAIN es :
         /\ es[i].name \in Seq(STRING) /\ es[i].claimed \in Nat /\ es[i].actual \in Nat
         /\ es[i].body # None => es[i].body.includes \in Seq(Range(es[i].body.includes))

ReadLimit == MaxArchive + 1

\* How much of the body io.ReadAll gets to see.
LengthRead(d) == IF d.length < ReadLimit THEN d.length ELSE ReadLimit

\* HTTPFetcher.Resolve up to Unpack.
Downloaded(d) ==
    /\ d.status = 200
    /\ d.announced <= MaxArchive
    /\ ~d.cut /\ LengthRead(d) <= MaxArchive
-----------------------------------------------------------------------------
(* Unpack                                                                  *)

IsDir(e) == e.slash \/ e.mode = "dir"

CleanName(n) == n # <<>> /\ Range(n) \cap BadSegs = {} /\ n[1] = "idl"

DirFine(e) == e.slash /\ e.claimed = 0

IsThrift(n) == Len(n) > 1 /\ Last(n) \in ThriftNames

\* total, a uint64, before each of the entries.
TotalBefore(es) ==
    LET total[i \in 1 .. Len(es)] ==
          IF i = 1 THEN 0 ELSE (total[i - 1] + (IF IsDir(es[i - 1]) THEN 0 ELSE es[i - 1].claimed)) % 2 ^ W
    IN  total

FitsAlone(e, total) == e.claimed <= MaxFile /\ e.claimed <= MaxExpanded

Fits(e, total) == e.claimed <= MaxFile /\ e.claimed <= (MaxExpanded - total) % 2 ^ W

FileFine(e, total) ==
    /\ IsThrift(e.name)
    /\ Fits(e, total)
    /\ e.readable /\ e.actual = e.claimed

EntryFine(es, i) ==
    LET e == es[i]
    IN  /\ CleanName(e.name)
        /\ \A j \in 1 .. i - 1 : es[j].name # e.name
        /\ e.mode # "special"
        /\ IF IsDir(e) THEN DirFine(e) ELSE FileFine(e, TotalBefore(es)[i])

\* The map from the names of files to their bodies.
FilesOf(d) ==
    LET fs == {i \in DOMAIN d.entries : ~IsDir(d.entries[i])}
    IN  [n \in {d.entries[i].name : i \in fs} |-> d.entries[CHOOSE i \in fs : d.entries[i].name = n].body]

Unpacks(d) ==
    /\ d.zip /\ Len(d.entries) <= MaxFiles
    /\ \A i \in DOMAIN d.entries : EntryFine(d.entries, i)
    /\ \A n \in DOMAIN FilesOf(d) : \A k \in 1 .. Len(n) - 1 : SubSeq(n, 1, k) \notin DOMAIN FilesOf(d)
    /\ DOMAIN FilesOf(d) # {}
-----------------------------------------------------------------------------
(* LoadArchive: includes                                                   *)

\* path.Clean(path.Join(path.Dir(name), include)).
Target(name, segs) ==
    FoldLeft(LAMBDA acc, s : IF s = ".." /\ acc # <<>> /\ Last(acc) # ".." THEN Front(acc)
                             ELSE IF s \in {"", "."} THEN acc ELSE Append(acc, s),
             <<>>, Front(name) \o segs)

Inside(inc, target) == ~inc.abs /\ ~inc.backslash /\ Len(target) > 1 /\ target[1] = "idl"

\* The depth-first search, after the first s.k includes of s.at: the files done by then,
\* or None.  What s.visiting holds are the files the recursion is in the middle of.
Search(files) ==
    LET F == DOMAIN files
        search[s \in [at : F, k : Nat, visiting : SUBSET F, done : SUBSET F]] ==
          IF s.k = 0 THEN s.done
          ELSE LET before == search[[s EXCEPT !.k = @ - 1]]
                   inc == files[s.at].includes[s.k]
                   t == Target(s.at, inc.segs)
               IN  IF before = None \/ ~Inside(inc, t) \/ t \in s.visiting THEN None
                   ELSE IF t \in before THEN before
                   ELSE IF t \notin F THEN None
                   ELSE LET inner == search[[at |-> t, k |-> Len(files[t].includes),
                                             visiting |-> s.visiting \cup {t}, done |-> before]]
                        IN  IF inner = None THEN None ELSE inner \cup {t}
    IN  search

\* check(n), before anything is done.
Check(files, n) ==
    Search(files)[[at |-> n, k |-> Len(files[n].includes), visiting |-> {n}, done |-> {}]]

WithService(files) == {n \in DOMAIN files : files[n].services # <<>>}

UsedFine(files) == \A n \in WithService(files) : Check(files, n) # None

\* Every file is searched from, used or not.
IncludesFine(files) == \A n \in DOMAIN files : Check(files, n) # None
-----------------------------------------------------------------------------
(* ExtractRoutes                                                           *)

\* A service: [extends, functions]; a function: [rpc, auth, http, args, oneway, result],
\* auth the values of each spelling of xuandu.auth, http the annotations [method, paths].

\* A type name is <<name>> or, of an included file, <<prefix, name>>.
IsStruct(files, file, type) ==
    LET struct[depth \in 0 .. MaxDepth + 1, f \in Seq(STRING), t \in Seq(STRING)] ==
          IF depth > MaxDepth \/ f \notin DOMAIN files THEN FALSE
          ELSE IF Len(t) > 1
               THEN LET incs == SelectSeq(files[f].includes, LAMBDA inc : Last(inc.segs) = t[1])
                    IN  incs # <<>> /\ struct[depth + 1, Target(f, incs[1].segs), Tail(t)]
          ELSE \/ t[1] \in files[f].structs
               \/ t[1] \in DOMAIN files[f].typedefs /\ struct[depth + 1, f, files[f].typedefs[t[1]]]
    IN  struct[0, file, type]

AuthFine(fn) == Len(fn.auth) <= 1 /\ \A v \in Range(fn.auth) : v \in {<<"required">>, <<"optional">>}

Reserved == {<<"healthz">>, <<"readyz">>}

\* None stands for a path without a leading slash, or with ? or #.
AnnotationFine(files, file, fn, a) ==
    /\ a.method \in {"GET", "POST", "PUT", "DELETE"}
    /\ Len(fn.args) = 1 /\ IsStruct(files, file, fn.args[1]) /\ ~fn.oneway
    /\ IsStruct(files, file, fn.result)
    /\ Len(a.paths) = 1 /\ a.paths[1] \notin Reserved \cup {None}

RouteOf(file, fn) ==
    [file |-> file, method |-> fn.http[1].method, path |-> fn.http[1].paths[1],
     rpc |-> fn.rpc, login |-> fn.auth = << <<"required">> >>]

SameKey(r, q) == r.method = q.method /\ r.path = q.path

\* The file passes ExtractRoutes: one service, and no method of it is refused.
ServiceFine(files, file) ==
    LET svc == files[file].services[1]
        http == {fn \in Range(svc.functions) : fn.http # <<>>}
    IN  /\ Len(files[file].services) = 1 /\ ~svc.extends
        /\ \A fn \in Range(svc.functions) : AuthFine(fn) /\ Len(fn.http) <= 1
        /\ \A fn \in http : AnnotationFine(files, file, fn, fn.http[1])
        /\ \A fn, gn \in http : fn # gn => ~SameKey(RouteOf(file, fn), RouteOf(file, gn))

ExtractRoutes(files, file) ==
    {RouteOf(file, fn) : fn \in {g \in Range(files[file].services[1].functions) : g.http # <<>>}}

\* The bundles of LoadArchive, by their main files.
Bundles(files) == {n \in WithService(files) : ExtractRoutes(files, n) # {}}

AllRoutes(files) == UNION {ExtractRoutes(files, n) : n \in Bundles(files)}

Loads(files) ==
    /\ \A n \in DOMAIN files : files[n] # None
    /\ IncludesFine(files)
    /\ \A n \in WithService(files) : ServiceFine(files, n)
    /\ Bundles(files) # {}
-----------------------------------------------------------------------------
(* What an accepted archive ought to be                                    *)

Includes(files, n) == {Target(n, inc.segs) : inc \in Range(files[n].includes)}

\* The graph of includes is closed and has no cycle: there is no set of files each
\* of which includes another of the set.
SoundIncludes(files) ==
    /\ \A n \in DOMAIN files :
         /\ Includes(files, n) \subseteq DOMAIN files
         /\ \A inc \in Range(files[n].includes) : ~inc.abs /\ ~inc.backslash
    /\ \A X \in (SUBSET DOMAIN files) \ {{}} : \E n \in X : Includes(files, n) \cap X = {}

\* What the files of these entries take, unpacked.
SizeOf(es, fs) == MapThenSumSet(LAMBDA i : es[i].actual, fs)

\* Bounded contents, all of it delivered, under distinct names that can all be files.
SoundEntries(es) ==
    LET fs == {i \in DOMAIN es : ~IsDir(es[i])}
    IN  /\ fs # {} /\ Len(es) <= MaxFiles
        /\ \A i \in DOMAIN es : CleanName(es[i].name) /\ es[i].mode # "special" /\ (i \in fs \/ DirFine(es[i]))
        /\ Cardinality({es[i].name : i \in DOMAIN es}) = Len(es)
        /\ \A i, j \in fs : ~IsStrictPrefix(es[i].name, es[j].name)
        /\ \A i \in fs : /\ IsThrift(es[i].name) /\ es[i].readable
                         /\ es[i].claimed = es[i].actual /\ es[i].actual <= MaxFile
        /\ SizeOf(es, fs) <= MaxExpanded

\* Every method that asks for a route has one of its own in the whole archive.
SoundRoutes(files) ==
    LET calls == UNION {{<<n, fn>> : fn \in Range(files[n].services[1].functions)} : n \in WithService(files)}
        asking == {c \in calls : c[2].http # <<>>}
    IN  /\ asking # {}
        /\ \A n \in WithService(files) : Len(files[n].services) = 1 /\ ~files[n].services[1].extends
        /\ \A c \in calls : AuthFine(c[2]) /\ Len(c[2].http) <= 1
        /\ \A c \in asking : AnnotationFine(files, c[1], c[2], c[2].http[1])
        /\ \A c \in asking : ValidPattern(c[2].http[1].paths[1])
        /\ \A c, d \in asking : c # d /\ c[2].http[1].method = d[2].http[1].method =>
             ~SameNode(c[2].http[1].paths[1], d[2].http[1].paths[1])

SoundArchive(d) ==
    /\ d.zip /\ SoundEntries(d.entries)
    /\ \A n \in DOMAIN FilesOf(d) : FilesOf(d)[n] # None
    /\ SoundIncludes(FilesOf(d))
    /\ SoundRoutes(FilesOf(d))
=============================================================================
