--------------------------- MODULE McpCatalogProofs ---------------------------
(* Theorems about the MCP document of McpCatalog, for every set of servers, *)
(* tools and keys.                                                          *)
EXTENDS McpCatalog, SequenceTheorems, TLAPS

\* What validate() says of one key's grants in document c.
GrantsValid(c, k) ==
    \A s \in Servers : c.keys[k].grants[s] # None =>
        /\ c.servers[s] # None
        /\ \A t \in c.keys[k].grants[s] : c.tools[t] # None /\ c.tools[t].server = s

\* A document in which nothing new is granted, and whose tools and servers are those of
\* a valid one without some that no grant mentions any more, is valid.
LEMMA Shrunk ==
    ASSUME NEW c, NEW d, Valid(c),
           \A s \in Servers : d.servers[s] # None => d.servers[s] = c.servers[s],
           \A t \in Tools : d.tools[t] # None => d.tools[t] = c.tools[t] /\ d.servers[d.tools[t].server] # None,
           \A k \in Keys : d.keys[k] # None => GrantsValid(d, k)
    PROVE  Valid(d)
<1>1. \A s, t \in Servers : s # t /\ d.servers[s] # None /\ d.servers[t] # None =>
                                d.servers[s].path # d.servers[t].path
  BY DEF Valid
<1>2. \A k \in Keys, s \in Servers : d.keys[k] # None /\ d.keys[k].grants[s] # None =>
         /\ d.servers[s] # None
         /\ \A t \in d.keys[k].grants[s] : d.tools[t] # None /\ d.tools[t].server = s
  BY DEF GrantsValid
<1> QED
  BY <1>1, <1>2 DEF Valid

\* Deleting a server, a tool or a key leaves a valid document: what depends on it goes with
\* it, so that validate() refuses neither this change nor every later one.
THEOREM DeletionsKeepValid ==
    ASSUME NEW c \in Catalogs, Valid(c), NEW m \in Mutations, m.how = "delete"
    PROVE  Valid(Mutated(c, m))
<1> DEFINE d == Mutated(c, m)
<1>0. /\ c.servers \in [Servers -> ServerConfigs \cup {None}]
      /\ c.tools \in [Tools -> ToolConfigs \cup {None}]
      /\ c.keys \in [Keys -> KeyConfigs \cup {None}]
      /\ c = [servers |-> c.servers, tools |-> c.tools, keys |-> c.keys]
  BY DEF Catalogs
<1>a. \A k \in Keys : c.keys[k] # None =>
         /\ c.keys[k] \in KeyConfigs /\ c.keys[k].grants \in Grants /\ GrantsValid(c, k)
  BY <1>0 DEF Valid, GrantsValid, KeyConfigs
<1>b. \A t \in Tools : c.tools[t] # None => c.tools[t] \in ToolConfigs /\ c.servers[c.tools[t].server] # None
  BY <1>0 DEF Valid
<1>1. CASE m.kind = "server"
  <2>1. m.id \in Servers
    BY <1>1, MutationsAssumption
  <2>2. /\ d.servers = [c.servers EXCEPT ![m.id] = None]
        /\ d.tools = [t \in Tools |-> IF c.tools[t] # None /\ c.tools[t].server = m.id THEN None
                                      ELSE c.tools[t]]
        /\ d.keys = Granting(c, m.id, [k \in Keys |-> None])
    BY <1>1 DEF Mutated
  <2> HIDE DEF d
  <2>3. \A s \in Servers : d.servers[s] # None => d.servers[s] = c.servers[s] /\ s # m.id
    BY <1>0, <2>1, <2>2
  <2>4. \A s \in Servers : s # m.id => d.servers[s] = c.servers[s]
    BY <1>0, <2>1, <2>2
  <2>5. \A t \in Tools : d.tools[t] # None => d.tools[t] = c.tools[t] /\ c.tools[t].server # m.id
    BY <2>2
  <2>6. \A t \in Tools : d.tools[t] # None => d.servers[d.tools[t].server] # None
    BY <1>b, <2>4, <2>5 DEF ToolConfigs
  <2>7. ASSUME NEW k \in Keys, d.keys[k] # None PROVE GrantsValid(d, k)
    <3>1. c.keys[k] # None /\ d.keys[k] = [c.keys[k] EXCEPT !.grants[m.id] = None]
      BY <2>2, <2>7 DEF Granting
    <3>2. \A s \in Servers : d.keys[k].grants[s] # None =>
             s # m.id /\ d.keys[k].grants[s] = c.keys[k].grants[s]
      BY <1>a, <3>1, <2>1 DEF KeyConfigs, Grants
    <3>3. \A t \in Tools : c.tools[t] # None /\ c.tools[t].server # m.id => d.tools[t] = c.tools[t]
      BY <2>2
    <3>4. \A s \in Servers : c.keys[k].grants[s] # None => c.keys[k].grants[s] \subseteq Tools
      BY <1>a, <3>1 DEF KeyConfigs, Grants
    <3> QED BY <1>a, <2>4, <3>1, <3>2, <3>3, <3>4 DEF GrantsValid
  <2> QED BY <2>3, <2>5, <2>6, <2>7, Shrunk DEF d
<1>2. CASE m.kind = "tool"
  <2>1. m.id \in Tools
    BY <1>2, MutationsAssumption
  <2>2. /\ d.servers = c.servers
        /\ d.tools = [c.tools EXCEPT ![m.id] = None]
        /\ d.keys = ToolRevoked(c, m.id)
    BY <1>0, <1>2 DEF Mutated
  <2> HIDE DEF d
  <2>3. \A t \in Tools : d.tools[t] # None => d.tools[t] = c.tools[t]
    BY <1>0, <2>1, <2>2
  <2>4. \A t \in Tools : t # m.id => d.tools[t] = c.tools[t]
    BY <1>0, <2>1, <2>2
  <2>5. ASSUME NEW k \in Keys, d.keys[k] # None PROVE GrantsValid(d, k)
    <3>1. /\ c.keys[k] # None
          /\ d.keys[k] = [c.keys[k] EXCEPT !.grants = [s \in Servers |->
                             IF @[s] = None THEN None ELSE @[s] \ {m.id}]]
      BY <2>2, <2>5 DEF ToolRevoked
    <3>2. \A s \in Servers : d.keys[k].grants[s] # None =>
             c.keys[k].grants[s] # None /\ d.keys[k].grants[s] = c.keys[k].grants[s] \ {m.id}
      BY <1>a, <3>1 DEF KeyConfigs, Grants
    <3>3. \A s \in Servers : c.keys[k].grants[s] # None => c.keys[k].grants[s] \subseteq Tools
      BY <1>a, <3>1 DEF KeyConfigs, Grants
    <3> QED BY <1>a, <2>2, <2>4, <3>1, <3>2, <3>3 DEF GrantsValid
  <2> QED BY <1>b, <2>2, <2>3, <2>5, Shrunk DEF d
<1>3. CASE m.kind = "key"
  <2>1. m.id \in Keys
    BY <1>3, MutationsAssumption
  <2>2. /\ d.servers = c.servers /\ d.tools = c.tools
        /\ d.keys = [c.keys EXCEPT ![m.id] = None]
    BY <1>0, <1>3 DEF Mutated
  <2> HIDE DEF d
  <2>3. \A k \in Keys : d.keys[k] # None => d.keys[k] = c.keys[k]
    BY <1>0, <2>1, <2>2
  <2>4. \A k \in Keys : d.keys[k] # None => GrantsValid(d, k)
    BY <1>a, <2>2, <2>3 DEF GrantsValid
  <2> QED BY <1>b, <2>2, <2>4, Shrunk DEF d
<1> QED
  BY <1>1, <1>2, <1>3, MutationsAssumption
-----------------------------------------------------------------------------
(* What a mutation makes of a document                                     *)

LEMMA EmptyTyped == Empty \in Catalogs
  BY DEF Empty, Catalogs

\* The target of a mutation is there, unless the mutation creates it.
LEMMA ExistsIs ==
    ASSUME NEW c, NEW m \in Mutations, Exists(c, m)
    PROVE  /\ m.kind = "server" /\ m.how # "create" => c.servers[m.id] # None
           /\ m.kind = "access" => c.servers[m.id] # None
           /\ m.kind = "tool" /\ m.how # "create" => c.tools[m.id] # None
           /\ m.kind = "key" => (c.keys[m.id] # None <=> m.how # "create")
  BY MutationsAssumption DEF Exists

\* The keys, after new grants for one server.
LEMMA GrantingTyped ==
    ASSUME NEW c \in Catalogs, NEW s \in Servers, NEW g \in [Keys -> (SUBSET Tools) \cup {None}]
    PROVE  /\ Granting(c, s, g) \in [Keys -> KeyConfigs \cup {None}]
           /\ \A k \in Keys : Granting(c, s, g)[k] # None =>
                c.keys[k] # None /\ Granting(c, s, g)[k].hash = c.keys[k].hash
<1> SUFFICES ASSUME NEW k \in Keys
             PROVE  /\ Granting(c, s, g)[k] \in KeyConfigs \cup {None}
                    /\ Granting(c, s, g)[k] # None =>
                          c.keys[k] # None /\ Granting(c, s, g)[k].hash = c.keys[k].hash
  BY DEF Granting
<1>1. CASE c.keys[k] = None
  BY <1>1 DEF Granting
<1>2. CASE c.keys[k] # None
  <2>1. c.keys[k] \in KeyConfigs
    BY <1>2 DEF Catalogs
  <2>2. Granting(c, s, g)[k] = [c.keys[k] EXCEPT !.grants[s] = g[k]]
    BY <1>2 DEF Granting
  <2> QED
    BY <1>2, <2>1, <2>2 DEF KeyConfigs, Grants
<1> QED
  BY <1>1, <1>2

\* The keys, after a tool was deleted.
LEMMA ToolRevokedTyped ==
    ASSUME NEW c \in Catalogs, NEW t \in Tools
    PROVE  /\ ToolRevoked(c, t) \in [Keys -> KeyConfigs \cup {None}]
           /\ \A k \in Keys : ToolRevoked(c, t)[k] # None =>
                c.keys[k] # None /\ ToolRevoked(c, t)[k].hash = c.keys[k].hash
<1> SUFFICES ASSUME NEW k \in Keys
             PROVE  /\ ToolRevoked(c, t)[k] \in KeyConfigs \cup {None}
                    /\ ToolRevoked(c, t)[k] # None =>
                          c.keys[k] # None /\ ToolRevoked(c, t)[k].hash = c.keys[k].hash
  BY DEF ToolRevoked
<1>1. CASE c.keys[k] = None
  BY <1>1 DEF ToolRevoked
<1>2. CASE c.keys[k] # None
  <2> DEFINE g == [s \in Servers |-> IF c.keys[k].grants[s] = None THEN None
                                     ELSE c.keys[k].grants[s] \ {t}]
  <2>1. c.keys[k] \in KeyConfigs /\ c.keys[k].grants \in Grants
    BY <1>2 DEF Catalogs, KeyConfigs
  <2>2. ToolRevoked(c, t)[k] = [c.keys[k] EXCEPT !.grants = g]
    BY <1>2 DEF ToolRevoked
  <2>3. g \in Grants
    BY <2>1 DEF Grants
  <2> HIDE DEF g
  <2> QED
    BY <1>2, <2>1, <2>2, <2>3 DEF KeyConfigs
<1> QED
  BY <1>1, <1>2

\* A mutation makes a document of a document, and a key that is in both has the same
\* secret unless it was rotated; then, or when it is new, it has a fresh one.
LEMMA MutatedIs ==
    ASSUME NEW c \in Catalogs, NEW m \in Mutations, Exists(c, m), Version \in Nat
    PROVE  /\ Mutated(c, m) \in Catalogs
           /\ \A k \in Keys : Mutated(c, m).keys[k] # None =>
                \/ c.keys[k] # None /\ Mutated(c, m).keys[k].hash = c.keys[k].hash
                \/ /\ Mutated(c, m).keys[k].hash = Version + 1
                   /\ c.keys[k] # None => m.kind = "key" /\ m.id = k /\ m.rotate
<1> DEFINE d == Mutated(c, m)
<1>0. /\ c.servers \in [Servers -> ServerConfigs \cup {None}]
      /\ c.tools \in [Tools -> ToolConfigs \cup {None}]
      /\ c.keys \in [Keys -> KeyConfigs \cup {None}]
      /\ c = [servers |-> c.servers, tools |-> c.tools, keys |-> c.keys]
  BY DEF Catalogs
<1> SUFFICES ASSUME TRUE
             PROVE  /\ d \in Catalogs
                    /\ \A k \in Keys : d.keys[k] # None =>
                         \/ c.keys[k] # None /\ d.keys[k].hash = c.keys[k].hash
                         \/ /\ d.keys[k].hash = Version + 1
                            /\ c.keys[k] # None => m.kind = "key" /\ m.id = k /\ m.rotate
  OBVIOUS
<1>1. CASE m.kind = "access"
  <2>1. m.id \in Servers /\ m.new \in [Keys -> (SUBSET Tools) \cup {None}]
    BY <1>1, MutationsAssumption
  <2>2. d = [c EXCEPT !.keys = Granting(c, m.id, m.new)]
    BY <1>1 DEF Mutated
  <2> HIDE DEF d
  <2> QED
    BY <1>0, <2>1, <2>2, GrantingTyped DEF Catalogs
<1>2. CASE m.kind = "server" /\ m.how # "delete"
  <2>1. m.id \in Servers /\ m.new \in ServerConfigs
    BY <1>2, MutationsAssumption
  <2>2. d = [c EXCEPT !.servers[m.id] = m.new]
    BY <1>2 DEF Mutated
  <2> HIDE DEF d
  <2> QED
    BY <1>0, <2>1, <2>2 DEF Catalogs
<1>3. CASE m.kind = "server" /\ m.how = "delete"
  <2>1. m.id \in Servers /\ [k \in Keys |-> None] \in [Keys -> (SUBSET Tools) \cup {None}]
    BY <1>3, MutationsAssumption
  <2>2. d = [servers |-> [c.servers EXCEPT ![m.id] = None],
             tools |-> [t \in Tools |-> IF c.tools[t] # None /\ c.tools[t].server = m.id THEN None
                                        ELSE c.tools[t]],
             keys |-> Granting(c, m.id, [k \in Keys |-> None])]
    BY <1>3 DEF Mutated
  <2>3. /\ [c.servers EXCEPT ![m.id] = None] \in [Servers -> ServerConfigs \cup {None}]
        /\ [t \in Tools |-> IF c.tools[t] # None /\ c.tools[t].server = m.id THEN None
                            ELSE c.tools[t]] \in [Tools -> ToolConfigs \cup {None}]
    BY <1>0
  <2>4. /\ Granting(c, m.id, [k \in Keys |-> None]) \in [Keys -> KeyConfigs \cup {None}]
        /\ \A k \in Keys : Granting(c, m.id, [j \in Keys |-> None])[k] # None =>
              /\ c.keys[k] # None
              /\ Granting(c, m.id, [j \in Keys |-> None])[k].hash = c.keys[k].hash
    BY <2>1, GrantingTyped
  <2> HIDE DEF d
  <2> QED
    BY <2>2, <2>3, <2>4 DEF Catalogs
<1>4. CASE m.kind = "tool" /\ m.how # "delete"
  <2>1. m.id \in Tools /\ m.new \in ToolConfigs
    BY <1>4, MutationsAssumption
  <2>2. d = [c EXCEPT !.tools[m.id] = m.new]
    BY <1>4 DEF Mutated
  <2> HIDE DEF d
  <2> QED
    BY <1>0, <2>1, <2>2 DEF Catalogs
<1>5. CASE m.kind = "tool" /\ m.how = "delete"
  <2>1. m.id \in Tools
    BY <1>5, MutationsAssumption
  <2>2. d = [c EXCEPT !.tools[m.id] = None, !.keys = ToolRevoked(c, m.id)]
    BY <1>5 DEF Mutated
  <2> HIDE DEF d
  <2> QED
    BY <1>0, <2>1, <2>2, ToolRevokedTyped DEF Catalogs
<1>6. CASE m.kind = "key" /\ m.how # "delete"
  <2>1. m.id \in Keys /\ m.new \in KeyConfigs
    BY <1>6, MutationsAssumption
  <2>2. d = [c EXCEPT !.keys[m.id] = [m.new EXCEPT !.hash = Hash(c, m)]]
    BY <1>6 DEF Mutated
  <2>3. c.keys[m.id] # None <=> m.how # "create"
    BY <1>6, ExistsIs
  <2>4. \/ Hash(c, m) = Version + 1 /\ (c.keys[m.id] # None => m.rotate)
        \/ c.keys[m.id] # None /\ Hash(c, m) = c.keys[m.id].hash
    BY <2>3 DEF Hash
  <2>5. c.keys[m.id] # None => c.keys[m.id].hash \in Nat
    BY <1>0, <2>1 DEF KeyConfigs
  <2>6. [m.new EXCEPT !.hash = Hash(c, m)] \in KeyConfigs /\ [m.new EXCEPT !.hash = Hash(c, m)].hash = Hash(c, m)
    BY <2>1, <2>4, <2>5 DEF KeyConfigs
  <2> HIDE DEF d
  <2> QED
    BY <1>0, <1>6, <2>1, <2>2, <2>4, <2>6 DEF Catalogs
<1>7. CASE m.kind = "key" /\ m.how = "delete"
  <2>1. m.id \in Keys
    BY <1>7, MutationsAssumption
  <2>2. d = [c EXCEPT !.keys[m.id] = None]
    BY <1>7 DEF Mutated
  <2> HIDE DEF d
  <2> QED
    BY <1>0, <2>1, <2>2 DEF Catalogs
<1> QED
  BY <1>1, <1>2, <1>3, <1>4, <1>5, <1>6, <1>7, MutationsAssumption
-----------------------------------------------------------------------------
(* The log                                                                 *)

\* The log is as it was, or a document was appended to it.
Grown == log' = log \/ \E c \in Catalogs : log' = Append(log, [cat |-> c, at |-> now])

LEMMA LogTyped ==
    ASSUME TypeOK
    PROVE  /\ Version \in Nat /\ DOMAIN log = 1 .. Version /\ now \in Nat
           /\ \A i \in 1 .. Version : log[i].cat \in Catalogs /\ log[i].at \in Nat
           /\ log = <<>> <=> Version = 0
           /\ Stored = Doc(Version) /\ Stored \in Catalogs
           /\ \A v \in 0 .. Version : Doc(v) \in Catalogs
<1>1. log \in Seq([cat : Catalogs, at : Nat])
  BY DEF TypeOK
<1>2. Version \in Nat /\ DOMAIN log = 1 .. Version
  BY <1>1 DEF Version
<1>3. \A i \in 1 .. Version : log[i] \in [cat : Catalogs, at : Nat]
  BY <1>1, <1>2, ElementOfSeq DEF Version
<1>4. (log = <<>>) <=> (Version = 0)
  BY <1>1, EmptySeq DEF Version
<1>5. now \in Nat
  BY BoundsAssumption DEF TypeOK
<1>6. Stored = Doc(Version)
  BY <1>4 DEF Stored, Doc, Version
<1>7. \A v \in 0 .. Version : Doc(v) \in Catalogs
  BY <1>2, <1>3, EmptyTyped DEF Doc
<1> QED
  BY <1>2, <1>3, <1>4, <1>5, <1>6, <1>7

LEMMA GrownIs ==
    ASSUME TypeOK, Grown
    PROVE  /\ log' \in Seq([cat : Catalogs, at : Nat])
           /\ Version' \in Nat /\ DOMAIN log' = 1 .. Version'
           /\ log' = log \/ Version' = Version + 1
           /\ Version <= Version' /\ Version' <= Version + 1
           /\ \A i \in 1 .. Version : log'[i] = log[i]
           /\ Version < Version' => log'[Version'].at = now
           /\ \A v \in 0 .. Version : Doc(v)' = Doc(v)
<1>1. log \in Seq([cat : Catalogs, at : Nat]) /\ Version = Len(log) /\ Version' = Len(log')
  BY DEF TypeOK, Version
<1>2. CASE log' = log
  BY <1>1, <1>2, LogTyped DEF Doc
<1>3. ASSUME NEW c \in Catalogs, log' = Append(log, [cat |-> c, at |-> now]) PROVE
           /\ log' \in Seq([cat : Catalogs, at : Nat])
           /\ Version' \in Nat /\ DOMAIN log' = 1 .. Version'
           /\ Version' = Version + 1
           /\ \A i \in 1 .. Version : log'[i] = log[i]
           /\ log'[Version'].at = now
  <2>1. [cat |-> c, at |-> now] \in [cat : Catalogs, at : Nat]
    BY LogTyped
  <2> QED
    BY <1>1, <1>3, <2>1, AppendProperties, LogTyped
<1>4. (\A i \in 1 .. Version : log'[i] = log[i]) => \A v \in 0 .. Version : Doc(v)' = Doc(v)
  BY LogTyped DEF Doc, Empty
<1>5. CASE \E c \in Catalogs : log' = Append(log, [cat |-> c, at |-> now])
  <2>1. /\ log' \in Seq([cat : Catalogs, at : Nat])
        /\ Version' \in Nat /\ DOMAIN log' = 1 .. Version'
        /\ Version' = Version + 1
        /\ \A i \in 1 .. Version : log'[i] = log[i]
        /\ log'[Version'].at = now
    BY <1>3, <1>5
  <2>2. Version \in Nat
    BY LogTyped
  <2> QED
    BY <1>4, <2>1, <2>2
<1> QED
  BY <1>2, <1>5 DEF Grown

\* A save that advances the log stores its document; one that does not had it stored.
LEMMA SavedLogIs ==
    ASSUME TypeOK, NEW c \in Catalogs, log' = SavedLog(c)
    PROVE  Grown /\ (log' # log => Stored' = c /\ Version' = Version + 1)
<1>1. CASE log' = log
  BY <1>1 DEF Grown
<1>2. CASE log' # log
  <2>1. log' = Append(log, [cat |-> c, at |-> now])
    BY <1>2 DEF SavedLog
  <2>2. Grown
    BY <2>1 DEF Grown
  <2>3. Version' = Version + 1 /\ log' # <<>> /\ log'[Len(log')].cat = c
    BY <2>1, LogTyped, AppendProperties DEF TypeOK, Version
  <2> QED
    BY <2>2, <2>3 DEF Stored
<1> QED
  BY <1>1, <1>2

\* What a mutation means depends on the log alone.
LEMMA MutatedSame ==
    ASSUME NEW c, NEW m, log' = log PROVE Mutated(c, m)' = Mutated(c, m)
<1>1. Hash(c, m)' = Hash(c, m)
  BY DEF Hash, Version
<1> QED
  BY <1>1 DEF Mutated

\* A snapshot says the truth for ever, if not the latest one.
LEMMA SnapStays ==
    ASSUME TypeOK, NEW p \in Snapshots, SnapInv(p), Grown, now \in Nat, now' \in Nat, now <= now'
    PROVE  SnapInv(p)'
<1>1. p.ver \in 0 .. Version /\ p.ver \in Nat /\ p.fresh \in Nat
  BY LogTyped DEF SnapInv, Snapshots
<1>2. p.ver <= Version' /\ p.cat = Doc(p.ver)'
  BY <1>1, GrownIs, LogTyped DEF SnapInv
<1>3. p.fresh <= now'
  BY <1>1 DEF SnapInv
<1>4. p.ver < Version' => \E limit \in {RefreshLimit, MutateLimit} : p.fresh <= log'[p.ver + 1].at + limit
  <2>1. CASE p.ver < Version
    BY <1>1, <2>1, GrownIs, LogTyped DEF SnapInv
  <2>2. CASE p.ver = Version /\ Version < Version'
    <3>1. log'[p.ver + 1].at = now
      BY <2>2, GrownIs, LogTyped
    <3> QED
      BY <1>1, <3>1, LimitsAssumption DEF SnapInv
  <2> QED
    BY <1>1, <2>1, <2>2, GrownIs, LogTyped
<1>5. \A s \in Servers : CompiledInv(p.cat, s, p.servers[s])
  BY DEF SnapInv
<1> QED
  BY <1>2, <1>3, <1>4, <1>5 DEF SnapInv
-----------------------------------------------------------------------------
(* build()                                                                 *)

\* An old snapshot that build() may look at: its servers are those of its document.
LEMMA BuiltIs ==
    ASSUME NEW c \in Catalogs, NEW ver \in Nat, NEW on \in SUBSET Apps, NEW rt \in Runtimes,
           NEW old \in Snapshots \cup {None}, NEW readable \in SUBSET Servers,
           old # None => \A s \in Servers : CompiledInv(old.cat, s, old.servers[s]),
           old # None /\ old.ver = ver => old.cat = c,
           NEW s \in Servers
    PROVE  LET d == Built(c, ver, on, rt, old, readable)[s]
           IN  d \in Compileds \cup {None} /\ CompiledInv(c, s, d)
<1> DEFINE d == Built(c, ver, on, rt, old, readable)[s]
           bare == [config |-> c.servers[s], error |-> FALSE, rev |-> None, views |-> [k \in Keys |-> None]]
           v == rt.rev[c.servers[s].app]
<1> SUFFICES d \in Compileds \cup {None} /\ CompiledInv(c, s, d)
  OBVIOUS
<1>1. CASE c.servers[s] = None
  BY <1>1 DEF Built, CompiledInv
<1>2. CASE c.servers[s] # None
  <2>1. c.servers[s] \in ServerConfigs /\ c.servers[s].app \in Apps /\ c.servers[s].enabled \in BOOLEAN
    BY <1>2 DEF Catalogs, ServerConfigs
  <2>2. v \in Revs \cup {None}
    BY <2>1 DEF Runtimes
  <2>3. Views(c, s) \in [Keys -> (SUBSET Tools) \cup {None}]
    BY DEF Views, ToolsOf
  <2>4. bare \in Compileds
    BY <2>1 DEF Compileds
  <2>5. \/ d = bare /\ ~c.servers[s].enabled
        \/ d = [bare EXCEPT !.error = TRUE]
        \/ d = old.servers[s] /\ Reusable(old, ver, rt, s, v)
        \/ d = [bare EXCEPT !.rev = v, !.views = Views(c, s)] /\ AllCompile(c, s, v)
        \/ d = [bare EXCEPT !.rev = v, !.error = TRUE]
    BY <1>2 DEF Built
  <2> HIDE DEF d, v
  <2>6. CASE d = bare /\ ~c.servers[s].enabled
    BY <1>2, <2>4, <2>6 DEF CompiledInv
  <2>7. CASE d = [bare EXCEPT !.error = TRUE] \/ d = [bare EXCEPT !.rev = v, !.error = TRUE]
    BY <1>2, <2>1, <2>2, <2>4, <2>7 DEF CompiledInv, Compileds
  <2>8. CASE d = old.servers[s] /\ Reusable(old, ver, rt, s, v)
    <3>1. old \in Snapshots /\ old.cat = c /\ CompiledInv(c, s, d)
      BY <2>8 DEF Reusable
    <3> QED
      BY <2>8, <3>1 DEF Snapshots
  <2>9. CASE d = [bare EXCEPT !.rev = v, !.views = Views(c, s)] /\ AllCompile(c, s, v)
    <3>1. d \in Compileds /\ d.config = c.servers[s] /\ d.rev = v /\ d.views = Views(c, s)
      BY <2>1, <2>2, <2>3, <2>9 DEF Compileds
    <3> QED
      BY <1>2, <2>9, <3>1 DEF CompiledInv
  <2> QED
    BY <2>5, <2>6, <2>7, <2>8, <2>9 DEF d
<1> QED
  BY <1>1, <1>2

\* A candidate that is accepted compiles: nothing is reused for it, because what a
\* replica has of version 0 is empty.
LEMMA CandidateCompiles ==
    ASSUME IInv, NEW w \in Workers, CandidateAccepted(w, Servers),
           NEW c \in Catalogs, NEW m \in Mutations, c = job[w].cat, m = job[w].mut,
           Valid(c), Exists(Stored, m), c = Mutated(Stored, m)
    PROVE  CompilesIn(c, m, apps, run[w[1]])
<1> DEFINE s == IF m.kind = "tool" THEN m.new.server ELSE m.id
           rt == run[w[1]]
           old == current[w[1]]
           v == rt.rev[c.servers[s].app]
           d == Built(c, 0, apps, rt, old, Servers)[s]
<1> SUFFICES ASSUME m.kind \in {"tool", "server"}, m.how # "delete", c.servers[s].enabled
             PROVE  c.servers[s].app \in apps /\ AllCompile(c, s, v)
  BY DEF CompilesIn
<1>0. Stored \in Catalogs
  BY LogTyped DEF IInv
<1>1. s \in Servers /\ c.servers[s] # None
  <2>1. CASE m.kind = "tool"
    <3>1. m.id \in Tools /\ m.new \in ToolConfigs /\ m.new # None
      BY <2>1, MutationsAssumption, NoConfigAssumption
    <3>2. c.tools = [Stored.tools EXCEPT ![m.id] = m.new]
      <4>1. c = [Stored EXCEPT !.tools[m.id] = m.new]
        BY <2>1 DEF Mutated
      <4> QED
        BY <4>1, <1>0 DEF Catalogs
    <3>3. c.tools[m.id] = m.new
      BY <3>1, <3>2, <1>0 DEF Catalogs
    <3>4. m.new.server \in Servers
      BY <3>1 DEF ToolConfigs
    <3>5. c.servers[m.new.server] # None
      BY <3>1, <3>3 DEF Valid
    <3>6. s = m.new.server
      BY <2>1
    <3> HIDE DEF s, rt, old, v, d
    <3> QED
      BY <3>4, <3>5, <3>6
  <2>2. CASE m.kind = "server"
    <3>1. m.id \in Servers /\ m.new \in ServerConfigs /\ m.new # None
      BY <2>2, MutationsAssumption, NoConfigAssumption
    <3>2. c = [Stored EXCEPT !.servers[m.id] = m.new]
      BY <2>2 DEF Mutated
    <3> QED
      BY <2>2, <3>1, <3>2, <1>0 DEF Catalogs
  <2> QED
    BY <2>1, <2>2
<1>2. ~(d.config.enabled /\ d.error)
  BY DEF CandidateAccepted, PendingVersion
<1> HIDE DEF s
<1>3. \/ d = [config |-> c.servers[s], error |-> TRUE, rev |-> None, views |-> [k \in Keys |-> None]]
      \/ d = [config |-> c.servers[s], error |-> TRUE, rev |-> v, views |-> [k \in Keys |-> None]]
      \/ c.servers[s].app \in apps /\ Reusable(old, 0, rt, s, v)
      \/ c.servers[s].app \in apps /\ AllCompile(c, s, v)
  BY <1>1 DEF Built
<1>4. ~Reusable(old, 0, rt, s, v)
  <2> SUFFICES ASSUME old # None, old.ver = 0, old.servers[s] # None PROVE FALSE
    BY DEF Reusable
  <2>1. SnapInv(old)
    BY DEF IInv, Workers
  <2>2. CompiledInv(Empty, s, old.servers[s])
    BY <1>1, <2>1 DEF SnapInv, Doc
  <2> QED
    BY <1>1, <2>2 DEF CompiledInv, Empty
<1> HIDE DEF d
<1>5. d # [config |-> c.servers[s], error |-> TRUE, rev |-> None, views |-> [k \in Keys |-> None]]
  BY <1>2
<1>6. d # [config |-> c.servers[s], error |-> TRUE, rev |-> v, views |-> [k \in Keys |-> None]]
  BY <1>2
<1> QED
  BY <1>3, <1>4, <1>5, <1>6
-----------------------------------------------------------------------------
(* What a step leaves alone                                                *)

\* A worker that does not take part keeps what it knows.
LEMMA OtherWorker ==
    ASSUME IInv, Grown, now' \in Nat, now <= now',
           NEW v \in Workers, pc'[v] = pc[v], job'[v] = job[v],
           pc[v] = "idle" \/ (confirmed'[v[1]] = confirmed[v[1]] /\ current'[v[1]] = current[v[1]])
    PROVE  WorkerInv(v)' /\ EditInv(v)' /\ ReadInv(v)'
<1>0. TypeOK /\ WorkerInv(v) /\ EditInv(v) /\ ReadInv(v) /\ job[v] \in Jobs /\ now \in Nat
  BY LogTyped DEF IInv, TypeOK
<1>1. WorkerInv(v)'
  BY <1>0, GrownIs, LogTyped DEF WorkerInv, Jobs
<1>2. EditInv(v)'
  <2> SUFFICES ASSUME Edits(v), Version' = job[v].base PROVE EditInv(v)'
    BY <1>0 DEF EditInv, Edits
  <2>1. log' = log
    BY <1>0, GrownIs, LogTyped DEF WorkerInv, Edits, Jobs
  <2>2. Stored' = Stored /\ Version' = Version
    BY <2>1 DEF Stored, Version
  <2>3. Mutated(Stored, job[v].mut)' = Mutated(Stored, job[v].mut)
    BY <2>1, <2>2, MutatedSame
  <2> QED
    BY <1>0, <2>2, <2>3 DEF EditInv, Edits
<1>3. ReadInv(v)'
  <2>1. pc[v] = "compile" => job[v].fresh <= now' /\ job[v].fresh <= job[v].start + Limit(v)
    BY <1>0 DEF ReadInv, Jobs
  <2> SUFFICES ASSUME Read(v) PROVE ReadInv(v)'
    BY <2>1 DEF ReadInv, Read, Limit
  <2>2. job[v].ver \in 0 .. Version /\ job[v].ver <= Version' /\ job[v].cat = Doc(job[v].ver)'
    BY <1>0, GrownIs, LogTyped DEF ReadInv, Jobs
  <2>3. job[v].ver < Version' => job[v].start <= log'[job[v].ver + 1].at
    <3>1. CASE job[v].ver < Version
      <4>1. job[v].ver + 1 \in 1 .. Version
        BY <1>0, <2>2, <3>1, LogTyped
      <4>2. log'[job[v].ver + 1] = log[job[v].ver + 1]
        BY <1>0, <4>1, GrownIs
      <4> QED
        BY <1>0, <3>1, <4>2 DEF ReadInv
    <3>2. CASE job[v].ver = Version
      BY <1>0, <3>2, GrownIs, LogTyped DEF WorkerInv, Read, Jobs
    <3> QED
      BY <1>0, <2>2, LogTyped, <3>1, <3>2
  <2>4. pc[v] # "idle"
    BY DEF Read
  <2> QED
    BY <1>0, <2>1, <2>2, <2>3, <2>4 DEF ReadInv, Read, Limit
<1> QED
  BY <1>1, <1>2, <1>3

\* A published snapshot that stays says the truth.
LEMMA CurrentStays ==
    ASSUME IInv, Grown, now' \in Nat, now <= now', NEW r \in Replicas, current'[r] = current[r]
    PROVE  (current[r] # None => SnapInv(current[r]))'
<1> SUFFICES ASSUME current[r] # None PROVE SnapInv(current[r])'
  OBVIOUS
<1>0. TypeOK /\ now \in Nat /\ current[r] \in Snapshots \cup {None}
  BY LogTyped DEF IInv, TypeOK
<1> PICK p \in Snapshots : p = current[r]
  BY <1>0
<1>1. SnapInv(p)'
  BY <1>0, SnapStays DEF IInv
<1> QED
  BY <1>1 DEF SnapInv

\* A replica whose snapshot stays keeps the promise of its confirmed saves, unless the
\* worker that is to read one back has given up.
LEMMA SameReplica ==
    ASSUME IInv, Grown, now' \in Nat, now <= now', NEW r \in Replicas,
           current'[r] = current[r], confirmed'[r] = confirmed[r],
           pc[<<r, "mutate">>] \in {"reload", "stamp", "compile"} =>
               pc'[<<r, "mutate">>] \in {"reload", "stamp", "compile"}
    PROVE  ConfirmedInv(r)' /\ (current[r] # None => SnapInv(current[r]))'
<1>0. TypeOK /\ ConfirmedInv(r) /\ now \in Nat /\ confirmed[r] \in Nat /\ current[r] \in Snapshots \cup {None}
  BY LogTyped DEF IInv, TypeOK
<1>1. ConfirmedInv(r)'
  BY <1>0, GrownIs, LogTyped DEF ConfirmedInv
<1>2. (current[r] # None => SnapInv(current[r]))'
  BY CurrentStays
<1> QED
  BY <1>1, <1>2

\* Requests keep the snapshot they took and the authority they had.
LEMMA RequestsKeep ==
    ASSUME IInv, Grown, now' \in Nat, now <= now', NEW q \in Requests, reqs'[q] = reqs[q]
    PROVE  /\ LookedInv(q)'
           /\ reqs'[q].pc = "admitted" => reqs'[q].at <= now'
<1>0. TypeOK /\ now \in Nat /\ LookedInv(q) /\ reqs[q] \in Lookeds \cup Admitteds \cup {NoReq}
  BY LogTyped DEF IInv, TypeOK
<1>1. ASSUME reqs[q].pc = "looked" PROVE LookedInv(q)'
  <2>1. reqs[q] \in Lookeds
    BY <1>0, <1>1 DEF Lookeds, Admitteds, NoReq
  <2> PICK p \in Snapshots : p = reqs[q].snap
    BY <2>1 DEF Lookeds
  <2>2. SnapInv(p)'
    BY <1>0, <1>1, SnapStays DEF LookedInv
  <2>3. reqs[q].at \in Nat
    BY <2>1 DEF Lookeds
  <2> QED
    BY <1>0, <1>1, <2>2, <2>3 DEF LookedInv, SnapInv
<1>2. ASSUME reqs[q].pc = "admitted" PROVE reqs[q].at <= now'
  <2>1. reqs[q].at \in Nat
    BY <1>0, <1>2 DEF Lookeds, Admitteds, NoReq
  <2> QED
    BY <1>0, <1>2, <2>1 DEF IInv
<1> QED
  BY <1>1, <1>2 DEF LookedInv

\* The authority of a request that was admitted, or that is admitted as it was.
LEMMA AuthorityKeeps ==
    ASSUME IInv, Grown, reqs' = reqs
    PROVE  BindingsMatchRuntime' /\ AuthorityExpires'
<1>1. BindingsMatchRuntime'
  BY DEF IInv, BindingsMatchRuntime
<1>2. ASSUME NEW q \in Requests, reqs[q].pc = "admitted"
      PROVE  \E i \in DOMAIN log' :
                /\ Authorises(log'[i].cat, reqs[q].hash, reqs[q].server, reqs[q].tool)
                /\ \/ i = Len(log')
                   \/ \E limit \in {RefreshLimit, MutateLimit} :
                        log'[i + 1].at + Expiry + limit >= reqs[q].at
  <2>0. TypeOK /\ reqs[q].at <= now /\ reqs[q].at \in Nat /\ now \in Nat
    BY <1>2, LogTyped DEF IInv, TypeOK, Lookeds, Admitteds, NoReq
  <2> PICK i \in DOMAIN log :
             /\ Authorises(log[i].cat, reqs[q].hash, reqs[q].server, reqs[q].tool)
             /\ \/ i = Len(log)
                \/ \E limit \in {RefreshLimit, MutateLimit} :
                     log[i + 1].at + Expiry + limit >= reqs[q].at
    BY <1>2 DEF IInv, AuthorityExpires
  <2>1. i \in 1 .. Version /\ i \in DOMAIN log' /\ log'[i] = log[i]
    BY <2>0, GrownIs, LogTyped
  <2>2. CASE i < Version
    <3>1. log'[i + 1] = log[i + 1]
      BY <2>0, <2>1, <2>2, GrownIs, LogTyped
    <3> QED
      BY <2>1, <2>2, <3>1 DEF Version
  <2>3. CASE i = Version
    <3>1. CASE Version' = Version
      BY <2>1, <2>3, <3>1 DEF Version
    <3>2. CASE Version' = Version + 1
      <4>1. log'[i + 1].at = now
        BY <2>0, <2>3, <3>2, GrownIs, LogTyped
      <4> QED
        BY <2>0, <2>1, <4>1, LimitsAssumption
    <3> QED
      BY <2>0, <3>1, <3>2, GrownIs DEF Version
  <2> QED
    BY <2>0, <2>1, <2>2, <2>3, LogTyped
<1>3. AuthorityExpires'
  BY <1>2 DEF AuthorityExpires, Authorises
<1> QED
  BY <1>1, <1>3

\* One worker takes a step: only what it and its replica know has to be looked at.
LEMMA WorkerStep ==
    ASSUME IInv, NEW w \in Workers, MuFree(w) \/ pc[w] # "idle",
           \A v \in Workers : v # w => pc'[v] = pc[v] /\ job'[v] = job[v],
           \A r \in Replicas : r # w[1] => current'[r] = current[r] /\ confirmed'[r] = confirmed[r],
           Grown, LogInv', UNCHANGED <<reqs, now>>, TypeOK',
           WorkerInv(w)', EditInv(w)', ReadInv(w)',
           ConfirmedInv(w[1])', (current[w[1]] # None => SnapInv(current[w[1]]))'
    PROVE  IInv'
<1>0. TypeOK /\ MuInv /\ now \in Nat /\ now' \in Nat /\ now <= now'
  BY LogTyped DEF IInv
<1>1. \A v \in Workers : v # w /\ v[1] = w[1] => pc[v] = "idle"
  BY <1>0 DEF MuInv, MuFree
<1>2. MuInv'
  BY <1>0, <1>1 DEF MuInv
<1>3. ASSUME NEW v \in Workers, v # w PROVE WorkerInv(v)' /\ EditInv(v)' /\ ReadInv(v)'
  <2>1. v[1] \in Replicas
    BY DEF Workers
  <2> QED
    BY <1>0, <1>1, <1>3, <2>1, OtherWorker
<1>4. ASSUME NEW r \in Replicas, r # w[1]
      PROVE  ConfirmedInv(r)' /\ (current[r] # None => SnapInv(current[r]))'
  <2>1. <<r, "mutate">> \in Workers /\ <<r, "mutate">> # w
    BY <1>4 DEF Workers
  <2> QED
    BY <1>0, <1>4, <2>1, SameReplica
<1>5. \A r \in Replicas : ConfirmedInv(r)' /\ (current[r] # None => SnapInv(current[r]))'
  BY <1>4
<1>6. \A v \in Workers : WorkerInv(v)' /\ EditInv(v)' /\ ReadInv(v)'
  BY <1>3
<1>7. \A q \in Requests : LookedInv(q)' /\ (reqs'[q].pc = "admitted" => reqs'[q].at <= now')
  BY <1>0, RequestsKeep
<1>8. BindingsMatchRuntime' /\ AuthorityExpires'
  BY AuthorityKeeps
<1> QED
  BY <1>2, <1>5, <1>6, <1>7, <1>8 DEF IInv

\* Nothing is saved.
LEMMA SameLog == ASSUME IInv, log' = log PROVE Grown /\ LogInv'
  BY DEF IInv, Grown, LogInv

LEMMA RefreshBeginKeeps == ASSUME IInv, NEW w \in Workers, RefreshBegin(w) PROVE IInv'
<1> USE DEF RefreshBegin, Goto, store, served
<1>0. TypeOK /\ w[1] \in Replicas /\ w[2] = "refresh" /\ now \in Nat
  BY LogTyped DEF IInv, Workers
<1>1. job'[w] = [NoJob EXCEPT !.start = now] /\ pc'[w] = "load"
  BY <1>0 DEF TypeOK
<1>2. TypeOK'
  BY <1>0 DEF TypeOK, Jobs, NoJob
<1>3. WorkerInv(w)' /\ EditInv(w)' /\ ReadInv(w)'
  BY <1>0, <1>1 DEF WorkerInv, EditInv, ReadInv, Edits, Read, NoJob
<1>4. <<w[1], "mutate">> \in Workers /\ <<w[1], "mutate">> # w
  BY <1>0 DEF Workers
<1>5. ConfirmedInv(w[1])' /\ (current[w[1]] # None => SnapInv(current[w[1]]))'
  BY <1>0, <1>4, SameLog, SameReplica DEF TypeOK
<1>6. \A v \in Workers : v # w => pc'[v] = pc[v] /\ job'[v] = job[v]
  BY <1>0 DEF TypeOK
<1> QED
  BY <1>2, <1>3, <1>5, <1>6, SameLog, WorkerStep

LEMMA MutateBeginKeeps ==
    ASSUME IInv, NEW w \in Workers, NEW m \in Mutations, NEW v \in {0, Version}, MutateBegin(w, m, v)
    PROVE  IInv'
<1> USE DEF MutateBegin, Goto, store, served
<1>0. TypeOK /\ w[1] \in Replicas /\ w[2] = "mutate" /\ now \in Nat /\ v \in Nat /\ v <= Version
      /\ Version \in Nat
  BY LogTyped DEF IInv, Workers
<1>1. job'[w] = [NoJob EXCEPT !.start = now, !.mut = m, !.base = v] /\ pc'[w] = "load" /\ pc[w] = "idle"
  BY <1>0 DEF TypeOK, MuFree
<1>2. TypeOK'
  BY <1>0 DEF TypeOK, Jobs, NoJob
<1>3. WorkerInv(w)' /\ EditInv(w)' /\ ReadInv(w)'
  <2>1. job'[w].start = now /\ job'[w].mut = m /\ job'[w].base = v
    <3> HIDE DEF MutateBegin
    <3> QED
      BY <1>1 DEF NoJob
  <2>2. Version' = Version
    BY DEF Version
  <2> QED
    BY <1>0, <1>1, <2>1, <2>2 DEF WorkerInv, EditInv, ReadInv, Edits, Read
<1>4. <<w[1], "mutate">> \in Workers /\ pc[<<w[1], "mutate">>] = "idle"
  BY <1>0 DEF Workers, MuFree
<1>5. ConfirmedInv(w[1])' /\ (current[w[1]] # None => SnapInv(current[w[1]]))'
  BY <1>0, <1>4, SameLog, SameReplica
<1>6. \A u \in Workers : u # w => pc'[u] = pc[u] /\ job'[u] = job[u]
  BY <1>0 DEF TypeOK
<1> QED
  BY <1>2, <1>3, <1>5, <1>6, SameLog, WorkerStep

\* A worker that forgets everything has nothing left to prove.
LEMMA EndsIs ==
    ASSUME IInv, NEW w \in Workers, Ends(w)
    PROVE  /\ pc'[w] = "idle" /\ job'[w] = NoJob
           /\ pc' \in [Workers -> {"idle", "load", "list", "save", "reload", "stamp", "compile"}]
           /\ job' \in [Workers -> Jobs]
           /\ \A v \in Workers : v # w => pc'[v] = pc[v] /\ job'[v] = job[v]
           /\ WorkerInv(w)' /\ EditInv(w)' /\ ReadInv(w)'
<1>0. TypeOK
  BY DEF IInv
<1>1. pc'[w] = "idle" /\ job'[w] = NoJob
  BY <1>0 DEF TypeOK, Ends, Goto
<1>2. NoJob \in Jobs
  BY DEF NoJob, Jobs
<1>3. /\ pc' \in [Workers -> {"idle", "load", "list", "save", "reload", "stamp", "compile"}]
      /\ job' \in [Workers -> Jobs]
      /\ \A v \in Workers : v # w => pc'[v] = pc[v] /\ job'[v] = job[v]
  BY <1>0, <1>2 DEF TypeOK, Ends, Goto
<1>4. WorkerInv(w)' /\ EditInv(w)' /\ ReadInv(w)'
  BY <1>1 DEF WorkerInv, EditInv, ReadInv, Edits, Read
<1> QED
  BY <1>1, <1>3, <1>4

\* The worker that read a document still has it, as long as nothing else happens.
LEMMA LoadKeeps == ASSUME IInv, NEW w \in Workers, Load(w) PROVE IInv'
<1> USE DEF Load, store, served
<1>0. /\ TypeOK /\ WorkerInv(w) /\ w[1] \in Replicas /\ w[2] \in {"refresh", "mutate"}
      /\ now \in Nat /\ Version \in Nat /\ Stored \in Catalogs /\ Stored = Doc(Version)
      /\ ConfirmedInv(w[1]) /\ (current[w[1]] # None => SnapInv(current[w[1]]))
      /\ job[w] \in Jobs /\ job[w].start <= now
  BY LogTyped DEF IInv, Workers, TypeOK, WorkerInv
<1>1. Version' = Version /\ Stored' = Stored /\ Doc(Version)' = Doc(Version)
  BY DEF Version, Stored, Doc
<1>2. <<w[1], "mutate">> \in Workers /\ (w[2] = "mutate" => w = <<w[1], "mutate">>)
      /\ (w[2] = "refresh" => w # <<w[1], "mutate">>)
  BY <1>0 DEF Workers
<1>3. CASE w[2] = "refresh" /\ Valid(Stored)
           /\ job' = [job EXCEPT ![w].cat = Stored, ![w].ver = Version] /\ Goto(w, "list")
  <2>1. job'[w] = [job[w] EXCEPT !.cat = Stored, !.ver = Version] /\ pc'[w] = "list"
        /\ \A u \in Workers : u # w => pc'[u] = pc[u] /\ job'[u] = job[u]
    BY <1>0, <1>3 DEF TypeOK, Goto
  <2>2. job'[w].cat = Stored /\ job'[w].ver = Version /\ job'[w].start = job[w].start /\ job'[w] \in Jobs
    BY <1>0, <2>1 DEF Jobs
  <2>3. TypeOK'
    BY <1>0, <1>3, <2>1, <2>2 DEF TypeOK, Goto
  <2>4. WorkerInv(w)' /\ EditInv(w)' /\ ReadInv(w)'
    BY <1>0, <1>1, <1>3, <2>1, <2>2 DEF WorkerInv, EditInv, ReadInv, Edits, Read, ConfirmedInv, SnapInv
  <2>5. ConfirmedInv(w[1])' /\ (current[w[1]] # None => SnapInv(current[w[1]]))'
    BY <1>0, <1>2, <1>3, <2>1, SameLog, SameReplica
  <2> QED
    BY <2>1, <2>3, <2>4, <2>5, SameLog, WorkerStep
<1>4. CASE w[2] = "mutate" /\ Legal(w) /\ job' = [job EXCEPT ![w].cat = Mutated(Stored, job[w].mut)]
           /\ Goto(w, "list")
  <2>1. job'[w] = [job[w] EXCEPT !.cat = Mutated(Stored, job[w].mut)] /\ pc'[w] = "list"
        /\ \A u \in Workers : u # w => pc'[u] = pc[u] /\ job'[u] = job[u]
    BY <1>0, <1>4 DEF TypeOK, Goto
  <2>2. job[w].mut \in Mutations /\ Mutated(Stored, job[w].mut) \in Catalogs
    BY <1>0, <1>4, MutatedIs DEF WorkerInv, Legal
  <2>3. /\ job'[w].cat = Mutated(Stored, job[w].mut) /\ job'[w].start = job[w].start /\ job'[w] \in Jobs
        /\ job'[w].mut = job[w].mut /\ job'[w].base = job[w].base /\ job[w].base = Version
    BY <1>0, <1>4, <2>1, <2>2 DEF Jobs, Legal
  <2>4. TypeOK'
    BY <1>0, <1>4, <2>1, <2>3 DEF TypeOK, Goto
  <2>5. Mutated(Stored, job[w].mut)' = Mutated(Stored, job[w].mut)
    BY <1>1, <2>3, MutatedSame
  <2>6. EditInv(w)'
    BY <1>1, <1>4, <2>1, <2>2, <2>3, <2>5 DEF EditInv, Legal
  <2>7. WorkerInv(w)' /\ ReadInv(w)'
    BY <1>0, <1>1, <1>4, <2>1, <2>2, <2>3 DEF WorkerInv, ReadInv, Read
  <2>8. ConfirmedInv(w[1])' /\ (current[w[1]] # None => SnapInv(current[w[1]]))'
    BY <1>0, <1>2, <1>4, SameLog, SameReplica
  <2> QED
    BY <2>1, <2>4, <2>6, <2>7, <2>8, SameLog, WorkerStep
<1>5. CASE w[2] = "mutate" /\ Ends(w)
  <2>1. TypeOK'
    BY <1>0, <1>5, EndsIs DEF TypeOK
  <2>2. ConfirmedInv(w[1])' /\ (current[w[1]] # None => SnapInv(current[w[1]]))'
    BY <1>0, <1>2, <1>5, SameLog, SameReplica
  <2> QED
    BY <1>5, <2>1, <2>2, EndsIs, SameLog, WorkerStep
<1> QED
  BY <1>3, <1>4, <1>5

LEMMA FailsKeeps == ASSUME IInv, NEW w \in Workers, Fails(w) PROVE IInv'
<1> USE DEF Fails, store, served
<1>0. TypeOK /\ w[1] \in Replicas /\ pc[w] # "idle"
  BY DEF IInv, Workers
<1>1. faults' \in 0 .. MaxFaults
  BY <1>0, BoundsAssumption DEF TypeOK, Late, Fault
<1>2. TypeOK'
  BY <1>0, <1>1, EndsIs DEF TypeOK
<1>3. <<w[1], "mutate">> \in Workers /\ (w = <<w[1], "mutate">> \/ w # <<w[1], "mutate">>)
  BY <1>0 DEF Workers
<1>4. pc[<<w[1], "mutate">>] \in {"reload", "stamp", "compile"} =>
          pc'[<<w[1], "mutate">>] \in {"reload", "stamp", "compile"}
  BY <1>3, EndsIs
<1>5. ConfirmedInv(w[1])' /\ (current[w[1]] # None => SnapInv(current[w[1]]))'
  BY <1>0, <1>4, LogTyped, SameLog, SameReplica
<1> QED
  BY <1>0, <1>2, <1>5, EndsIs, SameLog, WorkerStep

\* Only a candidate that compiles goes on to be saved.
LEMMA ListAppsKeeps == ASSUME IInv, NEW w \in Workers, ListApps(w) PROVE IInv'
<1> USE DEF ListApps, store, served
<1>0. /\ TypeOK /\ WorkerInv(w) /\ EditInv(w) /\ ReadInv(w) /\ w[1] \in Replicas
      /\ w[2] \in {"refresh", "mutate"} /\ pc[w] = "list" /\ job[w] \in Jobs
      /\ apps \in SUBSET Apps /\ run[w[1]] \in Runtimes
  BY DEF IInv, Workers, TypeOK
<1>1. Version' = Version /\ Stored' = Stored /\ \A v \in Nat : Doc(v)' = Doc(v)
  BY DEF Version, Stored, Doc
<1>2. <<w[1], "mutate">> \in Workers /\ (w = <<w[1], "mutate">> \/ w # <<w[1], "mutate">>)
  BY <1>0 DEF Workers
<1>3. CASE Goto(w, "stamp") /\ w[2] = "refresh" /\ UNCHANGED faults
  <2>1. pc'[w] = "stamp"
    BY <1>0, <1>3 DEF TypeOK, Goto
  <2>2. /\ job'[w] = [job[w] EXCEPT !.apps = apps, !.rt = run[w[1]]]
        /\ \A u \in Workers : u # w => pc'[u] = pc[u] /\ job'[u] = job[u]
    BY <1>0, <1>3, <2>1 DEF TypeOK, Goto
  <2>3. /\ job'[w] \in Jobs /\ job'[w].cat = job[w].cat /\ job'[w].ver = job[w].ver
        /\ job'[w].start = job[w].start /\ job'[w].mut = job[w].mut /\ job'[w].base = job[w].base
    <3> HIDE DEF ListApps
    <3> QED
      BY <1>0, <2>2 DEF Jobs
  <2>4. job'[w].rt = run[w[1]]
    <3> HIDE DEF ListApps
    <3> QED
      BY <1>0, <2>2 DEF Jobs
  <2>5. TypeOK'
    BY <1>0, <1>3, <2>1, <2>2, <2>3 DEF TypeOK, Goto
  <2>6. WorkerInv(w)' /\ EditInv(w)'
    BY <1>0, <1>1, <1>3, <2>1, <2>3, <2>4 DEF WorkerInv, EditInv, Edits
  <2>7. ReadInv(w)'
    BY <1>0, <1>1, <1>3, <2>1, <2>3 DEF ReadInv, Read, Jobs
  <2>8. w # <<w[1], "mutate">>
    BY <1>3
  <2>9. ConfirmedInv(w[1])' /\ (current[w[1]] # None => SnapInv(current[w[1]]))'
    BY <1>0, <1>2, <2>2, <2>8, LogTyped, SameLog, SameReplica
  <2> QED
    BY <1>0, <2>2, <2>5, <2>6, <2>7, <2>9, SameLog, WorkerStep
<1>4. CASE Goto(w, "save") /\ w[2] = "mutate" /\ UNCHANGED faults /\ CandidateAccepted(w, Servers)
  <2>1. pc'[w] = "save"
    BY <1>0, <1>4 DEF TypeOK, Goto
  <2>2. /\ job'[w] = [job[w] EXCEPT !.apps = apps, !.rt = run[w[1]]]
        /\ \A u \in Workers : u # w => pc'[u] = pc[u] /\ job'[u] = job[u]
    BY <1>0, <1>4, <2>1 DEF TypeOK, Goto
  <2>3. /\ job'[w] \in Jobs /\ job'[w].cat = job[w].cat /\ job'[w].ver = job[w].ver
        /\ job'[w].start = job[w].start /\ job'[w].mut = job[w].mut /\ job'[w].base = job[w].base
        /\ job'[w].rt = run[w[1]] /\ job'[w].apps = apps
    <3> HIDE DEF ListApps
    <3> QED
      BY <1>0, <2>2 DEF Jobs
  <2>4. TypeOK'
    BY <1>0, <1>4, <2>1, <2>2, <2>3 DEF TypeOK, Goto
  <2>5. WorkerInv(w)' /\ ReadInv(w)'
    BY <1>0, <1>1, <1>4, <2>1, <2>3 DEF WorkerInv, ReadInv, Read
  <2>6. EditInv(w)'
    <3>1. job[w].cat \in Catalogs /\ job[w].mut \in Mutations
      BY <1>0, <1>4 DEF EditInv, Edits, WorkerInv
    <3>2. ASSUME Version = job[w].base
          PROVE  /\ Exists(Stored, job[w].mut) /\ Valid(job[w].cat)
                 /\ job[w].cat = Mutated(Stored, job[w].mut)'
                 /\ CompilesIn(job[w].cat, job[w].mut, apps, run[w[1]])
      <4>1. Exists(Stored, job[w].mut) /\ Valid(job[w].cat) /\ job[w].cat = Mutated(Stored, job[w].mut)
        BY <1>0, <1>4, <3>2 DEF EditInv, Edits
      <4>2. Mutated(Stored, job[w].mut)' = Mutated(Stored, job[w].mut)
        BY <1>1, <2>3, MutatedSame
      <4>3. CompilesIn(job[w].cat, job[w].mut, apps, run[w[1]])
        BY <1>4, <3>1, <4>1, CandidateCompiles
      <4> QED
        BY <4>1, <4>2, <4>3
    <3> QED
      BY <1>1, <2>1, <2>3, <3>1, <3>2 DEF EditInv
  <2>7. ConfirmedInv(w[1])' /\ (current[w[1]] # None => SnapInv(current[w[1]]))'
    BY <1>0, <1>2, <2>2, LogTyped, SameLog, SameReplica
  <2> QED
    BY <1>0, <2>2, <2>4, <2>5, <2>6, <2>7, SameLog, WorkerStep
<1>5. CASE Goto(w, "idle") /\ w[2] = "mutate" /\ faults' \in 0 .. MaxFaults
  <2>1. Ends(w)
    BY <1>0, <1>5 DEF Ends, TypeOK, Goto
  <2>2. TypeOK'
    BY <1>0, <1>5, <2>1, EndsIs DEF TypeOK
  <2>3. ConfirmedInv(w[1])' /\ (current[w[1]] # None => SnapInv(current[w[1]]))'
    BY <1>0, <1>2, <2>1, EndsIs, LogTyped, SameLog, SameReplica
  <2> QED
    BY <1>0, <2>1, <2>2, <2>3, EndsIs, SameLog, WorkerStep
<1>6. Fault \/ UNCHANGED faults => faults' \in 0 .. MaxFaults
  BY <1>0, BoundsAssumption DEF TypeOK, Fault
<1> QED
  BY <1>3, <1>4, <1>5, <1>6

\* A save that happens appends the edit of what was stored, and its own secret at most.
LEMMA SaveGrows ==
    ASSUME IInv, NEW w \in Workers, pc[w] = "save", Unmoved(w), log' = SavedLog(job[w].cat)
    PROVE  /\ Grown /\ LogInv'
           /\ w[2] = "mutate" /\ job[w].mut \in Mutations /\ Exists(Stored, job[w].mut)
           /\ job[w].cat = Mutated(Stored, job[w].mut)
           /\ CompilesIn(job[w].cat, job[w].mut, job[w].apps, job[w].rt)
           /\ log' # log => Stored' = job[w].cat
<1>0. TypeOK /\ LogInv /\ WorkerInv(w) /\ EditInv(w) /\ w[2] = "mutate"
  BY DEF IInv, Workers, WorkerInv
<1>1. /\ job[w].mut \in Mutations /\ Exists(Stored, job[w].mut) /\ job[w].cat \in Catalogs
      /\ job[w].cat = Mutated(Stored, job[w].mut)
      /\ CompilesIn(job[w].cat, job[w].mut, job[w].apps, job[w].rt)
  BY <1>0 DEF WorkerInv, EditInv, Edits, Unmoved
<1>2. Grown /\ (log' # log => Stored' = job[w].cat /\ Version' = Version + 1)
  BY <1>0, <1>1, SavedLogIs
<1>3. LogInv'
  <2>1. CASE log' = log
    BY <1>0, <2>1, SameLog
  <2>2. CASE log' # log
    <3>1. Version' = Version + 1 /\ Stored' = Mutated(Stored, job[w].mut) /\ Version \in Nat
      BY <1>0, <1>1, <1>2, <2>2, LogTyped
    <3>2. log'[Version + 1].cat = Stored' /\ DOMAIN log' = 1 .. Version + 1
      BY <1>0, <1>2, <3>1, GrownIs DEF Stored, Version
    <3>3. \A k \in Keys : Stored.keys[k] # None => Stored.keys[k].hash <= Version
      BY <1>0, LogTyped DEF LogInv, Doc, Empty
    <3>4. \A k \in Keys : Stored.keys[k] # None => Stored.keys[k].hash \in Nat
      BY <1>0, LogTyped DEF Catalogs, KeyConfigs
    <3>5. \A k \in Keys : Stored'.keys[k] # None => Stored'.keys[k].hash <= Version + 1
      <4> TAKE k \in Keys
      <4>1. Stored'.keys[k] # None =>
               \/ Stored.keys[k] # None /\ Stored'.keys[k].hash = Stored.keys[k].hash
               \/ Stored'.keys[k].hash = Version + 1
        BY <1>0, <1>1, <3>1, LogTyped, MutatedIs
      <4> QED
        BY <3>1, <3>3, <3>4, <4>1
    <3>6. \A i \in DOMAIN log' : (i \in DOMAIN log /\ log'[i] = log[i]) \/ i = Version + 1
      BY <1>0, <1>2, <3>1, <3>2, GrownIs, LogTyped
    <3>7. ASSUME NEW i \in DOMAIN log', NEW k \in Keys, log'[i].cat.keys[k] # None
          PROVE  log'[i].cat.keys[k].hash <= i
      BY <1>0, <3>2, <3>5, <3>6, <3>7 DEF LogInv
    <3> QED
      BY <3>7 DEF LogInv
  <2> QED
    BY <2>1, <2>2
<1> QED
  BY <1>0, <1>1, <1>2, <1>3

LEMMA SaveKeeps == ASSUME IInv, NEW w \in Workers, Save(w) PROVE IInv'
<1> USE DEF Save
<1>0. /\ TypeOK /\ WorkerInv(w) /\ w[1] \in Replicas /\ pc[w] = "save" /\ w[2] = "mutate"
      /\ now \in Nat /\ now' = now /\ job[w] \in Jobs /\ Version \in Nat
  BY LogTyped DEF IInv, Workers, TypeOK, WorkerInv
<1>1. w = <<w[1], "mutate">>
  BY <1>0 DEF Workers
<1>2. CASE InTime(w) /\ Unmoved(w) /\ log' = SavedLog(job[w].cat) /\ Goto(w, "reload")
           /\ confirmed' = [confirmed EXCEPT ![w[1]] = Len(log')] /\ UNCHANGED <<job, faults>>
  <2>1. Grown /\ LogInv' /\ log' \in Seq([cat : Catalogs, at : Nat]) /\ Version' \in Nat /\ Version <= Version'
    BY <1>0, <1>2, SaveGrows, GrownIs
  <2>2. pc'[w] = "reload" /\ \A v \in Workers : v # w => pc'[v] = pc[v] /\ job'[v] = job[v]
    BY <1>0, <1>2 DEF TypeOK, Goto
  <2>3. TypeOK'
    BY <1>0, <1>2, <2>1 DEF TypeOK, Goto, Version
  <2>4. WorkerInv(w)' /\ EditInv(w)' /\ ReadInv(w)'
    BY <1>0, <1>2, <2>1, <2>2 DEF WorkerInv, EditInv, ReadInv, Edits, Read, Jobs
  <2>5. ConfirmedInv(w[1])'
    <3>1. confirmed'[w[1]] = Version'
      BY <1>0, <1>2 DEF TypeOK, Version
    <3>2. pc'[<<w[1], "mutate">>] = "reload"
      BY <1>1, <2>2
    <3> QED
      BY <2>1, <3>1, <3>2 DEF ConfirmedInv
  <2>6. (current[w[1]] # None => SnapInv(current[w[1]]))'
    BY <1>0, <2>1, CurrentStays
  <2>7. \A r \in Replicas : r # w[1] => current'[r] = current[r] /\ confirmed'[r] = confirmed[r]
    BY <1>0, <1>2 DEF TypeOK
  <2> QED
    BY <1>0, <2>1, <2>2, <2>3, <2>4, <2>5, <2>6, <2>7, WorkerStep
<1>3. CASE /\ Ends(w) /\ UNCHANGED confirmed /\ faults' \in 0 .. MaxFaults
           /\ log' = log \/ (Unmoved(w) /\ log' = SavedLog(job[w].cat))
  <2>1. Grown /\ LogInv' /\ log' \in Seq([cat : Catalogs, at : Nat])
    BY <1>0, <1>3, SameLog, SaveGrows, GrownIs
  <2>2. TypeOK'
    BY <1>0, <1>3, <2>1, EndsIs DEF TypeOK
  <2>3. ConfirmedInv(w[1])' /\ (current[w[1]] # None => SnapInv(current[w[1]]))'
    <3>1. <<w[1], "mutate">> \in Workers /\ pc[<<w[1], "mutate">>] = "save"
      BY <1>0, <1>1
    <3> QED
      BY <1>0, <1>3, <2>1, <3>1, SameReplica
  <2> QED
    BY <1>0, <1>3, <2>1, <2>2, <2>3, EndsIs, WorkerStep
<1>4. Late(w) \/ UNCHANGED faults => faults' \in 0 .. MaxFaults
  BY <1>0, BoundsAssumption DEF TypeOK, Late, Fault
<1> QED
  BY <1>2, <1>3, <1>4

LEMMA ReloadKeeps == ASSUME IInv, NEW w \in Workers, Reload(w) PROVE IInv'
<1> USE DEF Reload, store, served
<1>0. /\ TypeOK /\ WorkerInv(w) /\ w[1] \in Replicas /\ w[2] = "mutate" /\ pc[w] = "reload"
      /\ now \in Nat /\ Version \in Nat /\ Stored \in Catalogs /\ Stored = Doc(Version)
      /\ ConfirmedInv(w[1]) /\ (current[w[1]] # None => SnapInv(current[w[1]]))
      /\ job[w] \in Jobs /\ job[w].start <= now
  BY LogTyped DEF IInv, Workers, TypeOK, WorkerInv
<1>1. Version' = Version /\ Doc(Version)' = Doc(Version)
  BY DEF Version, Doc
<1>2. w = <<w[1], "mutate">>
  BY <1>0 DEF Workers
<1>3. job'[w] = [job[w] EXCEPT !.cat = Stored, !.ver = Version] /\ pc'[w] = "stamp"
      /\ \A u \in Workers : u # w => pc'[u] = pc[u] /\ job'[u] = job[u]
  BY <1>0 DEF TypeOK, Goto
<1>4. /\ job'[w] \in Jobs /\ job'[w].cat = Stored /\ job'[w].ver = Version /\ job'[w].rt = job[w].rt
      /\ job'[w].start = job[w].start /\ job'[w].mut = job[w].mut /\ job'[w].base = job[w].base
  <2> HIDE DEF Reload
  <2> QED
    BY <1>0, <1>3 DEF Jobs
<1>5. TypeOK'
  BY <1>0, <1>3, <1>4 DEF TypeOK, Goto
<1>6. WorkerInv(w)' /\ EditInv(w)' /\ ReadInv(w)'
  BY <1>0, <1>1, <1>3, <1>4 DEF WorkerInv, EditInv, ReadInv, Edits, Read, ConfirmedInv, SnapInv
<1>7. pc'[<<w[1], "mutate">>] = "stamp"
  BY <1>2, <1>3
<1>8. ConfirmedInv(w[1])' /\ (current[w[1]] # None => SnapInv(current[w[1]]))'
  BY <1>0, <1>7, SameLog, SameReplica
<1> QED
  BY <1>0, <1>3, <1>5, <1>6, <1>8, SameLog, WorkerStep

\* A worker that gives up and stops its replica from serving.
LEMMA StopsServing ==
    ASSUME IInv, NEW w \in Workers, pc[w] # "idle", Ends(w), faults' \in 0 .. MaxFaults,
           current' = [current EXCEPT ![w[1]] = None], UNCHANGED <<store, confirmed, run, reqs, now>>
    PROVE  IInv'
<1> USE DEF store
<1>0. TypeOK /\ w[1] \in Replicas /\ ConfirmedInv(w[1]) /\ current'[w[1]] = None
  BY DEF IInv, Workers, TypeOK
<1>1. TypeOK'
  BY <1>0, EndsIs DEF TypeOK
<1>2. ConfirmedInv(w[1])' /\ (current[w[1]] # None => SnapInv(current[w[1]]))'
  BY <1>0 DEF ConfirmedInv, Version
<1>3. \A r \in Replicas : r # w[1] => current'[r] = current[r] /\ confirmed'[r] = confirmed[r]
  BY <1>0 DEF TypeOK
<1> QED
  BY <1>0, <1>1, <1>2, <1>3, EndsIs, SameLog, WorkerStep

LEMMA ReloadFailsKeeps == ASSUME IInv, NEW w \in Workers, ReloadFails(w) PROVE IInv'
<1>1. faults' \in 0 .. MaxFaults
  BY BoundsAssumption DEF IInv, TypeOK, ReloadFails, Late, Fault
<1> QED
  BY <1>1, StopsServing DEF ReloadFails, AfterFailedReload

\* The answer is dated within the deadline, counted from the start of the job.
LEMMA StampKeeps == ASSUME IInv, NEW w \in Workers, Stamp(w) PROVE IInv'
<1> USE DEF Stamp, store
<1>0. /\ TypeOK /\ WorkerInv(w) /\ ReadInv(w) /\ MuInv /\ w[1] \in Replicas
      /\ w[2] \in {"refresh", "mutate"} /\ pc[w] = "stamp" /\ now \in Nat
      /\ job[w] \in Jobs /\ faults' \in 0 .. MaxFaults
  BY LogTyped DEF IInv, Workers, TypeOK
<1>1. Version' = Version /\ \A v \in Nat : Doc(v)' = Doc(v)
  BY DEF Version, Doc
<1>2. <<w[1], "mutate">> \in Workers /\ (w = <<w[1], "mutate">> \/ w # <<w[1], "mutate">>)
      /\ (w[2] = "refresh" => w # <<w[1], "mutate">>)
  BY <1>0 DEF Workers
<1>3. CASE InTime(w)
  <2>1. job'[w] = [job[w] EXCEPT !.fresh = now] /\ pc'[w] = "compile"
        /\ \A u \in Workers : u # w => pc'[u] = pc[u] /\ job'[u] = job[u]
    BY <1>0, <1>3 DEF TypeOK, Goto
  <2>2. /\ job'[w] \in Jobs /\ job'[w].cat = job[w].cat /\ job'[w].ver = job[w].ver
        /\ job'[w].rt = job[w].rt /\ job'[w].fresh = now
        /\ job'[w].start = job[w].start /\ job'[w].mut = job[w].mut /\ job'[w].base = job[w].base
    <3> HIDE DEF Stamp
    <3> QED
      BY <1>0, <2>1 DEF Jobs
  <2>3. TypeOK'
    <3>1. job' \in [Workers -> Jobs]
      BY <1>0, <1>3, <2>2 DEF TypeOK
    <3>2. pc' \in [Workers -> {"idle", "load", "list", "save", "reload", "stamp", "compile"}]
      BY <1>0, <1>3 DEF TypeOK, Goto
    <3>3. current' = current
      BY <1>3
    <3> QED
      BY <1>0, <3>1, <3>2, <3>3 DEF TypeOK
  <2>4. WorkerInv(w)' /\ EditInv(w)'
    BY <1>0, <1>1, <1>3, <2>1, <2>2 DEF WorkerInv, EditInv, Edits
  <2>5. ReadInv(w)'
    <3>1. now <= job[w].start + Limit(w)
      BY <1>0, <1>3, LimitsAssumption DEF InTime, Limit, Jobs
    <3>2. job[w].ver \in Nat
      BY <1>0 DEF Jobs
    <3> QED
      BY <1>0, <1>1, <1>3, <2>1, <2>2, <3>1, <3>2 DEF ReadInv, Read, Limit
  <2>6. ConfirmedInv(w[1])' /\ (current[w[1]] # None => SnapInv(current[w[1]]))'
    BY <1>0, <1>2, <1>3, <2>1, SameLog, SameReplica
  <2> QED
    BY <1>0, <1>3, <2>1, <2>3, <2>4, <2>5, <2>6, SameLog, WorkerStep
<1>4. CASE ~InTime(w) /\ w[2] = "mutate"
  BY <1>0, <1>4, StopsServing DEF AfterFailedReload
<1>5. CASE ~InTime(w) /\ w[2] = "refresh"
  <2>1. Ends(w) /\ current' = current
    BY <1>5
  <2>2. TypeOK'
    BY <1>0, <2>1, EndsIs DEF TypeOK
  <2>3. ConfirmedInv(w[1])' /\ (current[w[1]] # None => SnapInv(current[w[1]]))'
    BY <1>0, <1>2, <1>5, <2>1, EndsIs, SameLog, SameReplica
  <2> QED
    BY <1>0, <2>1, <2>2, <2>3, EndsIs, SameLog, WorkerStep
<1> QED
  BY <1>0, <1>3, <1>4, <1>5

\* What is published is a stored document, compiled, at least as new as all before it.
LEMMA SnapshotIs ==
    ASSUME IInv, NEW w \in Workers, pc[w] = "compile", NEW readable \in SUBSET Servers
    PROVE  /\ Snapshot(w, readable) \in Snapshots /\ SnapInv(Snapshot(w, readable))
           /\ Snapshot(w, readable).ver = job[w].ver
<1> DEFINE j == job[w]
           old == current[w[1]]
           b == Built(j.cat, j.ver, j.apps, j.rt, old, readable)
<1>0. /\ TypeOK /\ WorkerInv(w) /\ ReadInv(w) /\ w[1] \in Replicas /\ j \in Jobs
      /\ old \in Snapshots \cup {None} /\ (old # None => SnapInv(old))
      /\ Version \in Nat /\ now \in Nat
  BY LogTyped DEF IInv, Workers, TypeOK
<1>1. /\ j.ver \in 0 .. Version /\ j.cat = Doc(j.ver) /\ j.cat \in Catalogs /\ j.rt \in Runtimes
      /\ j.apps \in SUBSET Apps /\ j.fresh \in Nat /\ j.start \in Nat
      /\ j.fresh <= now /\ j.fresh <= j.start + Limit(w)
      /\ j.ver < Version => j.start <= log[j.ver + 1].at
  BY <1>0, LogTyped DEF Jobs, WorkerInv, ReadInv, Read
<1>2. ASSUME NEW s \in Servers PROVE b[s] \in Compileds \cup {None} /\ CompiledInv(j.cat, s, b[s])
  <2>1. old # None => \A t \in Servers : CompiledInv(old.cat, t, old.servers[t])
    BY <1>0 DEF SnapInv
  <2>2. old # None /\ old.ver = j.ver => old.cat = j.cat
    BY <1>0, <1>1 DEF SnapInv
  <2>3. j.ver \in Nat
    BY <1>0, <1>1
  <2> HIDE DEF j, old
  <2> QED
    BY <1>0, <1>1, <2>1, <2>2, <2>3, BuiltIs
<1>3. b \in [Servers -> Compileds \cup {None}]
  BY <1>2 DEF Built
<1>4. /\ Snapshot(w, readable).ver = j.ver /\ Snapshot(w, readable).cat = j.cat
      /\ Snapshot(w, readable).fresh = j.fresh /\ Snapshot(w, readable).servers = b
  BY DEF Snapshot
<1>5. Snapshot(w, readable) \in Snapshots
  <2>1. j.rt.ver \in Nat
    BY <1>1 DEF Runtimes
  <2>2. Snapshot(w, readable) = [ver |-> j.ver, cat |-> j.cat, fresh |-> j.fresh, rtver |-> j.rt.ver,
                                 servers |-> b]
    BY DEF Snapshot
  <2> HIDE DEF b, j
  <2> QED
    BY <1>0, <1>1, <1>3, <2>1, <2>2 DEF Snapshots
<1>6. SnapInv(Snapshot(w, readable))
  <2>1. ASSUME j.ver < Version
        PROVE  \E limit \in {RefreshLimit, MutateLimit} : j.fresh <= log[j.ver + 1].at + limit
    <3>1. j.ver + 1 \in 1 .. Version /\ log[j.ver + 1].at \in Nat
      BY <1>0, <1>1, <2>1, LogTyped
    <3>2. Limit(w) \in {RefreshLimit, MutateLimit} /\ Limit(w) \in Nat
      BY LimitsAssumption DEF Limit
    <3> QED
      BY <1>1, <2>1, <3>1, <3>2
  <2> HIDE DEF b, j
  <2> QED
    BY <1>0, <1>1, <1>2, <1>4, <2>1 DEF SnapInv
<1> QED
  BY <1>4, <1>5, <1>6

LEMMA CompileKeeps == ASSUME IInv, NEW w \in Workers, Compile(w) PROVE IInv'
<1> USE DEF Compile, store
<1> PICK readable \in SUBSET Servers :
        /\ IF readable = Servers THEN UNCHANGED faults ELSE Late(w)
        /\ current' = [current EXCEPT ![w[1]] = Published(w, readable)]
  OBVIOUS
<1> DEFINE p == Snapshot(w, readable)
<1>0. /\ TypeOK /\ ReadInv(w) /\ ConfirmedInv(w[1]) /\ w[1] \in Replicas /\ pc[w] = "compile"
      /\ now \in Nat /\ Ends(w)
  BY LogTyped DEF IInv, Workers
<1>1. p \in Snapshots /\ SnapInv(p) /\ p.ver = job[w].ver
  BY <1>0, SnapshotIs
<1>2. faults' \in 0 .. MaxFaults
  BY <1>0, BoundsAssumption DEF TypeOK, Late, Fault
<1>3. current'[w[1]] = p /\ current' \in [Replicas -> Snapshots \cup {None}]
      /\ \A r \in Replicas : r # w[1] => current'[r] = current[r] /\ confirmed'[r] = confirmed[r]
  BY <1>0, <1>1 DEF TypeOK, Published
<1>4. TypeOK'
  BY <1>0, <1>2, <1>3, EndsIs DEF TypeOK
<1> HIDE DEF p
<1>5. SnapInv(current[w[1]])'
  BY <1>1, <1>3 DEF SnapInv, Version, Doc
<1>6. ConfirmedInv(w[1])'
  BY <1>0, <1>1, <1>3 DEF ConfirmedInv, ReadInv, Read, Version
<1> QED
  BY <1>0, <1>3, <1>4, <1>5, <1>6, EndsIs, SameLog, WorkerStep
-----------------------------------------------------------------------------
(* Requests and surroundings                                               *)

\* A step in which no worker takes part: workers and replicas keep what they know.
LEMMA OutsideStep ==
    ASSUME IInv, UNCHANGED <<log, pc, job, current, confirmed>>, TypeOK', now <= now',
           \A q \in Requests : LookedInv(q)' /\ (reqs'[q].pc = "admitted" => reqs'[q].at <= now'),
           BindingsMatchRuntime', AuthorityExpires'
    PROVE  IInv'
<1>0. TypeOK /\ MuInv /\ now' \in Nat
  BY BoundsAssumption DEF IInv, TypeOK
<1>1. Grown /\ LogInv' /\ MuInv'
  BY <1>0, SameLog DEF MuInv
<1>2. \A v \in Workers : WorkerInv(v)' /\ EditInv(v)' /\ ReadInv(v)'
  BY <1>0, <1>1, OtherWorker
<1>3. \A r \in Replicas : ConfirmedInv(r)' /\ (current[r] # None => SnapInv(current[r]))'
  BY <1>0, <1>1, SameReplica
<1> QED
  BY <1>1, <1>2, <1>3 DEF IInv

\* A request that changes among others that do not.
LEMMA OneRequest ==
    ASSUME IInv, UNCHANGED <<log, pc, job, current, confirmed, run, apps, now, faults>>,
           NEW q \in Requests, NEW new \in Lookeds \cup Admitteds \cup {NoReq},
           reqs' = [reqs EXCEPT ![q] = new],
           LookedInv(q)', new.pc = "admitted" =>
               /\ new.at <= now /\ <<new.op, new.rev>> \in HasOperation
               /\ \E i \in DOMAIN log :
                    /\ Authorises(log[i].cat, new.hash, new.server, new.tool)
                    /\ \/ i = Len(log)
                       \/ \E limit \in {RefreshLimit, MutateLimit} :
                            log[i + 1].at + Expiry + limit >= new.at
    PROVE  IInv'
<1>0. TypeOK /\ now \in Nat /\ now' \in Nat /\ now <= now' /\ Grown
  BY LogTyped, SameLog DEF IInv
<1>1. reqs'[q] = new /\ \A p \in Requests : p # q => reqs'[p] = reqs[p]
  BY <1>0 DEF TypeOK
<1>2. TypeOK'
  BY <1>0 DEF TypeOK
<1>3. \A p \in Requests : LookedInv(p)' /\ (reqs'[p].pc = "admitted" => reqs'[p].at <= now')
  BY <1>0, <1>1, RequestsKeep
<1>4. BindingsMatchRuntime'
  BY <1>1 DEF BindingsMatchRuntime, IInv
<1>5. AuthorityExpires'
  <2>1. AuthorityExpires
    BY DEF IInv
  <2> QED
    <3> SUFFICES ASSUME NEW p \in Requests, reqs'[p].pc = "admitted"
                 PROVE  \E i \in DOMAIN log :
                          /\ Authorises(log[i].cat, reqs'[p].hash, reqs'[p].server, reqs'[p].tool)
                          /\ \/ i = Len(log)
                             \/ \E limit \in {RefreshLimit, MutateLimit} :
                                  log[i + 1].at + Expiry + limit >= reqs'[p].at
      BY DEF AuthorityExpires
    <3>1. CASE p = q
      BY <1>1, <3>1
    <3>2. CASE p # q
      <4>1. reqs'[p] = reqs[p]
        BY <1>1, <3>2
      <4> QED
        BY <2>1, <4>1 DEF AuthorityExpires
    <3> QED
      BY <3>1, <3>2
<1> QED
  BY <1>0, <1>2, <1>3, <1>4, <1>5, OutsideStep

LEMMA LookKeeps ==
    ASSUME IInv, NEW q \in Requests, NEW r \in Replicas, NEW s \in Servers, Look(q, r, s) PROVE IInv'
<1> DEFINE p == current[r]
           new == [pc |-> "looked", replica |-> r, server |-> s, snap |-> p, at |-> now]
<1>0. /\ TypeOK /\ p \in Snapshots /\ SnapInv(p) /\ p.fresh \in Nat /\ now \in Nat
      /\ now <= p.fresh + Expiry /\ p.servers[s] # None /\ p.servers[s].config.enabled
      /\ reqs' = [reqs EXCEPT ![q] = new]
  BY LogTyped, LimitsAssumption DEF IInv, TypeOK, Look, Fresh, Snapshots
<1>1. UNCHANGED <<log, pc, job, current, confirmed, run, apps, now, faults>>
  BY DEF Look, store, served
<1>2. new \in Lookeds
  BY <1>0 DEF Lookeds
<1>3. LookedInv(q)'
  <2>1. reqs'[q] = new
    BY <1>0 DEF TypeOK
  <2>2. SnapInv(p)'
    BY <1>0, <1>1 DEF SnapInv, Version, Doc
  <2> QED
    BY <1>0, <1>1, <2>1, <2>2 DEF LookedInv, SnapInv, Version, Doc
<1>4. new.pc # "admitted"
  OBVIOUS
<1> HIDE DEF new
<1> QED
  BY <1>0, <1>1, <1>2, <1>3, <1>4, OneRequest

\* The snapshot a request looked at was stored, and replaced at most an expiry and a
\* deadline ago; what the server's view grants, the stored document grants.
LEMMA AdmitKeeps ==
    ASSUME IInv, NEW q \in Requests, NEW k \in Keys, NEW t \in Tools, Admit(q, k, t) PROVE IInv'
<1> DEFINE p == reqs[q].snap
           s == reqs[q].server
           c == p.servers[s]
           rev == run[reqs[q].replica].rev[c.config.app]
           new == [pc |-> "admitted", server |-> s, at |-> reqs[q].at, hash |-> p.cat.keys[k].hash,
                   tool |-> t, op |-> p.cat.tools[t].op, rev |-> rev]
<1>0. /\ TypeOK /\ reqs[q] \in Lookeds /\ LookedInv(q) /\ reqs[q].pc = "looked" /\ now \in Nat
      /\ Version \in Nat
  <2>1. TypeOK /\ LookedInv(q) /\ reqs[q].pc = "looked" /\ now \in Nat /\ Version \in Nat
    BY LogTyped DEF IInv, Admit
  <2>2. reqs[q] \in Lookeds \cup Admitteds \cup {NoReq}
    BY <2>1 DEF TypeOK
  <2> QED
    BY <2>1, <2>2 DEF Lookeds, Admitteds, NoReq
<1>1. /\ p \in Snapshots /\ SnapInv(p) /\ s \in Servers /\ reqs[q].at \in Nat
      /\ reqs[q].at <= now /\ reqs[q].at <= p.fresh + Expiry /\ p.fresh \in Nat /\ p.ver \in Nat
      /\ c # None /\ c.config.enabled /\ p.cat \in Catalogs /\ reqs[q].replica \in Replicas
  BY <1>0 DEF LookedInv, Lookeds, Snapshots
<1>2. /\ rev # None /\ rev = c.rev /\ p.cat.keys[k] # None /\ p.cat.keys[k].enabled
      /\ ~c.error /\ c.views[k] # None /\ t \in c.views[k]
      /\ reqs' = [reqs EXCEPT ![q] = new]
      /\ UNCHANGED <<log, pc, job, current, confirmed, run, apps, now, faults>>
  BY DEF Admit, Synchronized, store, served
<1>3. /\ p.cat.servers[s] # None /\ c.config = p.cat.servers[s]
      /\ c.views = Views(p.cat, s) /\ AllCompile(p.cat, s, c.rev)
  BY <1>1, <1>2 DEF SnapInv, CompiledInv
<1>4. /\ p.cat.keys[k].grants[s] # None /\ t \in p.cat.keys[k].grants[s] /\ t \in ToolsOf(p.cat, s)
  BY <1>2, <1>3 DEF Views
<1>5. <<new.op, new.rev>> \in HasOperation
  BY <1>2, <1>3, <1>4 DEF AllCompile
<1>6. Authorises(p.cat, new.hash, new.server, new.tool)
  BY <1>1, <1>2, <1>3, <1>4 DEF Authorises
<1>7. new \in Admitteds
  <2>1. p.cat.keys[k].hash \in Nat
    BY <1>1, <1>2 DEF Catalogs, KeyConfigs
  <2>2. p.cat.tools[t].op \in Operations
    BY <1>1, <1>4 DEF ToolsOf, Catalogs, ToolConfigs
  <2>3. rev \in Revs
    <3>1. c.config.app \in Apps
      BY <1>1, <1>3 DEF Catalogs, ServerConfigs
    <3> QED
      <4>1. run[reqs[q].replica] \in Runtimes
        BY <1>0, <1>1 DEF TypeOK
      <4>2. rev \in Revs \cup {None}
        BY <3>1, <4>1 DEF Runtimes
      <4> QED
        BY <1>2, <4>2
  <2> HIDE DEF p, s, c, rev
  <2> QED
    BY <1>1, <2>1, <2>2, <2>3 DEF Admitteds
<1>8. \E i \in DOMAIN log :
        /\ Authorises(log[i].cat, new.hash, new.server, new.tool)
        /\ \/ i = Len(log)
           \/ \E limit \in {RefreshLimit, MutateLimit} : log[i + 1].at + Expiry + limit >= new.at
  <2>1. p.ver \in 1 .. Version /\ p.cat = log[p.ver].cat
    <3>1. p.cat # Empty
      <4>1. Empty.servers[s] = None
        BY <1>1 DEF Empty
      <4> QED
        BY <1>3, <4>1
    <3> QED
      BY <1>0, <1>1, <3>1 DEF SnapInv, Doc
  <2>2. p.ver \in DOMAIN log
    BY <1>0, <2>1, LogTyped
  <2>3. CASE p.ver = Version
    BY <1>6, <2>1, <2>2, <2>3 DEF Version
  <2>4. CASE p.ver < Version
    <3> PICK limit \in {RefreshLimit, MutateLimit} : p.fresh <= log[p.ver + 1].at + limit
      BY <1>1, <2>4 DEF SnapInv
    <3>1. log[p.ver + 1].at \in Nat /\ limit \in Nat /\ Expiry \in Nat
      <4>1. p.ver + 1 \in 1 .. Version
        BY <1>0, <1>1, <2>4
      <4> QED
        BY <1>0, <4>1, LogTyped, LimitsAssumption
    <3>2. log[p.ver + 1].at + Expiry + limit >= new.at
      BY <1>1, <3>1
    <3> QED
      BY <1>6, <2>1, <2>2, <3>2
  <2> HIDE DEF p, s, c, rev, new
  <2> QED
    BY <1>0, <2>1, <2>3, <2>4
<1>9. LookedInv(q)'
  <2>1. reqs'[q].pc = "admitted"
    BY <1>0, <1>2 DEF TypeOK
  <2> QED
    BY <2>1 DEF LookedInv
<1>10. new.at <= now
  BY <1>1
<1> HIDE DEF new
<1> QED
  BY <1>2, <1>5, <1>7, <1>8, <1>9, <1>10, OneRequest

LEMMA FinishKeeps == ASSUME IInv, NEW q \in Requests, Finish(q) PROVE IInv'
<1>1. UNCHANGED <<log, pc, job, current, confirmed, run, apps, now, faults>>
      /\ reqs' = [reqs EXCEPT ![q] = NoReq]
  BY DEF Finish, store, served
<1>2. LookedInv(q)' /\ NoReq.pc # "admitted"
  BY <1>1 DEF LookedInv, NoReq, IInv, TypeOK
<1> QED
  BY <1>1, <1>2, OneRequest

\* Runtimes, applications and time: no request and no document changes.
LEMMA SurroundingsKeep ==
    ASSUME IInv, AppsChange \/ Tick \/ \E r \in Replicas : RuntimeChanges(r) PROVE IInv'
<1>0. TypeOK /\ now \in Nat
  BY LogTyped DEF IInv
<1>1. UNCHANGED <<log, pc, job, current, confirmed, reqs>>
  BY DEF AppsChange, Tick, RuntimeChanges, store, served
<1>2. TypeOK' /\ now <= now' /\ now' \in Nat
  <2>1. CASE AppsChange
    BY <1>0, <2>1 DEF TypeOK, AppsChange, store, served
  <2>2. CASE Tick
    BY <1>0, <2>2, BoundsAssumption DEF TypeOK, Tick, store, served
  <2>3. ASSUME NEW r \in Replicas, RuntimeChanges(r) PROVE TypeOK' /\ now <= now' /\ now' \in Nat
    <3> PICK a \in Apps, v \in Revs \cup {None} :
             run' = [run EXCEPT ![r] = [ver |-> @.ver + 1, rev |-> [@.rev EXCEPT ![a] = v]]]
      BY <2>3 DEF RuntimeChanges
    <3>1. run[r] \in Runtimes /\ run \in [Replicas -> Runtimes]
      BY <1>0 DEF TypeOK
    <3>2. [ver |-> run[r].ver + 1, rev |-> [run[r].rev EXCEPT ![a] = v]] \in Runtimes
      BY <3>1 DEF Runtimes
    <3>3. run' \in [Replicas -> Runtimes]
      BY <3>1, <3>2
    <3> QED
      BY <1>0, <2>3, <3>3 DEF TypeOK, RuntimeChanges, store, served
  <2> QED
    BY <2>1, <2>2, <2>3
<1>3. \A q \in Requests : LookedInv(q)' /\ (reqs'[q].pc = "admitted" => reqs'[q].at <= now')
  BY <1>1, <1>2, SameLog, RequestsKeep
<1> QED
  BY <1>1, <1>2, <1>3, SameLog, AuthorityKeeps, OutsideStep
-----------------------------------------------------------------------------
LEMMA SingletonLog ==
    ASSUME NEW S, NEW e \in S
    PROVE  <<e>> \in Seq(S) /\ DOMAIN <<e>> = {1} /\ <<e>>[1] = e
<1>1. <<e>> = [i \in 1 .. 1 |-> e]
  OBVIOUS
<1> QED
  BY <1>1, SeqDef, 1 \in Nat

LEMMA InitInv == Init => IInv
<1> SUFFICES ASSUME Init PROVE IInv
  OBVIOUS
<1>0. Expiry \in Nat /\ MaxTime \in Nat /\ MaxFaults \in Nat /\ now = 0 /\ faults = 0
  BY LimitsAssumption, BoundsAssumption DEF Init
<1>1. /\ log \in Seq([cat : Catalogs, at : Nat])
      /\ \A i \in DOMAIN log : i \in Nat /\ 1 <= i /\ log[i].cat \in Initial
  <2> PICK c \in Initial : log = IF c = Empty THEN <<>> ELSE <<[cat |-> c, at |-> 0]>>
    BY DEF Init
  <2> DEFINE e == [cat |-> c, at |-> 0]
  <2>1. e \in [cat : Catalogs, at : Nat] /\ e.cat = c
    BY InitialAssumption
  <2>2. CASE log = <<>>
    BY <2>2
  <2>3. CASE log = <<e>>
    <3> HIDE DEF e
    <3>1. <<e>> \in Seq([cat : Catalogs, at : Nat]) /\ DOMAIN <<e>> = {1} /\ <<e>>[1] = e
      BY <2>1, SingletonLog
    <3>2. log \in Seq([cat : Catalogs, at : Nat]) /\ DOMAIN log = {1} /\ log[1] = e
      BY <2>3, <3>1
    <3> QED
      BY <2>1, <3>2
  <2> QED
    BY <2>2, <2>3
<1>2. TypeOK
  <2>1. NoJob \in Jobs
    BY DEF NoJob, Jobs
  <2>2. pc \in [Workers -> {"idle", "load", "list", "save", "reload", "stamp", "compile"}]
    BY DEF Init
  <2>3. run \in [Replicas -> Runtimes]
    BY DEF Init, Runtimes
  <2>4. now \in 0 .. MaxTime /\ faults \in 0 .. MaxFaults
    BY <1>0
  <2> QED
    BY <1>1, <2>1, <2>2, <2>3, <2>4 DEF Init, TypeOK
<1>3. LogInv
  <2> SUFFICES ASSUME NEW i \in DOMAIN log, NEW k \in Keys, log[i].cat.keys[k] # None
               PROVE  log[i].cat.keys[k].hash <= i
    BY DEF LogInv
  <2>1. log[i].cat.keys[k].hash <= 1
    BY <1>1, InitialAssumption
  <2>2. log[i].cat.keys[k].hash \in Nat
    BY <1>1, InitialAssumption DEF Catalogs, KeyConfigs
  <2> QED
    BY <1>1, <2>1, <2>2
<1>4. MuInv /\ \A w \in Workers : WorkerInv(w) /\ EditInv(w) /\ ReadInv(w)
  BY DEF Init, MuInv, WorkerInv, EditInv, ReadInv, Edits, Read
<1>5. \A r \in Replicas : ConfirmedInv(r) /\ (current[r] # None => SnapInv(current[r]))
  <2>1. \A r \in Replicas : current[r] = None /\ confirmed[r] = 0
    BY DEF Init
  <2>2. Version \in Nat
    BY <1>2, LogTyped
  <2>3. ASSUME NEW r \in Replicas PROVE ConfirmedInv(r)
    <3>1. confirmed[r] <= Version /\ current[r] = None
      BY <2>1, <2>2
    <3> QED
      BY <3>1 DEF ConfirmedInv
  <2> QED
    BY <2>1, <2>3
<1>6. \A q \in Requests : LookedInv(q) /\ (reqs[q].pc = "admitted" => reqs[q].at <= now)
  BY DEF Init, LookedInv, NoReq
<1>7. BindingsMatchRuntime /\ AuthorityExpires
  BY DEF Init, BindingsMatchRuntime, AuthorityExpires, NoReq
<1> QED
  BY <1>2, <1>3, <1>4, <1>5, <1>6, <1>7 DEF IInv

LEMMA WorkKeeps == ASSUME IInv, NEW w \in Workers, Work(w) PROVE IInv'
  BY LoadKeeps, ListAppsKeeps, FailsKeeps, SaveKeeps, ReloadKeeps, ReloadFailsKeeps, StampKeeps,
     CompileKeeps DEF Work

LEMMA StutterKeeps == IInv /\ UNCHANGED vars => IInv'
<1> SUFFICES ASSUME IInv, UNCHANGED vars PROVE IInv'
  OBVIOUS
<1>1. UNCHANGED <<log, apps, pc, job, current, confirmed, run, reqs, now, faults>>
  BY DEF vars, store, served
<1>2. TypeOK /\ TypeOK' /\ now \in Nat /\ now' \in Nat /\ now <= now'
  BY <1>1, LogTyped DEF IInv, TypeOK
<1>3. \A q \in Requests : LookedInv(q)' /\ (reqs'[q].pc = "admitted" => reqs'[q].at <= now')
  BY <1>1, <1>2, SameLog, RequestsKeep
<1> QED
  BY <1>1, <1>2, <1>3, SameLog, AuthorityKeeps, OutsideStep

LEMMA NextKeeps == IInv /\ [Next]_vars => IInv'
<1> SUFFICES ASSUME IInv, [Next]_vars PROVE IInv'
  OBVIOUS
<1>1. CASE \E w \in Workers : RefreshBegin(w) \/ Work(w)
  BY <1>1, RefreshBeginKeeps, WorkKeeps
<1>2. CASE \E w \in Workers, m \in Mutations, v \in {0, Version} : MutateBegin(w, m, v)
  BY <1>2, MutateBeginKeeps
<1>3. CASE \E q \in Requests, r \in Replicas, s \in Servers : Look(q, r, s)
  BY <1>3, LookKeeps
<1>4. CASE \E q \in Requests, k \in Keys, t \in Tools : Admit(q, k, t)
  BY <1>4, AdmitKeeps
<1>5. CASE \E q \in Requests : Finish(q)
  BY <1>5, FinishKeeps
<1>6. CASE AppsChange \/ Tick \/ \E r \in Replicas : RuntimeChanges(r)
  BY <1>6, SurroundingsKeep
<1>7. CASE UNCHANGED vars
  BY <1>7, StutterKeeps
<1> QED
  BY <1>1, <1>2, <1>3, <1>4, <1>5, <1>6, <1>7 DEF Next

\* The inductive invariant: Service.mu and the version of the document are what keeps
\* two workers of a replica, and two replicas, from undoing each other's work.
THEOREM Invariance == Spec => []IInv
<1>1. Init => IInv
  BY InitInv
<1>2. IInv /\ [Next]_vars => IInv'
  BY NextKeeps
<1> QED
  BY <1>1, <1>2, PTL DEF Spec

\* TypeOK: documents, candidates, snapshots and requests keep their shape; in particular
\* every mutation of a document is a document.
THEOREM TypeCorrect == Spec => []TypeOK
<1>1. IInv => TypeOK
  BY DEF IInv
<1> QED
  BY <1>1, Invariance, PTL

\* ServersCurrent: what build() serves of a server is what the published document says and
\* its contract allows, although it reuses what an earlier refresh compiled.
THEOREM ReuseIsCurrent == Spec => []ServersCurrent
<1>1. IInv => ServersCurrent
  BY DEF IInv, SnapInv, CompiledInv, ServersCurrent
<1> QED
  BY <1>1, Invariance, PTL

\* CommittedIsServed: a replica at rest serves what Consul last confirmed to it or something
\* newer, or nothing at all.
THEOREM ConfirmedIsServed == Spec => []CommittedIsServed
<1>1. IInv => CommittedIsServed
  <2> SUFFICES ASSUME IInv, NEW r \in Replicas, \A w \in Workers : w[1] = r => pc[w] = "idle"
               PROVE  current[r] = None \/ current[r].ver >= confirmed[r]
    BY DEF CommittedIsServed
  <2>1. <<r, "mutate">> \in Workers /\ <<r, "mutate">>[1] = r
    BY DEF Workers
  <2>2. ConfirmedInv(r)
    BY DEF IInv
  <2> QED
    BY <2>1, <2>2 DEF ConfirmedInv
<1> QED
  BY <1>1, Invariance, PTL

\* BindingsMatchRuntime: snapshot and lease are taken one after the other, and yet the
\* operation a request calls is one of the contract the leased runtime serves.
THEOREM BindingsMatch == Spec => []BindingsMatchRuntime
<1>1. IInv => BindingsMatchRuntime
  BY DEF IInv
<1> QED
  BY <1>1, Invariance, PTL

\* AuthorityExpires: no request is admitted on the authority of a document that was
\* replaced longer ago than the expiry of a snapshot and the deadline of one refresh.
THEOREM AuthorityIsRecent == Spec => []AuthorityExpires
<1>1. IInv => AuthorityExpires
  BY DEF IInv
<1> QED
  BY <1>1, Invariance, PTL
-----------------------------------------------------------------------------
(* Steps                                                                   *)

\* Only a save whose compare-and-swap succeeds changes the log.
LEMMA OnlySaves ==
    ASSUME IInv, [Next]_vars, log' # log
    PROVE  \E w \in Workers : pc[w] = "save" /\ Unmoved(w) /\ log' = SavedLog(job[w].cat)
<1>1. ASSUME NEW w \in Workers, RefreshBegin(w) \/ Work(w), ~Save(w) PROVE FALSE
  BY <1>1 DEF Work, RefreshBegin, Load, ListApps, Fails, Reload, ReloadFails, Stamp, Compile, store
<1>2. ASSUME NEW w \in Workers, NEW m, NEW v, MutateBegin(w, m, v) PROVE FALSE
  BY <1>2 DEF MutateBegin, store
<1>3. ASSUME NEW q, NEW r, NEW s, Look(q, r, s) \/ Admit(q, r, s) \/ Finish(q) PROVE FALSE
  BY <1>3 DEF Look, Admit, Finish, store
<1>4. ASSUME NEW r, RuntimeChanges(r) \/ AppsChange \/ Tick PROVE FALSE
  BY <1>4 DEF RuntimeChanges, AppsChange, Tick, store
<1>5. ~UNCHANGED vars
  BY DEF vars, store
<1>6. \E w \in Workers : Save(w)
  BY <1>1, <1>2, <1>3, <1>4, <1>5 DEF Next
<1> QED
  BY <1>6 DEF Save

\* EditsAreSequential: no save overwrites an edit its administrator has not seen.
THEOREM NoLostEdit == Spec => EditsAreSequential
<1>1. IInv /\ [Next]_vars => [log' # log => \E w \in Workers :
          pc[w] = "save" /\ job[w].mut # None /\ Stored' = Mutated(Stored, job[w].mut)]_vars
  <2> SUFFICES ASSUME IInv, [Next]_vars, log' # log
               PROVE  \E w \in Workers :
                        pc[w] = "save" /\ job[w].mut # None /\ Stored' = Mutated(Stored, job[w].mut)
    OBVIOUS
  <2> QED
    BY OnlySaves, SaveGrows, MutationsAssumption
<1> QED
  BY <1>1, Invariance, PTL DEF Spec, EditsAreSequential

\* SavedToolsCompile: what is saved compiled, on the replica that saves it, with the
\* applications it had listed and the runtimes it had pinned.
THEOREM CompiledBeforeSaved == Spec => SavedToolsCompile
<1>1. IInv /\ [Next]_vars => [log' # log => \E w \in Workers :
          /\ pc[w] = "save" /\ job[w].mut # None
          /\ CompilesIn(Stored', job[w].mut, job[w].apps, job[w].rt)]_vars
  <2> SUFFICES ASSUME IInv, [Next]_vars, log' # log
               PROVE  \E w \in Workers :
                        /\ pc[w] = "save" /\ job[w].mut # None
                        /\ CompilesIn(Stored', job[w].mut, job[w].apps, job[w].rt)
    OBVIOUS
  <2> PICK w \in Workers : pc[w] = "save" /\ Unmoved(w) /\ log' = SavedLog(job[w].cat)
    BY OnlySaves
  <2>1. /\ job[w].mut \in Mutations /\ Stored' = job[w].cat
        /\ CompilesIn(job[w].cat, job[w].mut, job[w].apps, job[w].rt)
    BY SaveGrows
  <2> QED
    BY <2>1, MutationsAssumption
<1> QED
  BY <1>1, Invariance, PTL DEF Spec, SavedToolsCompile

\* SecretsOnlyRotate: an edit of a key, a server or a grant leaves the secret of every key
\* as it is; rotation gives one key a secret that no stored document had.
THEOREM SecretsKept == Spec => SecretsOnlyRotate
<1> DEFINE Unused(k) == \A i \in DOMAIN log :
               log[i].cat.keys[k] # None => log[i].cat.keys[k].hash # Stored'.keys[k].hash
           Rotates(k) == \E w \in Workers : /\ job[w].mut # None /\ job[w].mut.kind = "key"
                                            /\ job[w].mut.id = k /\ job[w].mut.rotate
<1>1. ASSUME IInv, [Next]_vars, NEW k \in Keys, Stored.keys[k] # None, Stored'.keys[k] # None
      PROVE  Stored'.keys[k].hash = Stored.keys[k].hash \/ (Unused(k) /\ Rotates(k))
  <2>1. CASE log' = log
    BY <2>1 DEF Stored
  <2>2. CASE log' # log
    <3> PICK w \in Workers : pc[w] = "save" /\ Unmoved(w) /\ log' = SavedLog(job[w].cat)
      BY <1>1, <2>2, OnlySaves
    <3>1. /\ job[w].mut \in Mutations /\ Exists(Stored, job[w].mut)
          /\ Stored' = Mutated(Stored, job[w].mut)
      BY <1>1, <2>2, SaveGrows
    <3>2. TypeOK /\ LogInv /\ Version \in Nat /\ DOMAIN log = 1 .. Version /\ Stored \in Catalogs
      BY <1>1, LogTyped DEF IInv
    <3>3. \/ Stored'.keys[k].hash = Stored.keys[k].hash
          \/ /\ Stored'.keys[k].hash = Version + 1
             /\ job[w].mut.kind = "key" /\ job[w].mut.id = k /\ job[w].mut.rotate
      BY <1>1, <3>1, <3>2, MutatedIs
    <3>4. ASSUME Stored'.keys[k].hash = Version + 1 PROVE Unused(k)
      <4> SUFFICES ASSUME NEW i \in DOMAIN log, log[i].cat.keys[k] # None
                   PROVE  log[i].cat.keys[k].hash # Version + 1
        BY <3>4
      <4>1. log[i].cat.keys[k].hash <= i /\ i <= Version /\ i \in Nat
        BY <3>2 DEF LogInv
      <4>2. log[i].cat.keys[k].hash \in Nat
        BY <3>2, LogTyped DEF Catalogs, KeyConfigs
      <4> QED
        BY <3>2, <4>1, <4>2
    <3> QED
      BY <3>1, <3>3, <3>4, MutationsAssumption
  <2> QED
    BY <2>1, <2>2
<1>2. IInv /\ [Next]_vars => [\A k \in Keys : Stored.keys[k] # None /\ Stored'.keys[k] # None =>
        \/ Stored'.keys[k].hash = Stored.keys[k].hash
        \/ /\ \A i \in DOMAIN log : log[i].cat.keys[k] # None => log[i].cat.keys[k].hash # Stored'.keys[k].hash
           /\ \E w \in Workers : /\ job[w].mut # None /\ job[w].mut.kind = "key"
                                 /\ job[w].mut.id = k /\ job[w].mut.rotate]_vars
  BY <1>1
<1> QED
  BY <1>2, Invariance, PTL DEF Spec, SecretsOnlyRotate

\* NeverOlder: the goroutine of Start and an administrator of the same replica publish in
\* the order in which they have read.
THEOREM OnlyForward == Spec => NeverOlder
<1>1. IInv /\ [Next]_vars => [\A r \in Replicas :
          current[r] # None /\ current'[r] # None => current'[r].ver >= current[r].ver]_vars
  <2> SUFFICES ASSUME IInv, [Next]_vars, NEW r \in Replicas, current[r] # None, current'[r] # None
               PROVE  current'[r].ver >= current[r].ver
    OBVIOUS
  <2>0. TypeOK /\ current[r].ver \in Nat
    BY DEF IInv, TypeOK, Snapshots
  <2>1. CASE current' = current
    BY <2>0, <2>1
  <2>2. ASSUME NEW w \in Workers, current' = [current EXCEPT ![w[1]] = None] PROVE current'[r] = current[r]
    BY <2>0, <2>2 DEF TypeOK
  <2>3. ASSUME NEW w \in Workers, Compile(w) PROVE current'[r].ver >= current[r].ver
    <3> PICK readable \in SUBSET Servers : current' = [current EXCEPT ![w[1]] = Published(w, readable)]
      BY <2>3 DEF Compile
    <3>1. CASE r = w[1]
      <4>1. current'[r] = Snapshot(w, readable) /\ pc[w] = "compile"
        BY <2>0, <2>3, <3>1 DEF TypeOK, Published, Compile
      <4>2. current'[r].ver = job[w].ver
        BY <4>1 DEF Snapshot
      <4>3. current[r].ver <= job[w].ver /\ job[w].ver \in Nat
        BY <2>0, <3>1, <4>1 DEF IInv, ReadInv, Read, TypeOK, Jobs
      <4> QED
        BY <2>0, <4>2, <4>3
    <3>2. CASE r # w[1]
      BY <2>0, <3>2 DEF TypeOK
    <3> QED
      BY <3>1, <3>2
  <2>4. \/ current' = current
        \/ \E w \in Workers : current' = [current EXCEPT ![w[1]] = None] \/ Compile(w)
    <3>1. ASSUME NEW w \in Workers, Work(w)
          PROVE  current' = current \/ current' = [current EXCEPT ![w[1]] = None] \/ Compile(w)
      BY <3>1 DEF Work, Load, ListApps, Fails, Save, Reload, ReloadFails, Stamp, AfterFailedReload, served
    <3>2. ASSUME NEW w \in Workers, NEW m, NEW v, RefreshBegin(w) \/ MutateBegin(w, m, v)
          PROVE  current' = current
      BY <3>2 DEF RefreshBegin, MutateBegin, served
    <3>3. ASSUME NEW q, NEW p, NEW s, Look(q, p, s) \/ Admit(q, p, s) \/ Finish(q) PROVE current' = current
      BY <3>3 DEF Look, Admit, Finish, served
    <3>4. ASSUME NEW p, RuntimeChanges(p) \/ AppsChange \/ Tick PROVE current' = current
      BY <3>4 DEF RuntimeChanges, AppsChange, Tick, served
    <3>5. UNCHANGED vars => current' = current
      BY DEF vars, served
    <3> QED
      BY <3>1, <3>2, <3>3, <3>4, <3>5 DEF Next
  <2> QED
    BY <2>0, <2>1, <2>2, <2>3, <2>4
<1> QED
  BY <1>1, Invariance, PTL DEF Spec, NeverOlder
=============================================================================
