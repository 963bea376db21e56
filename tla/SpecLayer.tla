----------------------------- MODULE SpecLayer -----------------------------
(* The spec layer: index_core writes the API symbols, lint rules and commands *)
(* of one Odoo version, and what changed since the previous indexed version.  *)
(* Every write is a transaction of its own, nothing locks the layer, and a    *)
(* run may be killed between any two of them.                                 *)
EXTENDS SpecParsers

CONSTANTS
  Length,        \* [Symbols -> Nat]: size of the qualified name
  Snippets,      \* codes given to lint_check
  BatchSize,     \* NEO4J_WRITE_BATCH_SIZE
  CoreOverlap,   \* whether two versions may be indexed at the same time
  MaxOps         \* bound on the operations of a behaviour

ASSUME LayerAssumption ==
  /\ Length \in [Symbols -> Nat]
  /\ BatchSize \in Nat \ {0} /\ CoreOverlap \in BOOLEAN /\ MaxOps \in Nat

VARIABLES
  symbols,     \* CoreSymbol nodes: <<symbol, version>> -> properties
  replacedBy,  \* REPLACED_BY edges <<old, version, new, version>>
  rules,       \* LintRule nodes: <<rule, version>> -> kind and words
  checks,      \* CHECKS edges <<rule, symbol, version>>
  commands,    \* CLICommand nodes <<command, version>>
  flags,       \* CLIFlag nodes: <<command, flag, version>> -> status
  core,        \* runs of index_core, one per version
  completed,   \* history: versions completed -> those whose last completed run
               \* was over before its own
  tainted,     \* history: versions compared with a version half indexed
  ops          \* operations so far

coreVars == <<symbols, replacedBy, rules, checks, commands, flags, core,
              completed, tainted>>

NoVersion == 0
CorePhases == {"idle", "symbols", "rules", "commands", "flags", "diff", "edges",
               "lifecycle"}
IdleRun == [pc |-> "idle", done |-> 0, prev |-> NoVersion, todo |-> {}, replaced |-> {}]

CoreInit ==
  /\ symbols = [n \in {} |-> n] /\ rules = [n \in {} |-> n] /\ flags = [n \in {} |-> n]
  /\ replacedBy = {} /\ checks = {} /\ commands = {}
  /\ core = [v \in CoreVersions |-> IdleRun]
  /\ completed = [n \in {} |-> n] /\ tainted = {}

-----------------------------------------------------------------------------
(* Helpers.                                                                   *)

\* fetch_core_symbols.
FetchCoreSymbols(v) ==
  [s \in {n[1] : n \in {n \in DOMAIN symbols : n[2] = v}} |-> symbols[<<s, v>>]]

IndexedVersions == {n[2] : n \in DOMAIN symbols}

LatestOtherVersion(v) ==
  IF IndexedVersions \subseteq {v} THEN NoVersion ELSE Max(IndexedVersions \ {v})

\* The latest version below v of which some symbol is indexed.
FindPreviousIndexedVersion(v) ==
  LET lower == {w \in IndexedVersions : w < v}
  IN  IF lower = {} THEN NoVersion ELSE Max(lower)

\* compute_diff: what the symbols of the new version say of the old one.
Replaced(old, new) ==
  {s \in DOMAIN old \ DOMAIN new : old[s].repl \in DOMAIN new}
ComputeDiff(old, new) ==
  [added      |-> DOMAIN new \ DOMAIN old,
   removed    |-> (DOMAIN old \ DOMAIN new) \ Replaced(old, new),
   deprecated |-> {s \in DOMAIN old \cap DOMAIN new :
                     /\ new[s].status = "deprecated"
                     /\ old[s].status # "deprecated"},
   replaced   |-> {<<s, old[s].repl>> : s \in Replaced(old, new)}]

\* The lifecycle properties to write for a diff, each with the node it is for.
LifecycleOf(d, u, v) ==
  {[prop |-> "added",      node |-> <<s, v>>] : s \in d.added} \cup
  {[prop |-> "removed",    node |-> <<s, u>>] : s \in d.removed} \cup
  {[prop |-> "deprecated", node |-> <<s, v>>] : s \in d.deprecated}

Goto(v, pc) == core' = [core EXCEPT ![v].pc = pc]

Finish(v) ==
  /\ core' = [core EXCEPT ![v] = IdleRun]
  /\ completed' = [w \in DOMAIN completed \cup {v} |->
                     (IF w = v THEN DOMAIN completed ELSE completed[w]) \ {v}]

-----------------------------------------------------------------------------
(* index_core.                                                                *)

StartIndexCore(v) ==
  /\ ops < MaxOps
  /\ core[v].pc = "idle"
  /\ CoreOverlap \/ \A w \in CoreVersions : core[w].pc = "idle"
  /\ core' = [core EXCEPT ![v] = [IdleRun EXCEPT !.pc = "symbols"]]
  /\ ops' = ops + 1
  /\ UNCHANGED <<symbols, replacedBy, rules, checks, commands, flags,
                 completed, tainted>>

\* MERGE of one batch, in the order of the list: a node that is matched keeps the
\* lifecycle properties of earlier runs.
Matched(q, e) == [q EXCEPT !.status = e.status, !.repl = e.repl]
Created(e) == [status |-> e.status, repl |-> e.repl,
               added |-> NoVersion, removed |-> NoVersion, deprecated |-> NoVersion]
WriteCoreSymbols(v) ==
  LET upto  == Min({core[v].done + BatchSize, Len(Listed[v])})
      batch == SymbolTable(SubSeq(Listed[v], core[v].done + 1, upto))
  IN
  /\ core[v].pc = "symbols"
  /\ symbols' =
       [n \in DOMAIN symbols \cup (DOMAIN batch) \X {v} |->
          IF n[2] # v \/ n[1] \notin DOMAIN batch THEN symbols[n]
          ELSE IF n \in DOMAIN symbols THEN Matched(symbols[n], batch[n[1]])
          ELSE Created(batch[n[1]])]
  /\ core' = [core EXCEPT ![v] = [@ EXCEPT
                 !.done = upto,
                 !.pc = IF upto = Len(Listed[v]) THEN "rules" ELSE "symbols"]]
  /\ UNCHANGED <<replacedBy, rules, checks, commands, flags, completed, tainted, ops>>

\* MERGE by rule and version: of two kinds of a rule the last stays. A CHECKS
\* edge is made only when the symbol of the rule is indexed.
WriteLintRules(v) ==
  /\ core[v].pc = "rules"
  /\ rules' = [x \in DOMAIN rules \cup (DOMAIN RuleTable[v]) \X {v} |->
                 IF x[2] = v /\ x[1] \in DOMAIN RuleTable[v]
                 THEN RuleTable[v][x[1]] ELSE rules[x]]
  /\ checks' = checks \cup {<<r.id, r.symbol, v>> :
                 r \in {r \in ToSet(LintRules[v]) : <<r.symbol, v>> \in DOMAIN symbols}}
  /\ Goto(v, "commands")
  /\ UNCHANGED <<symbols, replacedBy, commands, flags, completed, tainted, ops>>

WriteCliCommands(v) ==
  /\ core[v].pc = "commands"
  /\ commands' = commands \cup Commands[v] \X {v}
  /\ Goto(v, "flags")
  /\ UNCHANGED <<symbols, replacedBy, rules, checks, flags, completed, tainted, ops>>

WriteCliFlags(v) ==
  /\ core[v].pc = "flags"
  /\ flags' = [x \in DOMAIN flags \cup {<<f.command, f.name, v>> : f \in ToSet(Flags[v])} |->
                 IF x[3] = v /\ <<x[1], x[2]>> \in DOMAIN FlagTable[v]
                 THEN FlagTable[v][<<x[1], x[2]>>] ELSE flags[x]]
  /\ Goto(v, "diff")
  /\ UNCHANGED <<symbols, replacedBy, rules, checks, commands, completed, tainted, ops>>

\* The previous version is compared as it is in the graph, whole or not.
DiffWithPrevious(v) ==
  LET u == FindPreviousIndexedVersion(v)
      d == ComputeDiff(FetchCoreSymbols(u), Table[v])
  IN
  /\ core[v].pc = "diff"
  /\ \/ /\ u = NoVersion
        /\ Finish(v)
        /\ UNCHANGED tainted
     \/ /\ u # NoVersion
        /\ core' = [core EXCEPT ![v] = [IdleRun EXCEPT !.pc = "edges", !.prev = u,
                                                       !.todo = LifecycleOf(d, u, v),
                                                       !.replaced = d.replaced]]
        /\ tainted' = IF u \in DOMAIN completed THEN tainted ELSE tainted \cup {v}
        /\ UNCHANGED completed
  /\ UNCHANGED <<symbols, replacedBy, rules, checks, commands, flags, ops>>

WriteDiffEdges(v) ==
  /\ core[v].pc = "edges"
  /\ replacedBy' = replacedBy \cup
       {<<p[1], core[v].prev, p[2], v>> :
          p \in {p \in core[v].replaced : /\ <<p[1], core[v].prev>> \in DOMAIN symbols
                                          /\ <<p[2], v>> \in DOMAIN symbols}}
  /\ Goto(v, "lifecycle")
  /\ UNCHANGED <<symbols, rules, checks, commands, flags, completed, tainted, ops>>

\* One statement for each property, first what is added, then what is removed,
\* then what is deprecated: properties are set, never cleared.
SetProperty(q, prop, v) ==
  CASE prop = "added"      -> [q EXCEPT !.added = v]
    [] prop = "removed"    -> [q EXCEPT !.removed = v]
    [] prop = "deprecated" -> [q EXCEPT !.deprecated = v]
Turn(f) == CASE f.prop = "added" -> 1 [] f.prop = "removed" -> 2 [] f.prop = "deprecated" -> 3
WriteLifecycleProperties(v) ==
  /\ core[v].pc = "lifecycle"
  /\ \/ /\ core[v].todo = {}
        /\ Finish(v)
        /\ UNCHANGED symbols
     \/ \E f \in core[v].todo :
          /\ \A g \in core[v].todo : Turn(f) <= Turn(g)
          /\ symbols' = IF f.node \in DOMAIN symbols
                        THEN [symbols EXCEPT ![f.node] = SetProperty(@, f.prop, v)]
                        ELSE symbols
          /\ core' = [core EXCEPT ![v].todo = @ \ {f}]
          /\ UNCHANGED completed
  /\ UNCHANGED <<replacedBy, rules, checks, commands, flags, tainted, ops>>

\* The process is killed, or a write raises: the rest of the run is not done.
KillIndexCore(v) ==
  /\ ops < MaxOps
  /\ core[v].pc # "idle"
  /\ core' = [core EXCEPT ![v] = IdleRun]
  /\ ops' = ops + 1
  /\ UNCHANGED <<symbols, replacedBy, rules, checks, commands, flags,
                 completed, tainted>>

CoreStep(v) ==
  \/ StartIndexCore(v) \/ WriteCoreSymbols(v) \/ WriteLintRules(v)
  \/ WriteCliCommands(v) \/ WriteCliFlags(v) \/ DiffWithPrevious(v)
  \/ WriteDiffEdges(v) \/ WriteLifecycleProperties(v) \/ KillIndexCore(v)

-----------------------------------------------------------------------------
(* The tools that read the layer.                                             *)

\* A name is a qualified one or its last parts.
Named(name, v) == {s \in Symbols : <<s, v>> \in DOMAIN symbols /\ IsSuffix(name, s)}

\* lookup_core_api and _fetch_core_symbol: a shortest match; among several any.
LookupCoreApi(name, v) ==
  {s \in Named(name, v) : \A t \in Named(name, v) : Length[s] <= Length[t]}

\* api_version_diff of a symbol given by its qualified name.
ApiVersionDiff(s, u, v) ==
  LET old == Named(s, u)
      new == Named(s, v)
  IN  CASE u = v                    -> "same"
        [] old = {} /\ new = {}     -> "not found"
        [] old # {} /\ new = {}     -> "removed"
        [] old = {} /\ new # {}     -> "added"
        [] OTHER                    -> "both"

\* lint_check: code is in a language and a sequence of lines, each the set of its
\* words and the rules its noqa comment names (all of them when it is bare). A
\* rule of the language fires on the lines that share two words with its message,
\* or on line 1 when only the code as a whole does, and is reported unless each
\* of those lines suppresses it.
KindsOf(language) ==
  CASE language = "python"     -> {"pylint-odoo", "pylint-stdlib"}
    [] language = "javascript" -> {"eslint-odoo"}
    [] language = "xml"        -> {"static-xml"}
Fires(r, words) == Cardinality(r \cap words) >= 2
HitLines(r, lines) ==
  LET hit == {i \in DOMAIN lines : Fires(r, lines[i].words)}
  IN  CASE ~Fires(r, UNION {lines[i].words : i \in DOMAIN lines}) -> {}
        [] hit = {} -> {1}
        [] OTHER -> hit
NoqaOnce(code, v) ==
  {x[1] : x \in {x \in DOMAIN rules :
     /\ x[2] = v
     /\ rules[x].kind \in KindsOf(code.language)
     /\ HitLines(rules[x].words, code.lines) # {}
     /\ \A i \in HitLines(rules[x].words, code.lines) : x[1] \notin code.lines[i].noqa}}
LintCheck(code, v) ==
  {x[1] : x \in {x \in DOMAIN rules :
     /\ x[2] = v
     /\ rules[x].kind \in KindsOf(code.language)
     /\ \E i \in HitLines(rules[x].words, code.lines) : x[1] \notin code.lines[i].noqa}}

\* cli_help of a command: its flags, or nothing when the command is not indexed.
CliHelp(c, v) ==
  IF <<c, v>> \in commands
  THEN {<<f[2], flags[f]>> : f \in {f \in DOMAIN flags : f[1] = c /\ f[3] = v}} ELSE {}

-----------------------------------------------------------------------------
(* What the layer promises.                                                   *)

CoreTypeOK ==
  /\ DOMAIN symbols \subseteq Symbols \X CoreVersions
  /\ \A n \in DOMAIN symbols :
       symbols[n] \in [status : Statuses, repl : Symbols \cup {NoSymbol},
                       added : CoreVersions \cup {NoVersion},
                       removed : CoreVersions \cup {NoVersion},
                       deprecated : CoreVersions \cup {NoVersion}]
  /\ replacedBy \subseteq Symbols \X CoreVersions \X Symbols \X CoreVersions
  /\ checks \subseteq {<<x[1], s, x[2]>> : x \in DOMAIN rules, s \in Symbols}
  /\ \A v \in CoreVersions : core[v].pc \in CorePhases
  /\ DOMAIN completed \cup tainted \subseteq CoreVersions
  /\ ops \in 0..MaxOps

\* v was last completed after u was.
After(v, u) == v \in DOMAIN completed /\ u \in completed[v]

\* Nothing is recorded that is not so.
LifecycleIsSound ==
  /\ \A n \in DOMAIN symbols :
       /\ (symbols[n].added # NoVersion /\ n[2] \notin tainted) =>
            \E w \in IndexedVersions : w < n[2] /\ n[1] \notin DOMAIN Table[w]
       /\ LET w == symbols[n].removed IN
          w # NoVersion => w > n[2] /\ n[1] \notin DOMAIN Table[w]
       /\ symbols[n].deprecated # NoVersion => symbols[n].status = "deprecated"
  /\ \A e \in replacedBy : /\ e[1] \in DOMAIN Table[e[2]] \ DOMAIN Table[e[4]]
                           /\ e[3] \in DOMAIN Table[e[4]]

\* All that changed from u to v is recorded.
Recorded(u, v) ==
  LET d == ComputeDiff(Table[u], Table[v]) IN
  /\ \A s \in d.added      : symbols[<<s, v>>].added = v
  /\ \A s \in d.removed    : symbols[<<s, u>>].removed = v
  /\ \A s \in d.deprecated : symbols[<<s, v>>].deprecated = v
  /\ \A p \in d.replaced   : /\ <<p[1], u, p[2], v>> \in replacedBy
                             /\ symbols[<<p[1], u>>].removed # v

\* What is recorded of a version agrees with the sources: whatever order the
\* versions are indexed in and wherever runs are killed, no symbol is said to be
\* new, gone, deprecated or replaced when it is not; and when a version and the
\* one below it were indexed in that order, all that changed is recorded
\* (index_core, compute_diff, write_lifecycle_properties).
LifecycleIsExact ==
  /\ LifecycleIsSound
  /\ \A v \in DOMAIN completed \ tainted :
       LET u == FindPreviousIndexedVersion(v)
       IN  (u # NoVersion /\ After(v, u)) => Recorded(u, v)

\* Once a version is indexed, every tool answers as its files read: each definition
\* of the framework is found and deprecated as it is marked, before the curated
\* file's word for it; two indexed versions compare as their sources do; a rule
\* that shares its id with no other is linked to its symbol, and reported when a
\* line breaks it without suppressing it; a command lists its flags, one written
\* first by the sources (parse_odoo_core, index_core, lookup_core_api,
\* api_version_diff, parse_lint_rules_for_version, lint_check, parse_cli_flags,
\* cli_help).
CoreIsAnswered ==
  \A v \in DOMAIN completed :
    /\ \A d \in Definitions(v) :
         /\ LookupCoreApi(d.symbol, v) = {d.symbol}
         /\ \E e \in Definitions(v) :
              /\ e.symbol = d.symbol
              /\ (symbols[<<d.symbol, v>>].status = "deprecated") <=> (e.deprecated # {})
    /\ \A e \in ToSet(LoadToolsSymbols(v)) :
         \/ \E d \in Definitions(v) : d.symbol = e.symbol
         \/ symbols[<<e.symbol, v>>].status = e.status
    /\ \A u \in DOMAIN completed \ {v}, s \in Symbols :
         /\ (ApiVersionDiff(s, u, v) = "removed") <=>
              (s \in DOMAIN Table[u] \ DOMAIN Table[v])
         /\ ApiVersionDiff(s, u, v) = "added" <=> ApiVersionDiff(s, v, u) = "removed"
    /\ \A r \in RulesOf(v) :
         /\ r.symbol \in DOMAIN Table[v] => <<r.id, r.symbol, v>> \in checks
         /\ \A code \in Snippets :
              (/\ r.kind \in KindsOf(code.language)
               /\ \E i \in DOMAIN code.lines : /\ Fires(r.words, code.lines[i].words)
                                               /\ r.id \notin code.lines[i].noqa)
                => r.id \in LintCheck(code, v)
    /\ \A c \in ParseCliCommands(v) : CliHelp(c, v) = FlagsOf(v, c)

-----------------------------------------------------------------------------
(* What theorems assume of the sources and of what the parsers make of them.  *)

\* Two entries of one name, in what the parsers and the curated files list of a
\* version, are the same.
Unambiguous ==
  \A v \in CoreVersions : \A i, j \in DOMAIN Listed[v] :
    Listed[v][i].symbol = Listed[v][j].symbol => Listed[v][i] = Listed[v][j]

\* A checkout of Odoo has some symbols.
NotEmpty == \A v \in CoreVersions : Listed[v] # <<>>

\* What the parsers list of a version is what its files say: every definition, as
\* it is marked; the curated symbols that are not defined; the rules whose id no
\* other has; the flags of every command, each with one status.
Parsed(v) ==
  /\ \A d \in Definitions(v) :
       /\ d.symbol \in DOMAIN Table[v]
       /\ \E e \in Definitions(v) :
            /\ e.symbol = d.symbol
            /\ (Table[v][d.symbol].status = "deprecated") <=> (e.deprecated # {})
  /\ \A e \in ToSet(LoadToolsSymbols(v)) :
       \/ \E d \in Definitions(v) : d.symbol = e.symbol
       \/ e.symbol \in DOMAIN Table[v] /\ Table[v][e.symbol].status = e.status
  /\ RulesOf(v) \subseteq ToSet(LintRules[v])
  /\ DOMAIN LintRules[v] = 1 .. Len(LintRules[v]) /\ Len(LintRules[v]) \in Nat
  /\ \A r \in ToSet(LintRules[v]) : IsFiniteSet(r.words)
  /\ \A c \in ParseCliCommands(v) :
       {<<f.name, f.status>> : f \in {f \in ToSet(Flags[v]) : f.command = c}} = FlagsOf(v, c)
  /\ \A f, g \in ToSet(Flags[v]) : f.command = g.command /\ f.name = g.name => f.status = g.status

\* A qualified name ends with no other one.
Qualified == \A s, t \in Symbols : IsSuffix(s, t) <=> s = t
=============================================================================
