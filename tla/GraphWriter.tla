---------------------------- MODULE GraphWriter ----------------------------
(* The code graph of one Odoo version: what Neo4jWriter makes of the parsed   *)
(* modules of several repositories. A run writes, module by module in the     *)
(* order of their dependencies, first all models, then views, then JavaScript,*)
(* then stylesheets; runs of different repositories interleave; a write only  *)
(* finds what is in the graph at that moment, and leaves a placeholder for a  *)
(* model, view or component that is not.                                      *)
EXTENDS SpecLayer, Parsers

CONSTANTS
  Modules,       \* module names, as numbers in their alphabetical order
  Repos,
  RepoOf,        \* [Modules -> Repos]
  Contents,      \* [Modules -> sets of sources]
  Checkout,      \* [Modules -> source]: what is first checked out
  Unresolved,    \* the module name of placeholders
  Modes,         \* <<--full, --gc>> of the runs
  MaxEdits       \* bound on the changes of a checkout

ASSUME GraphAssumption ==
  /\ Modules \subseteq Nat /\ IsFiniteSet(Modules) /\ Unresolved \notin Modules /\ None \notin Modules
  /\ RepoOf \in [Modules -> Repos]
  /\ DOMAIN Contents = Modules /\ \A m \in Modules : None \notin Contents[m]
  /\ DOMAIN Checkout = Modules /\ \A m \in Modules : Checkout[m] \in Contents[m] \cup {None}
  /\ Modes \subseteq BOOLEAN \X BOOLEAN /\ MaxEdits \in Nat

\* Each source, parsed, and what it says.
Results == [m \in Modules |-> [s \in Contents[m] |-> ParseModule(m, s)]]
Sources == [m \in Modules |-> [s \in Contents[m] |-> Said(m, s)]]

\* The parsers make lists of what a module has; only a relation has a comodel.
IsList(q)  == q \in Seq(ToSet(q))
IsField(f) == /\ f = [ttype |-> f.ttype, comodel |-> f.comodel]
              /\ f.comodel # None => f.ttype \in Relational
ASSUME ResultsAssumption ==
  \A m \in Modules : \A s \in Contents[m] :
    LET c == Results[m][s] IN
    /\ IsList(c.models) /\ IsList(c.views) /\ IsList(c.comps) /\ IsList(c.patches)
    /\ IsList(c.sheets) /\ c.depends \subseteq Modules
    /\ \A d \in ToSet(c.models) :
         /\ IsFiniteSet(DOMAIN d.fields) /\ IsFiniteSet(DOMAIN d.methods)
         /\ d.name # None /\ None \notin DOMAIN d.fields
         /\ \A n \in DOMAIN d.fields : IsField(d.fields[n])

VARIABLES
  graph,   \* the nodes and edges, see GraphInit
  disk,    \* [Modules -> source \cup {None}]: the checkouts
  dirty,   \* modules changed since the last complete run of their repository
  run,     \* [Repos -> run]
  edits,
  last,    \* history: [layer -> [module -> source last written \cup {None}]]
  pure,    \* history: [layer -> modules whose nodes all stem from that content]
  seen,    \* history: [layer -> [module -> {<<layer, module>>} in the graph,
           \*           unchanged, since before the module was last written, and
           \*           {<<"core", version>>} indexed before]]
  overtaken \* history: <<kind, xmlid>> extended before it was written itself

graphVars == <<graph, disk, dirty, run, edits, last, pure, seen,
               overtaken>>

Layers == {"models", "views", "js", "sheets"}
RunPhases == Layers \cup {"gc", "idle"}
IdleWorker == [pc |-> "idle", mods |-> <<>>, todo |-> <<>>, gc |-> FALSE]

Empty == [x \in {} |-> x]

GraphInit ==
  /\ graph = [mods |-> [m \in Modules |-> "absent"], depends |-> {},
              models |-> Empty, inherits |-> {}, delegates |-> {},
              fields |-> Empty, methods |-> Empty, uses |-> {},
              views |-> Empty, extends |-> {}, targets |-> {},
              comps |-> Empty, compExtends |-> {}, bound |-> {},
              patches |-> {}, patchEdges |-> {},
              sheets |-> {}, imports |-> {}, definedIn |-> {}]
  /\ disk = Checkout
  /\ dirty = Modules
  /\ run = [r \in Repos |-> IdleWorker]
  /\ edits = 0
  /\ last = [l \in Layers |-> [m \in Modules |-> None]]
  /\ pure = [l \in Layers |-> Modules]
  /\ seen = [l \in Layers |-> [m \in Modules |-> {}]]
  /\ overtaken = {}

Over(new, old) == [x \in DOMAIN new \cup DOMAIN old |->
                     IF x \in DOMAIN new THEN new[x] ELSE old[x]]
Without(f, gone(_)) == [x \in {x \in DOMAIN f : ~gone(x)} |-> f[x]]

\* The members of S in an order that respects R: the last one is one that none is to follow.
LastBy(T, R) == CHOOSE x \in T : \A y \in T : <<x, y>> \notin R
SortBy(S, R) ==
  MapThenFoldSet(LAMBDA x, q : Append(q, x), <<>>, LAMBDA x : x, LAMBDA T : LastBy(T, R), S)

-----------------------------------------------------------------------------
(* write_results: one transaction for the Python part of a module.            *)

\* MERGE of a Module node that is only referred to.
WithStubs(g, ms) ==
  [g EXCEPT !.mods = [m \in Modules |-> IF m \in ms /\ @[m] = "absent" THEN "stub" ELSE @[m]]]

ModelsNamed(g, n)    == {x \in DOMAIN g.models : x.name = n}
ResolvedModels(g, n) == {x \in ModelsNamed(g, n) : ~g.models[x].unresolved}
AnonymousPlaceholder(n) == [name |-> n, module |-> None]
ModelPlaceholder(n)  == [name |-> n, module |-> Unresolved]

StickyPlaceholder(g, n) ==
  IF ModelPlaceholder(n) \in ModelsNamed(g, n) \/ ResolvedModels(g, n) = {}
  THEN {ModelPlaceholder(n)} ELSE ResolvedModels(g, n)

\* The nodes an edge to the model named n is made to: all that are resolved, or
\* else a placeholder.
ParentsNamed(g, n) ==
  IF ResolvedModels(g, n) = {} THEN {ModelPlaceholder(n)} ELSE ResolvedModels(g, n)

RemovedNamed(ref) ==
  {s \in Symbols : /\ ShortName(s) = ref
                   /\ <<s, CodeVersion>> \in DOMAIN symbols
                   /\ symbols[<<s, CodeVersion>>].status = "removed"}
DeprecatedNamed(ref) ==
  {s \in Symbols : /\ ShortName(s) = ref
                   /\ <<s, CodeVersion>> \in DOMAIN symbols
                   /\ symbols[<<s, CodeVersion>>].status \in {"deprecated", "removed"}}

\* One class: the Model node is merged by name and module, so that two classes
\* of a module for one model share it, and is a definition once one of them is.
WriteModel(g, m, d) ==
  LET id      == [name |-> d.name, module |-> m]
      defines == d.explicit /\ d.name \notin d.inherit
      known   == id \in DOMAIN g.models
      node    == [def |-> defines \/ (known /\ g.models[id].def), unresolved |-> FALSE]
      g1      == [g EXCEPT !.models = Over([x \in {id} |-> node], @),
                           !.definedIn = @ \cup {<<"Model", id>>}]
      others  == {n \in d.inherit : n # d.name}
      selfs   == {x \in ModelsNamed(g1, d.name) : d.name \in d.inherit /\ x.module # m}
      parents == UNION {ParentsNamed(g1, n) : n \in others}
      hosts   == UNION {{<<id, e[2], x>> : x \in ParentsNamed(g1, e[1])} : e \in d.delegates}
      linked  == parents \cup {h[3] : h \in hosts}
      holders == [x \in {x \in linked : x.module = Unresolved} |->
                    [def |-> FALSE, unresolved |-> TRUE]]
      member(n) == [name |-> n, model |-> d.name, module |-> m]
      fieldOf == [x \in {member(n) : n \in DOMAIN d.fields}  |-> d.fields[x.name]]
      methOf  == [x \in {member(n) : n \in DOMAIN d.methods} |-> [super   |-> d.methods[x.name].super,
                   depends |-> d.methods[x.name].depends]]
  IN  [g1 EXCEPT
        !.models    = Over(@, holders),
        !.inherits  = @ \cup {<<id, x>> : x \in selfs \cup parents},
        !.delegates = @ \cup hosts,
        !.fields    = Over(fieldOf, @),
        !.methods   = Over(methOf, @),
        !.uses      = @ \cup UNION {{<<member(n), s>> : s \in
                        UNION {DeprecatedNamed(ref) : ref \in d.methods[n].refs}} :
                          n \in DOMAIN d.methods}]

WriteParseResult(g, m, c) ==
  LET g1 == [WithStubs(g, c.depends) EXCEPT !.mods[m] = "indexed",
                                            !.depends = @ \cup {m} \X c.depends]
  IN  FoldLeft(LAMBDA h, d : WriteModel(h, m, d), g1, c.models)

-----------------------------------------------------------------------------
(* write_view_results: views, and QWeb templates, which follow one pattern.   *)

\* A node has no key but its xmlid, and there may be several: n tells them apart.
ViewNodes(g, kind, xmlid) ==
  {x \in DOMAIN g.views : x.kind = kind /\ x.xmlid = xmlid}

UnresolvedViews(g, kind, xmlid) ==
  {x \in ViewNodes(g, kind, xmlid) : g.views[x].unresolved}
ResolvedViews(g, kind, xmlid) ==
  {x \in ViewNodes(g, kind, xmlid) : ~g.views[x].unresolved}

\* MERGE on the xmlid alone: all nodes of that xmlid become the view's, a
\* placeholder too, and that one stays marked as unresolved.
WriteView(g, m, v) ==
  LET hits  == ViewNodes(g, v.kind, v.xmlid)
      nodes == IF hits = {} THEN {[kind |-> v.kind, xmlid |-> v.xmlid, n |-> 1]} ELSE hits
      g1    == [g EXCEPT
                 !.views = Over([x \in nodes |->
                             [module |-> m, model |-> v.model,
                              unresolved |-> x \in hits /\ g.views[x].unresolved]], @),
                 !.definedIn = @ \cup {<<"View", x>> : x \in nodes},
                 !.targets = @ \cup nodes \X ModelsNamed(g, v.model)]
      based == ViewNodes(g1, v.kind, v.base)
      bases == ResolvedViews(g1, v.kind, v.base)
      stubs == {x \in based : g1.views[x].module = Unresolved}
      held  == IF stubs # {} THEN stubs
               ELSE {[kind |-> v.kind, xmlid |-> v.base, n |-> Max({0} \cup {x.n : x \in based}) + 1]}
  IN  CASE v.base = None -> g1
        [] v.base # None /\ bases # {} -> [g1 EXCEPT !.extends = @ \cup nodes \X bases]
        [] OTHER -> [g1 EXCEPT
             !.views   = Over(@, [x \in held |-> [module |-> Unresolved, model |-> None,
                                                  unresolved |-> TRUE]]),
             !.extends = @ \cup nodes \X held]

WriteViewParseResult(g, m, c) ==
  FoldLeft(LAMBDA h, v : WriteView(h, m, v),
           IF c.views = <<>> THEN g ELSE WithStubs(g, {m}), c.views)

-----------------------------------------------------------------------------
(* write_js_graph_results and write_stylesheets.                              *)

CompsNamed(g, n) == {x \in DOMAIN g.comps : x.name = n}

WriteComp(g, m, c) ==
  LET id == [name |-> c.name, module |-> m]
      g1 == [g EXCEPT !.comps = Over([x \in {id} |-> [unresolved |-> FALSE, bound |-> c.bound]], @),
                      !.definedIn = @ \cup {<<"OWLComp", id>>}]
  IN  [g1 EXCEPT
        !.compExtends = @ \cup {id} \X CompsNamed(g1, c.extends),
        !.bound       = @ \cup {id} \X ModelsNamed(g1, c.bound)]

WritePatch(g, m, p) ==
  LET id    == [target |-> p.target, name |-> p.name, module |-> m]
      found == {x \in CompsNamed(g, p.target) : ~g.comps[x].unresolved}
      held  == [name |-> p.target, module |-> Unresolved]
      g1    == [g EXCEPT !.patches = @ \cup {id},
                         !.definedIn = @ \cup {<<"JSPatch", id>>}]
  IN  IF found # {}
      THEN [g1 EXCEPT !.patchEdges = @ \cup {id} \X found]
      ELSE [g1 EXCEPT !.comps = Over(@, [x \in {held} |-> [unresolved |-> TRUE, bound |-> None]]),
                      !.patchEdges = @ \cup {<<id, held>>}]

WriteJsGraphResult(g, m, c) ==
  LET g0 == IF c.comps = <<>> /\ c.patches = <<>> THEN g ELSE WithStubs(g, {m})
      g1 == FoldLeft(LAMBDA h, x : WriteComp(h, m, x), g0, c.comps)
  IN  FoldLeft(LAMBDA h, x : WritePatch(h, m, x), g1, c.patches)

\* An IMPORTS edge is made to the stylesheets of that path indexed before.
WriteSheet(g, m, s) ==
  LET id == [path |-> s.path, module |-> m]
      g1 == [WithStubs(g, {m}) EXCEPT !.sheets = @ \cup {id},
                                      !.definedIn = @ \cup {<<"Stylesheet", id>>}]
  IN  [g1 EXCEPT !.imports = @ \cup {id} \X {x \in g1.sheets : x.path \in s.imports}]

WriteStylesheets(g, m, c) == FoldLeft(LAMBDA h, s : WriteSheet(h, m, s), g, c.sheets)

-----------------------------------------------------------------------------
(* delete_modules_scoped and gc_stale_modules.                                *)

\* DETACH DELETE of Module nodes: a module that others depend on may come back
\* as a stub.
ModuleOfNode(g, x) == IF x[1] = "View" THEN g.views[x[2]].module ELSE x[2].module
DropModules(g, ms) ==
  [g EXCEPT
    !.mods      = [m \in Modules |-> IF m \in ms THEN "absent" ELSE @[m]],
    !.depends   = {e \in @ : e[1] \notin ms /\ e[2] \notin ms},
    !.definedIn = {x \in @ : ModuleOfNode(g, x) \notin ms}]

GcAllRepositories(g, r, live) ==
  LET stale == {m \in Modules : g.mods[m] = "indexed" /\ m \notin live}
  IN  DropModules(g, stale)
GcStaleModules(g, r, live) ==
  LET stale == {m \in Modules : g.mods[m] = "indexed" /\ RepoOf[m] = r /\ m \notin live}
  IN  DropModules(g, stale)

\* The Module nodes written by this repository, and the nodes below them but for
\* the stylesheets, each with its edges.
DeleteModulesScoped(g, r) ==
  LET names   == {m \in Modules : g.mods[m] = "indexed" /\ RepoOf[m] = r}
      dead(x) == x.module \in names
      vdead(x) == g.views[x].module \in names
  IN  [DropModules(g, names) EXCEPT
        !.models      = Without(@, dead),
        !.inherits    = {e \in @ : ~dead(e[1]) /\ ~dead(e[2])},
        !.delegates   = {e \in @ : ~dead(e[1]) /\ ~dead(e[3])},
        !.fields      = Without(@, dead),
        !.methods     = Without(@, dead),
        !.uses        = {e \in @ : ~dead(e[1])},
        !.views       = Without(@, vdead),
        !.extends     = {e \in @ : ~vdead(e[1]) /\ ~vdead(e[2])},
        !.targets     = {e \in @ : ~vdead(e[1]) /\ ~dead(e[2])},
        !.comps       = Without(@, dead),
        !.compExtends = {e \in @ : ~dead(e[1]) /\ ~dead(e[2])},
        !.bound       = {e \in @ : ~dead(e[1]) /\ ~dead(e[2])},
        !.patches     = {x \in @ : ~dead(x)},
        !.patchEdges  = {e \in @ : ~dead(e[1]) /\ ~dead(e[2])}]

-----------------------------------------------------------------------------
(* Runs.                                                                      *)

\* What the parsers make of the checkout.
Parse(m) == Results[m][disk[m]]

\* build_registry: the installable modules of a checkout.
ModulesOf(r) ==
  {m \in Modules : RepoOf[m] = r /\ disk[m] # None /\ Parse(m).installable}
Sorted(S)    == SortBy(S, {p \in S \X S : p[1] < p[2]})

\* topological_sort: Kahn's algorithm with a queue, what is on a cycle at the end.
TopologicalSort(S) ==
  LET needs(m) == Parse(m).depends \cap S
      step(a, i) ==
        IF a.queue = <<>> THEN a
        ELSE LET out   == Append(a.out, Head(a.queue))
                 ready == {m \in S : /\ Head(a.queue) \in needs(m)
                                     /\ needs(m) \subseteq ToSet(out)}
             IN  [out |-> out, queue |-> Tail(a.queue) \o Sorted(ready)]
      end == FoldLeft(step, [out |-> <<>>, queue |-> Sorted({m \in S : needs(m) = {}})],
                      Sorted(1..Cardinality(S)))
  IN  end.out \o Sorted(S \ ToSet(end.out))

StartRun(r, full, gc) ==
  LET mods == IF full THEN ModulesOf(r) ELSE ModulesOf(r) \cap dirty IN
  /\ ops < MaxOps
  /\ run[r].pc = "idle"
  /\ mods # {}
  /\ run' = [run EXCEPT ![r] = [pc |-> "models", mods |-> TopologicalSort(mods),
                                todo |-> TopologicalSort(mods), gc |-> gc]]
  /\ ops' = ops + 1
  /\ UNCHANGED <<graph, disk, dirty, edits, last, pure, seen, overtaken>>

\* History kept by a write: what was there before it, and still is.
Wrote(l, m) ==
  LET c == disk[m]
      changed == last[l][m] # c
      there == {x \in Layers \X Modules : last[x[1]][x[2]] # None /\ x # <<l, m>>}
                 \cup {<<"core", v>> : v \in DOMAIN completed}
  IN  /\ last' = [last EXCEPT ![l][m] = c]
      /\ pure' = [pure EXCEPT ![l] = IF last[l][m] \notin {None, c} THEN @ \ {m} ELSE @]
      /\ seen' = [k \in Layers |-> [x \in Modules |->
                    IF k = l /\ x = m THEN there
                    ELSE IF changed THEN seen[k][x] \ {<<l, m>>} ELSE seen[k][x]]]

NextLayer(l) == CASE l = "models" -> "views" [] l = "views" -> "js" [] l = "js" -> "sheets"

\* One module is done in layer l; after the last one the next layer begins.
Advance(r, l) ==
  LET rest == Tail(run[r].todo)
  IN  run' = [run EXCEPT ![r] = IF rest = <<>>
                                THEN [@ EXCEPT !.pc = NextLayer(l), !.todo = run[r].mods]
                                ELSE [@ EXCEPT !.todo = rest]]

WriteResults(r) ==
  LET m == Head(run[r].todo) IN
  /\ run[r].pc = "models"
  /\ graph' = WriteParseResult(graph, m, Parse(m))
  /\ Wrote("models", m)
  /\ Advance(r, "models")
  /\ UNCHANGED <<disk, dirty, edits, ops, overtaken>>

WriteViewResults(r) ==
  LET m == Head(run[r].todo) IN
  /\ run[r].pc = "views"
  /\ graph' = WriteViewParseResult(graph, m, Parse(m))
  /\ Wrote("views", m)
  /\ overtaken' = overtaken \cup
       ({<<v.kind, v.base>> : v \in Sources[m][disk[m]].views} \
          {<<v.kind, v.xmlid>> : v \in UNION {Sources[y][last["views"][y]].views :
                                              y \in {y \in Modules : last["views"][y] # None}}})
  /\ Advance(r, "views")
  /\ UNCHANGED <<disk, dirty, edits, ops>>

WriteJsGraphResults(r) ==
  LET m == Head(run[r].todo) IN
  /\ run[r].pc = "js"
  /\ graph' = WriteJsGraphResult(graph, m, Parse(m))
  /\ Wrote("js", m)
  /\ Advance(r, "js")
  /\ UNCHANGED <<disk, dirty, edits, ops, overtaken>>

\* The stylesheets of all modules of the run are one batch.
WriteAllStylesheets(r) ==
  LET mods == run[r].mods IN
  /\ run[r].pc = "sheets"
  /\ graph' = FoldLeft(LAMBDA g, m : WriteStylesheets(g, m, Parse(m)), graph, mods)
  /\ last' = [last EXCEPT !["sheets"] = [m \in Modules |->
                IF m \in ToSet(mods) THEN disk[m] ELSE @[m]]]
  /\ run' = [run EXCEPT ![r].pc = "gc"]
  /\ UNCHANGED <<disk, dirty, edits, ops, pure, seen, overtaken>>

\* A module that is gone from the graph has nothing left to be measured by.
Forgotten(ms, l, m) == {x \in seen[l][m] : x[1] = "core" \/ x[2] \notin ms}

EndRun(r) ==
  LET live  == ModulesOf(r)
      stale == {m \in Modules : graph.mods[m] = "indexed" /\ RepoOf[m] = r /\ m \notin live}
      gone  == IF run[r].gc /\ live # {} THEN stale ELSE {}
  IN
  /\ run[r].pc = "gc"
  /\ graph' = IF run[r].gc /\ live # {} THEN GcStaleModules(graph, r, live) ELSE graph
  /\ dirty' = dirty \ ToSet(run[r].mods)
  /\ run' = [run EXCEPT ![r] = IdleWorker]
  /\ last' = [l \in Layers |-> [m \in Modules |-> IF m \in gone THEN None ELSE last[l][m]]]
  /\ pure' = [l \in Layers |-> pure[l] \ gone]
  /\ seen' = [l \in Layers |-> [m \in Modules |-> Forgotten(gone, l, m)]]
  /\ UNCHANGED <<disk, edits, ops, overtaken>>

\* The process is killed, or something raises: the modules written stay written.
KillRun(r) ==
  /\ ops < MaxOps
  /\ run[r].pc # "idle"
  /\ run' = [run EXCEPT ![r] = IdleWorker]
  /\ ops' = ops + 1
  /\ UNCHANGED <<graph, disk, dirty, edits, last, pure, seen, overtaken>>

\* A checkout is pulled while its repository is not indexed: a module changes,
\* is removed, or comes back.
Pull(m, c) ==
  /\ ops < MaxOps /\ edits < MaxEdits
  /\ run[RepoOf[m]].pc = "idle"
  /\ disk[m] # c
  /\ disk' = [disk EXCEPT ![m] = c]
  /\ dirty' = dirty \cup {m}
  /\ ops' = ops + 1 /\ edits' = edits + 1
  /\ UNCHANGED <<graph, run, last, pure, seen, overtaken>>

\* The web administration deletes a repository that is not being indexed.
DeleteRepository(r) ==
  LET ms == {m \in Modules : RepoOf[m] = r} IN
  /\ ops < MaxOps
  /\ run[r].pc = "idle"
  /\ \E m \in ms : graph.mods[m] = "indexed"
  /\ graph' = DeleteModulesScoped(graph, r)
  /\ dirty' = dirty \cup ms
  /\ last' = [l \in Layers |-> [m \in Modules |->
                IF m \in ms /\ l # "sheets" THEN None ELSE last[l][m]]]
  /\ pure' = [l \in Layers |-> IF l = "sheets" THEN pure[l]
                               ELSE pure[l] \cup {m \in ms : graph.mods[m] = "indexed"}]
  /\ seen' = [l \in Layers |-> [m \in Modules |-> IF m \in ms THEN {} ELSE Forgotten(ms, l, m)]]
  /\ ops' = ops + 1
  /\ UNCHANGED <<disk, run, edits, overtaken>>

GraphStep ==
  \/ \E r \in Repos : \/ \E mode \in Modes : StartRun(r, mode[1], mode[2])
                      \/ WriteResults(r) \/ WriteViewResults(r)
                      \/ WriteJsGraphResults(r) \/ WriteAllStylesheets(r)
                      \/ EndRun(r) \/ KillRun(r) \/ DeleteRepository(r)
  \/ \E m \in Modules : \E c \in Contents[m] \cup {None} : Pull(m, c)

GraphTypeOK ==
  /\ graph.mods \in [Modules -> {"absent", "stub", "indexed"}]
  /\ \A x \in DOMAIN graph.models : x.module \in Modules \cup {Unresolved}
  /\ \A e \in graph.inherits : e[1] \in DOMAIN graph.models /\ e[2] \in DOMAIN graph.models
  /\ \A e \in graph.extends : e[1] \in DOMAIN graph.views /\ e[2] \in DOMAIN graph.views
  /\ \A e \in graph.patchEdges : e[1] \in graph.patches /\ e[2] \in DOMAIN graph.comps
  /\ \A x \in DOMAIN graph.fields : [name |-> x.model, module |-> x.module] \in DOMAIN graph.models
  /\ \A r \in Repos : run[r].pc \in RunPhases /\ ToSet(run[r].todo) \subseteq Modules
  /\ dirty \subseteq Modules /\ edits \in 0..MaxEdits
=============================================================================
