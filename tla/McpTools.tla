------------------------------ MODULE McpTools ------------------------------
(* The knowledge graph as an agent sees it: the answers of the MCP tools, each*)
(* a function of the graph, while index_core and runs of the repositories     *)
(* write it. A tool reads between two transactions of the writer.             *)
EXTENDS GraphWriter

CONSTANTS
  Edition,       \* [Modules -> EDITION_PRIORITY of the manifest's edition]
  ElseRank,      \* EDITION_PRIORITY_ELSE
  NameOrder,     \* all names of models, members, views and components, sorted
  MagicFields,   \* [names -> [ttype, comodel]]: the fields of every model
  HighRisk, MediumRisk   \* IMPACT_RISK_HIGH_THRESHOLD and _MED_

\* The names that lists are ordered by.
NamesIn(m, s) ==
  LET r == Results[m][s] IN
  (UNION {{d.name} \cup DOMAIN d.fields \cup DOMAIN d.methods : d \in ToSet(r.models)})
    \cup (UNION {{v.xmlid, v.base} : v \in ToSet(r.views)})
    \cup {c.name : c \in ToSet(r.comps)}
    \cup (UNION {{p.target, p.name} : p \in ToSet(r.patches)})

ASSUME ToolsAssumption ==
  /\ CodeVersion \in Nat /\ HighRisk \in Nat /\ MediumRisk \in Nat /\ ElseRank \in Int
  /\ Edition \in [Modules -> Int]
  /\ NameOrder \in Seq(ToSet(NameOrder))
  /\ \A f \in DOMAIN MagicFields : IsField(MagicFields[f])
  /\ \A m \in Modules : \A s \in Contents[m] : NamesIn(m, s) \subseteq ToSet(NameOrder)

VARIABLE overlaps   \* writers started while another was at work

vars == <<coreVars, graphVars, ops, overlaps>>

Init == CoreInit /\ GraphInit /\ ops = 0 /\ overlaps = 0

Active == Cardinality({v \in CoreVersions : core[v].pc # "idle"})
            + Cardinality({r \in Repos : run[r].pc # "idle"})

\* An operation that begins while another is under way counts twice.
Next == /\ \/ \E v \in CoreVersions : CoreStep(v) /\ UNCHANGED graphVars
           \/ GraphStep /\ UNCHANGED coreVars
        /\ overlaps' = IF Active' > Active /\ Active > 0 THEN overlaps + 1 ELSE overlaps
        /\ ops' + overlaps' <= MaxOps

Spec == Init /\ [][Next]_vars

NotFound == [found |-> FALSE]

-----------------------------------------------------------------------------
(* Orders.                                                                    *)

Alpha(n) == CHOOSE i \in DOMAIN NameOrder : NameOrder[i] = n

\* ORDER BY several keys. Rows of equal keys stand in no order: InOrder takes one
\* that the keys allow, which is no other answer's.
Precedes(s, t) ==
  \E i \in DOMAIN s : s[i] < t[i] /\ \A j \in 1..(i - 1) : s[j] = t[j]
InOrder(rows, key(_)) == SortBy(rows, {p \in rows \X rows : Precedes(key(p[1]), key(p[2]))})

\* _edition_rank_cypher, then the name of the module: a stub has no edition, and
\* the nodes a module leaves behind have no name to be ordered by and come last.
ModuleRank(m) ==
  CASE graph.mods[m] = "indexed" -> <<Edition[m], 0, m>>
    [] graph.mods[m] = "stub"    -> <<ElseRank, 0, m>>
    [] graph.mods[m] = "absent"  -> <<ElseRank, 1, 0>>

FieldsOf(model)  == {x \in DOMAIN graph.fields  : x.model = model}
MethodsOf(model) == {x \in DOMAIN graph.methods : x.model = model}

\* The layers of a model: its definition first, then by their number of fields
\* and of dependent modules.
LayerRank(model, m) ==
  LET id == [name |-> model, module |-> m] IN
  << IF id \in DOMAIN graph.models /\ graph.models[id].def THEN 0 ELSE 1,
     -Cardinality({x \in FieldsOf(model) : x.module = m}),
     -Cardinality({e \in graph.depends : e[2] = m}) >> \o ModuleRank(m)

\* Modules of nodes, in the order of their layers of a model.
Layered(model, nodes) ==
  InOrder({x.module : x \in nodes}, LAMBDA m : LayerRank(model, m))

-----------------------------------------------------------------------------
(* model_inspect and entity_lookup: one entity.                               *)

InModule(nodes, from) == {x \in nodes : from \in {None, x.module}}

ParentNames(model) ==
  {e[2].name : e \in {e \in graph.inherits : /\ e[1].name = model /\ e[2].name # model
                                             /\ ~graph.models[e[2]].unresolved}}

ResolveModel(model, from) ==
  LET layers == Layered(model, InModule({x \in ModelsNamed(graph, model) :
                                           <<"Model", x>> \in graph.definedIn}, from))
  IN  IF layers = <<>> THEN NotFound
      ELSE [found   |-> TRUE, base |-> Head(layers), extensions |-> Tail(layers),
            parents |-> ParentNames(model),
            fields  |-> Cardinality(FieldsOf(model)),
            methods |-> Cardinality(MethodsOf(model))]

\* A magic field is answered only when the caller names no module.
ResolveField(model, field, from) ==
  LET layers == Layered(model, InModule({x \in FieldsOf(model) : x.name = field}, from))
  IN  CASE layers # <<>> ->
             [found |-> TRUE, declaredIn |-> layers,
              ttype |-> graph.fields[[name |-> field, model |-> model,
                                      module |-> Head(layers)]].ttype]
        [] layers = <<>> /\ from = None /\ field \in DOMAIN MagicFields ->
             [found |-> TRUE, declaredIn |-> <<>>, ttype |-> MagicFields[field].ttype]
        [] OTHER -> NotFound

\* The override chain: modules, each with whether it calls super().
ResolveMethod(model, method) ==
  LET layers == Layered(model, {x \in MethodsOf(model) : x.name = method})
      super(m) == graph.methods[[name |-> method, model |-> model, module |-> m]].super
  IN  [i \in DOMAIN layers |-> [module |-> layers[i], super |-> super(layers[i])]]

\* .single() takes one of the nodes of that xmlid, and one of their parents.
ResolveView(xmlid) ==
  LET nodes == ViewNodes(graph, "view", xmlid)
      bases == {e[2].xmlid : e \in {e \in graph.extends : e[1] \in nodes
                                      /\ ~graph.views[e[2]].unresolved}}
      exts  == {e[1].xmlid : e \in {e \in graph.extends : e[2] \in nodes
                                      /\ ~graph.views[e[1]].unresolved}}
  IN  {[module |-> IF <<"View", x>> \in graph.definedIn THEN graph.views[x].module ELSE None,
        model |-> graph.views[x].model, base |-> b, extensions |-> exts] :
         x \in nodes, b \in IF bases = {} THEN {None} ELSE bases}

\* A Module node is enough, the stub of a dependency too; only its edition is
\* missing then.
CheckModuleExists(m) ==
  [indexed |-> graph.mods[m] # "absent",
   edition |-> IF graph.mods[m] = "indexed" THEN Edition[m] ELSE ElseRank]

DescribeModule(m) ==
  LET models == {x \in DOMAIN graph.models : x.module = m} IN
  IF graph.mods[m] = "absent" THEN NotFound
  ELSE [found   |-> TRUE,
        depends |-> {e[2] : e \in {e \in graph.depends : e[1] = m}},
        defines |-> {x.name : x \in {x \in models : graph.models[x].def}},
        extends |-> {x.name : x \in {x \in models : ~graph.models[x].def}},
        views   |-> Cardinality({x \in DOMAIN graph.views :
                                   x.kind = "view" /\ graph.views[x].module = m}),
        patches |-> Cardinality({x \in graph.patches : x.module = m})]

\* find_override_point: the modules by name, and how many call super().
FindOverridePoint(model, method) ==
  LET nodes == {x \in MethodsOf(model) : x.name = method} IN
  IF nodes = {} THEN NotFound
  ELSE [found |-> TRUE, modules |-> {x.module : x \in nodes},
        super |-> Cardinality({x \in nodes : graph.methods[x].super})]

-----------------------------------------------------------------------------
(* impact_analysis and find_deprecated_usage.                                 *)

ComputeRisk(total) ==
  CASE total >= HighRisk -> "HIGH"
    [] total \in MediumRisk..(HighRisk - 1) -> "MEDIUM"
    [] OTHER -> "LOW"

OnlyOverrides(kind, model, member) ==
  {x \in MethodsOf(model) : /\ kind = "method" => x.name = member
                            /\ graph.methods[x].super}
MayBreak(kind, model, member) ==
  CASE kind = "model"  -> MethodsOf(model)
    [] kind = "method" -> {x \in MethodsOf(model) : x.name = member}
    [] kind = "field"  -> {x \in MethodsOf(model) : graph.methods[x].super}

ImpactAnalysis(kind, model, member) ==
  LET nodes   == ModelsNamed(graph, model)
      known   == CASE kind = "model"  -> ResolvedModels(graph, model) # {}
                   [] kind = "field"  -> \E x \in FieldsOf(model)  : x.name = member
                   [] kind = "method" -> \E x \in MethodsOf(model) : x.name = member
      views   == {<<e[1].xmlid, graph.views[e[1]].module>> :
                    e \in {e \in graph.targets : e[2] \in nodes}}
      methods == {<<x.name, x.module>> : x \in MayBreak(kind, model, member)}
      comps   == {e[1] : e \in {e \in graph.bound : e[2] \in nodes}}
      js      == {e[1] : e \in {e \in graph.patchEdges : e[2] \in comps}}
      homes   == {x.module : x \in {x \in nodes : <<"Model", x>> \in graph.definedIn}}
  IN  IF ~known THEN NotFound
      ELSE [found |-> TRUE, views |-> views, methods |-> methods, js |-> js,
            dependents |-> {e[1] : e \in {e \in graph.depends : e[2] \in homes}},
            risk |-> ComputeRisk(Cardinality(views) + Cardinality(methods) + Cardinality(js))]

FindDeprecatedUsage ==
  {u \in graph.uses : /\ <<u[2], CodeVersion>> \in DOMAIN symbols
                      /\ symbols[<<u[2], CodeVersion>>].status \in {"deprecated", "removed"}}

-----------------------------------------------------------------------------
(* Lists, in pages: SKIP start LIMIT limit, and the total of another query.   *)
(* A list is its rows, each with the key that ORDER BY gives it, and the total.*)

Rows(list) == DOMAIN list.key

ModuleKey(x) == ModuleRank(x.module)
MemberKey(x) == ModuleRank(x.module) \o <<Alpha(x.name)>>

ListFields(model, module, ttype) ==
  LET rows == {x \in InModule(FieldsOf(model), module) :
                 ttype \in {None, graph.fields[x].ttype}}
  IN  [key |-> [x \in rows |-> MemberKey(x)], total |-> Cardinality(rows)]

\* The magic fields shown before the first page, unless the model declares them.
MagicPrelude(model, module, ttype, start) ==
  {f \in DOMAIN MagicFields :
     /\ start = 0 /\ module = None
     /\ ttype \in {None, MagicFields[f].ttype}
     /\ \A x \in FieldsOf(model) : x.name # f}

\* A method is marked as overridden when two modules have it.
ListMethods(model, module) ==
  LET rows == InModule(MethodsOf(model), module)
      homes(n) == {x.module : x \in {x \in MethodsOf(model) : x.name = n}}
  IN  [key |-> [x \in rows |-> MemberKey(x)], total |-> Cardinality(rows),
       overrides |-> {x.name : x \in {x \in MethodsOf(model) : Cardinality(homes(x.name)) >= 2}}]

\* By model or by module; the nodes of one xmlid are rows of their own, in no order.
ViewKey(x) == ModuleRank(graph.views[x].module) \o <<Alpha(x.xmlid)>>
ListViews(model, module) ==
  LET rows == {x \in DOMAIN graph.views :
                 /\ x.kind = "view" /\ graph.views[x].module # Unresolved
                 /\ model \in {None, graph.views[x].model}
                 /\ module \in {None, graph.views[x].module}}
  IN  [key |-> [x \in rows |-> ViewKey(x)], total |-> Cardinality(rows)]

\* Refused up to Odoo 13.
ListOwlComponents(m, model) ==
  LET rows == {x \in DOMAIN graph.comps :
                 CodeVersion > 13 /\ x.module = m /\ model \in {None, graph.comps[x].bound}}
  IN  [key |-> [x \in rows |-> <<Alpha(x.name)>>], total |-> Cardinality(rows)]

\* A row for each parent a template has had; the total counts the templates.
ListQwebTemplates(m) ==
  LET nodes == {x \in DOMAIN graph.views : x.kind = "template" /\ graph.views[x].module = m}
      bases(x) == {e[2].xmlid : e \in {e \in graph.extends :
                                         e[1] = x /\ ~graph.views[e[2]].unresolved}}
      shown(x) == IF bases(x) = {} THEN {None} ELSE bases(x)
      rows == UNION {{[xmlid |-> x.xmlid, base |-> b] : b \in shown(x)} : x \in nodes}
  IN  [key |-> [r \in rows |-> <<Alpha(r.xmlid)>>], total |-> Cardinality(nodes)]

PatchKey(x) == ModuleRank(x.module) \o <<Alpha(x.target), Alpha(x.name)>>
ListJsPatches(target, module) ==
  LET rows == {x \in InModule(graph.patches, module) : target \in {None, x.target}} IN
  [key |-> [x \in rows |-> PatchKey(x)], total |-> Cardinality(rows)]

\* The stylesheets of a module, each with the stylesheets it imports.
ResolveStylesheet(m) ==
  {<<x.path, {e[2] : e \in {e \in graph.imports : e[1] = x}}>> :
     x \in {x \in graph.sheets : x.module = m}}

\* Each page is a query, which may order rows of equal keys in its own way: all
\* that is certain of a page is the keys of its rows.
ListKeys(list) ==
  LET rows == InOrder(Rows(list), LAMBDA x : list.key[x])
  IN  [i \in DOMAIN rows |-> list.key[rows[i]]]
Page(keys, start, limit) ==
  SubSeq(keys, start + 1, IF start + limit < Len(keys) THEN start + limit ELSE Len(keys))

\* What an agent sees that follows the pager to its end, while the list does not
\* change: a write between two pages that adds or drops a row shifts what SKIP skips.
Walk(list, limit) ==
  LET keys == ListKeys(list)
      pages[start \in 0..Len(keys)] ==
        LET page == Page(keys, start, limit) IN
        IF page # <<>> /\ list.total > start + Len(page)
        THEN page \o pages[start + Len(page)]
        ELSE page
  IN  pages[0]

-----------------------------------------------------------------------------
(* The ORM tools.                                                             *)

\* INHERITS or DELEGATES_TO, from one to depth steps from the nodes of starts.
Within(edges, starts, depth) ==
  FoldLeft(LAMBDA near, i : near \cup {e[2] : e \in {e \in edges : e[1] \in near \cup starts}},
           {}, [i \in 1..depth |-> i])

\* _lookup_field: a field of the model itself, a magic one, or one of a mixin or
\* of a delegate at most three steps away.
LookupField(model, field) ==
  LET edges   == graph.inherits \cup {<<e[1], e[3]>> : e \in graph.delegates}
      parents == {x \in Within(edges, ResolvedModels(graph, model), 3) :
                    ~graph.models[x].unresolved}
      own     == {x \in FieldsOf(model) : x.name = field}
      found   == {x \in DOMAIN graph.fields :
                    x.name = field /\ \E p \in parents : p.name = x.model}
      first(S, key(_)) == graph.fields[Head(InOrder(S, key))]
  IN  CASE own # {} -> first(own, LAMBDA x : <<x.module>>)
        [] own = {} /\ field \in DOMAIN MagicFields -> MagicFields[field]
        [] own = {} /\ field \notin DOMAIN MagicFields /\ found # {} ->
             first(found, LAMBDA x : <<Alpha(x.model), x.module>>)
        [] OTHER -> NotFound

\* _traverse_field_chain: the model reached by a path and its last field, or why
\* there is none.
TraverseFieldChain(model, path) ==
  LET last_hop == Len(path)
      hop(at, i) ==
        LET info == LookupField(at.model, path[i]) IN
        CASE at.error # None  -> at
          [] at.error = None /\ info = NotFound -> [at EXCEPT !.error = "missing"]
          [] at.error = None /\ info # NotFound /\ i = last_hop ->
               [at EXCEPT !.field = path[i]]
          [] OTHER ->
               CASE info.ttype \notin Relational -> [at EXCEPT !.error = "not_relational"]
                 [] info.ttype \in Relational /\ info.comodel = None ->
                      [at EXCEPT !.error = "dangling_comodel"]
                 [] OTHER -> [at EXCEPT !.model = info.comodel]
  IN  FoldLeft(hop, [model |-> model, field |-> None,
                     error |-> IF path = <<>> THEN "missing" ELSE None],
               [i \in 1..last_hop |-> i])

\* The terms of a domain, as <<path, operator is valid>>, that are in error.
ValidateDomain(model, terms) ==
  {t \in terms : ~t[2] \/ TraverseFieldChain(model, t[1]).error # None}

\* The dependencies of a method, of all its overrides, that are in error.
ValidateDepends(model, method) ==
  LET nodes == {x \in MethodsOf(model) : x.name = method}
      paths == UNION {graph.methods[x].depends : x \in nodes}
  IN  IF nodes = {} THEN NotFound
      ELSE [found |-> TRUE,
            broken |-> {p \in paths : \/ "id" \in ToSet(p)
                                      \/ TraverseFieldChain(model, p).error # None}]

\* The comodel is the target, or inherits from it in at most five steps.
ValidateRelation(model, field, target) ==
  LET info == LookupField(model, field) IN
  /\ info # NotFound
  /\ info.ttype \in Relational
  /\ \/ info.comodel = target
     \/ /\ info.comodel # None
        /\ \E x \in Within(graph.inherits, ResolvedModels(graph, info.comodel), 5) :
             x.name = target

\* The routers: which tool answers for a method of model_inspect and a kind of
\* entity_lookup, given the arguments that are present.
ModelInspect(method, model, member, module) ==
  CASE method = "summary" -> ResolveModel(model, module)
    [] method = "fields"  -> ListFields(model, module, None)
    [] method = "methods" -> ListMethods(model, None)
    [] method = "views"   -> ListViews(model, None)
    [] method = "field"  /\ member # None -> ResolveField(model, member, module)
    [] method = "method" /\ member # None -> ResolveMethod(model, member)
    [] OTHER -> NotFound

ModuleInspect(method, m) ==
  CASE method = "summary" -> DescribeModule(m)
    [] method = "views"   -> ListViews(None, m)
    [] method = "owl"     -> ListOwlComponents(m, None)
    [] method = "qweb"    -> ListQwebTemplates(m)
    [] method = "js"      -> ListJsPatches(None, m)
    [] OTHER -> NotFound

-----------------------------------------------------------------------------
(* What the tools promise, in terms of the sources last written.              *)

\* Both layers: the structure of the nodes and edges.
TypeOK == CoreTypeOK /\ GraphTypeOK

Written(l)   == {m \in Modules : last[l][m] # None}
SaidIn(l, m) == Sources[m][last[l][m]]
Classes(m)   == SaidIn("models", m).classes
Views(m)     == SaidIn("views", m).views
Comps(m)     == SaidIn("js", m).comps
Patches(m)   == SaidIn("js", m).patches
Sheets(m)    == SaidIn("sheets", m).sheets

\* Whatever the other repositories do, a written module is answered by every
\* tool as its sources were: it exists with its edition, each class is a layer
\* of its model, with its fields and methods; a model it defines in any of its
\* classes is a definition; its views, components, patches and stylesheets are
\* listed. When all that was written of it is this content, nothing else is
\* (_write_parse_result, _write_js_graph_result, delete_modules_scoped,
\* gc_stale_modules; the resolve, list and describe tools).
MembersAreFound(m) ==
  \A d \in Classes(m) :
    /\ ModelInspect("summary", d.name, None, m).found
    /\ LET shown == ModelInspect("summary", d.name, None, None) IN
       m \in {shown.base} \cup ToSet(shown.extensions)
    /\ \A f \in DOMAIN d.fields :
         /\ m \in ToSet(ModelInspect("field", d.name, f, None).declaredIn)
         /\ LookupField(d.name, f) # NotFound
         /\ [name |-> f, model |-> d.name, module |-> m]
              \in Rows(ModelInspect("fields", d.name, None, None))
    /\ \A n \in DOMAIN d.methods :
         /\ m \in {x.module : x \in ToSet(ResolveMethod(d.name, n))}
         /\ m \in FindOverridePoint(d.name, n).modules
Defines(m) == {d.name : d \in {d \in Classes(m) : d.explicit /\ d.name \notin d.inherit}}
NothingElseIsFound(m) ==
  /\ DescribeModule(m).defines = Defines(m)
  /\ DescribeModule(m).extends = {d.name : d \in Classes(m)} \ Defines(m)
  /\ {<<x.model, x.name>> : x \in {x \in DOMAIN graph.fields : x.module = m}}
       = UNION {{d.name} \X (DOMAIN d.fields) : d \in Classes(m)}
  /\ {<<x.model, x.name>> : x \in {x \in DOMAIN graph.methods : x.module = m}}
       = UNION {{d.name} \X (DOMAIN d.methods) : d \in Classes(m)}
AnswersMatchSources ==
  /\ \A m \in Written("models") :
       /\ CheckModuleExists(m) = [indexed |-> TRUE, edition |-> Edition[m]]
       /\ MembersAreFound(m)
       /\ Defines(m) \subseteq DescribeModule(m).defines
       /\ m \in pure["models"] => NothingElseIsFound(m)
  /\ \A m \in Written("views") : \A v \in Views(m) :
       \E x \in ViewNodes(graph, v.kind, v.xmlid) : graph.views[x].module = m
  /\ \A m \in Written("js") :
       /\ CodeVersion > 13 => {c.name : c \in Comps(m)} \subseteq
                                {x.name : x \in Rows(ListOwlComponents(m, None))}
       /\ {[target |-> p.target, name |-> p.name, module |-> m] : p \in Patches(m)}
            \subseteq Rows(ListJsPatches(None, m))
       /\ m \in pure["js"] => DescribeModule(m).patches = Cardinality(Patches(m))
  /\ \A m \in Written("sheets") :
       LET shown == ResolveStylesheet(m) IN
       /\ {s.path : s \in Sheets(m)} \subseteq {x[1] : x \in shown}
       /\ \A s, t \in Sheets(m) : t.path \in s.imports =>
            \E x \in shown : x[1] = s.path /\ [path |-> t.path, module |-> m] \in x[2]

\* A class that inherits a model of a module indexed before it shows it as a
\* parent, and every field it has through at most three such steps is found by
\* the ORM tools, whatever was indexed in between, so that no domain or @api.depends
\* path over a relation to it is refused; and a relation to a class is accepted as
\* one to the models it inherits (_write_parse_result, _resolve_model,
\* _lookup_field, _traverse_field_chain, _validate_domain, _validate_depends,
\* _validate_relation).
Mixins(d) == d.inherit \ {d.name}
Hosts(d)  == Mixins(d) \cup {e[1] : e \in d.delegates}
Layer(S)  == UNION {{m} \X Classes(m) : m \in S}
Above(S, parents(_)) ==
  UNION {{q \in Layer(Written("models")) :
            /\ <<"models", q[1]>> \in seen["models"][p[1]]
            /\ q[2].name \in parents(p[2])} : p \in S}
Inherited(p, parents(_)) ==
  LET one == Above({p}, parents)
      two == Above(one, parents)
  IN  one \cup two \cup Above(two, parents)
InheritanceIsShown ==
  LET written == Layer(Written("models")) IN
  \A p \in written :
    LET d      == p[2]
        hosts  == Inherited(p, Hosts)
        models == {d.name} \cup {q[2].name : q \in Inherited(p, Mixins)}
        fields == UNION {DOMAIN q[2].fields : q \in hosts \cup {p}}
    IN
    /\ {q[2].name : q \in Above({p}, Mixins)}
         \subseteq ModelInspect("summary", d.name, None, None).parents
    /\ \A f \in fields : LookupField(d.name, f) # NotFound
    /\ \A e \in {q[2] : q \in written} : \A f \in DOMAIN e.fields :
         LookupField(e.name, f).comodel = d.name =>
           /\ \A n \in models : ValidateRelation(e.name, f, n)
           /\ ValidateDomain(e.name, {<<<<f, g>>, TRUE>> : g \in fields}) = {}
           /\ f # "id" => \A n \in DOMAIN e.methods :
                ({f} \X (fields \ {"id"})) \cap ValidateDepends(e.name, n).broken = {}

\* impact_analysis misses nothing that was indexed after what it depends on: not
\* a view of the model, a method or an override, a patch of a component bound to
\* the model, nor a module that depends on one of the model's layers
\* (_write_view_parse_result, _write_js_graph_result, _impact_analysis).
Before(l, m, k, y) == <<k, y>> \in seen[l][m]
NamesOf(y) == {d.name : d \in Classes(y)}
BlastRadiusIsComplete ==
  \A y \in Written("models") : \A model \in NamesOf(y) :
    LET impact == ImpactAnalysis("model", model, None) IN
    /\ impact.found
    /\ \A m \in Written("views") : \A v \in Views(m) :
         (Before("views", m, "models", y) /\ v.kind = "view" /\ v.model = model) =>
           <<v.xmlid, m>> \in impact.views
    /\ \A p \in Layer(Written("models")) : p[2].name = model =>
         (DOMAIN p[2].methods) \X {p[1]} \subseteq impact.methods
    /\ \A m, z \in Written("js") : \A c \in Comps(m), p \in Patches(z) :
         /\ c.bound = model /\ Before("js", m, "models", y)
         /\ p.target = c.name /\ (z = m \/ Before("js", z, "js", m))
         => [target |-> p.target, name |-> p.name, module |-> z] \in impact.js
    /\ \A m \in Written("models") :
         (y \in SaidIn("models", m).depends /\ Before("models", m, "models", y)) =>
           m \in impact.dependents
    /\ impact.risk = "LOW" =>
         Cardinality(impact.views) + Cardinality(impact.methods) < MediumRisk

\* A view or template that extends one of a module indexed before it is shown
\* below it, and among the extensions of the base, provided that neither of the two
\* was ever extended before it was indexed itself (_write_view_parse_result,
\* _resolve_view, _list_qweb_templates).
BaseViewIsFound ==
  \A m, y \in Written("views") : \A v \in Views(m), b \in Views(y) :
    /\ Before("views", m, "views", y)
    /\ b.kind = v.kind /\ b.xmlid = v.base
    /\ {<<v.kind, v.xmlid>>, <<b.kind, b.xmlid>>} \cap overtaken = {}
    => IF v.kind = "view"
       THEN /\ \E a \in ResolveView(v.xmlid) : a.base = b.xmlid
            /\ \A a \in ResolveView(b.xmlid) : a.module = y /\ v.xmlid \in a.extensions
       ELSE [xmlid |-> v.xmlid, base |-> v.base] \in Rows(ListQwebTemplates(m))

\* find_deprecated_usage reports a use of a deprecated symbol exactly when the
\* sources have one: never one that no source of the module has had, and each one
\* of a module indexed after the spec layer of its version (_write_parse_result,
\* index_core, _find_deprecated_usage).
Deprecated(s) == /\ s \in DOMAIN Table[CodeVersion]
                 /\ Table[CodeVersion][s].status \in {"deprecated", "removed"}
Uses(m) ==
  UNION {UNION {{[name |-> n, model |-> d.name, module |-> m]} \X
                  {s \in Symbols : ShortName(s) \in d.methods[n].refs /\ Deprecated(s)} :
                n \in DOMAIN d.methods} : d \in Classes(m)}
UsageIsExact ==
  /\ \A u \in FindDeprecatedUsage :
       u[1].module \in Written("models") \cap pure["models"] => u \in Uses(u[1].module)
  /\ \A m \in Written("models") :
       Before("models", m, "core", CodeVersion) => Uses(m) \subseteq FindDeprecatedUsage

\* Who follows the pager while a list stays as it is sees as many rows as there
\* are; and for certain sees a row once that the order tells from the others, which
\* is each field, method and patch but those that two modules have left of the same
\* name when both their nodes were collected: such rows may come twice or not at all.
\* Every xmlid of a module is shown, and each field shown, magic or not, is found by
\* the other tools too. For templates only while a module's are those it was first
\* indexed with (_list_fields, _list_methods, _list_views, _list_qweb_templates,
\* _list_js_patches, _resolve_field).
IsOnce(k, shown) == \E i \in DOMAIN shown : {j \in DOMAIN shown : shown[j] = k} = {i}
AllSeen(list, sure) ==
  /\ \A x \in sure : {y \in Rows(list) : list.key[y] = list.key[x]} = {x}
  /\ \A limit \in 1..2 :
       LET shown == Walk(list, limit) IN
       Len(shown) = Cardinality(Rows(list)) /\ \A x \in sure : IsOnce(list.key[x], shown)
Twins(x, y) == /\ x.module # y.module /\ [y EXCEPT !.module = x.module] = x
               /\ graph.mods[x.module] = "absent" /\ graph.mods[y.module] = "absent"
Sure(rows)  == {x \in rows : \A y \in rows : ~Twins(x, y)}
IdsShown(list) == {x.xmlid : x \in {x \in Rows(list) : list.key[x] \in ToSet(Walk(list, 1))}}
PagesAreComplete ==
  /\ \A model \in UNION {NamesOf(m) : m \in Written("models")} :
       /\ AllSeen(ModelInspect("fields", model, None, None), Sure(FieldsOf(model)))
       /\ AllSeen(ModelInspect("methods", model, None, None), Sure(MethodsOf(model)))
       /\ \A f \in {x.name : x \in FieldsOf(model)} \cup MagicPrelude(model, None, None, 0) :
            ResolveField(model, f, None).found /\ LookupField(model, f) # NotFound
  /\ \A m \in Written("views") \cap pure["views"] :
       /\ IdsShown(ModuleInspect("views", m))
            = {v.xmlid : v \in {v \in Views(m) : v.kind = "view"}}
       /\ IdsShown(ModuleInspect("qweb", m))
            = {v.xmlid : v \in {v \in Views(m) : v.kind = "template"}}
  /\ AllSeen(ListJsPatches(None, None), Sure(graph.patches))

-----------------------------------------------------------------------------
(* What theorems assume of the sources and of what the parsers make of them.  *)

\* The parsers make of each source what it says.
ReadAsWritten ==
  \A m \in Modules : \A s \in Contents[m] :
    LET r == Results[m][s]
        t == Sources[m][s]
    IN  /\ r.depends = t.depends
        /\ ToSet(r.models) = t.classes
        /\ ToSet(r.views) = t.views
        /\ {[name |-> c.name, bound |-> c.bound] : c \in ToSet(r.comps)} = t.comps
        /\ ToSet(r.patches) = t.patches

\* The parsers list each stylesheet with what it imports, and after it.
Lists(l, T) ==
  /\ \A x \in T : \E i \in DOMAIN l : l[i].path = x.path
  /\ \A x, y \in T : y.path \in x.imports =>
       \E i, j \in DOMAIN l : /\ j <= i /\ l[i].path = x.path /\ l[j].path = y.path
                              /\ y.path \in l[i].imports
SheetsAsWritten ==
  \A m \in Modules : \A s \in Contents[m] : Lists(Results[m][s].sheets, Sources[m][s].sheets)

\* No module has an external id of another one.
OwnIds ==
  \A m, y \in Modules : \A s \in Contents[m], t \in Contents[y] :
    \A v \in Sources[m][s].views, b \in Sources[y][t].views :
      v.xmlid # None /\ (m # y => <<v.kind, v.xmlid>> # <<b.kind, b.xmlid>>)

\* No template stands in a module twice with different bases: the pager's total
\* counts the template once, its rows are two.
OneBase ==
  \A m \in Modules : \A s \in Contents[m] : \A v, b \in Sources[m][s].views :
    (v.kind = "template" /\ b.kind = "template" /\ v.xmlid = b.xmlid) => v.base = b.base

\* The parsers make of the files of the modules and of the framework what these
\* say, without two entries of one name: a call of a deprecated symbol in a file
\* that defines the name, a stylesheet after what it imports, a curated symbol that
\* is defined too (parser_python, parser_xml, parser_scss, parse_odoo_core,
\* parse_lint_rules_for_version, parse_cli_flags).
SourcesAreFit ==
  /\ Unambiguous /\ NotEmpty /\ Qualified /\ \A v \in CoreVersions : Parsed(v)
  /\ ReadAsWritten /\ SheetsAsWritten /\ OwnIds /\ OneBase
=============================================================================
