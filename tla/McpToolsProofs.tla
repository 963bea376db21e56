----------------------------- MODULE McpToolsProofs -----------------------------
(***************************************************************************)
(* Theorems about the tools of the MCP server, for every value of the      *)
(* constants: what they answer from the graph, whatever is written,        *)
(* collected or deleted in between, is what the sources say.               *)
(***************************************************************************)
EXTENDS GraphWriterProofs

-----------------------------------------------------------------------------
(* The blast radius                                                        *)

TargetsOf(n)    == {e \in graph.targets : e[2] \in ModelsNamed(graph, n)}
ViewsHit(n)     == {<<e[1].xmlid, graph.views[e[1]].module>> : e \in TargetsOf(n)}
MethodsHit(n)   == {<<x.name, x.module>> : x \in MethodsOf(n)}
CompsHit(n)     == {e[1] : e \in {e \in graph.bound : e[2] \in ModelsNamed(graph, n)}}
PatchesHit(n)   == {e[1] : e \in {e \in graph.patchEdges : e[2] \in CompsHit(n)}}
HomesHit(n)     == {x.module : x \in {x \in ModelsNamed(graph, n) : <<"Model", x>> \in graph.definedIn}}
DependentsHit(n) == {e[1] : e \in {e \in graph.depends : e[2] \in HomesHit(n)}}
RiskOf(n) == ComputeRisk(Cardinality(ViewsHit(n)) + Cardinality(MethodsHit(n)) + Cardinality(PatchesHit(n)))

LEMMA ImpactIs ==
  ASSUME NEW n, ResolvedModels(graph, n) # {}, NEW i, i = ImpactAnalysis("model", n, None)
  PROVE  /\ i.found /\ i.views = ViewsHit(n) /\ i.methods = MethodsHit(n) /\ i.js = PatchesHit(n)
         /\ i.dependents = DependentsHit(n) /\ i.risk = RiskOf(n)
<1>1. MayBreak("model", n, None) = MethodsOf(n)
  BY DEF MayBreak
<1>2. i = [found |-> TRUE, views |-> ViewsHit(n), methods |-> MethodsHit(n), js |-> PatchesHit(n),
           dependents |-> DependentsHit(n), risk |-> RiskOf(n)]
  BY <1>1 DEF ImpactAnalysis, ViewsHit, TargetsOf, MethodsHit, PatchesHit, CompsHit, DependentsHit,
      HomesHit, RiskOf
<1>3. QED
  BY <1>2

LEMMA BeforeIs ==
  ASSUME NEW l, NEW m, NEW k \in Graphic, NEW y \in Modules, Before(l, m, k, y)
  PROVE  \E e \in Placed(l, m) : e[1] = k /\ e[2] = y /\ e[3] = last[k][y]
<1>1. PICK p : p = <<k, y>>
  OBVIOUS
<1>2. p \in seen[l][m] \cap (Graphic \X Modules) /\ p[1] = k /\ p[2] = y
  BY <1>1 DEF Before
<1>3. <<p[1], p[2], last[p[1]][p[2]]>> \in Placed(l, m)
  BY <1>2 DEF Placed
<1>4. PICK e : e = <<k, y, last[k][y]>>
  OBVIOUS
<1>5. e \in Placed(l, m) /\ e[1] = k /\ e[2] = y /\ e[3] = last[k][y]
  BY <1>2, <1>3, <1>4
<1>6. QED
  BY <1>5

\* The node of a class that was written.
LEMMA ClassIsThere ==
  ASSUME WrittenOK, NEW m \in Written("models"), NEW d \in Classes(m)
  PROVE  /\ m \in Modules /\ graph.mods[m] = "indexed"
         /\ ClassAt(graph, m, d, Placed("models", m))
         /\ ModelId(m, d) \in ResolvedModels(graph, d.name)
         /\ ModelId(m, d) \in ModelsNamed(graph, d.name)
         /\ <<"Model", ModelId(m, d)>> \in graph.definedIn
<1>1. m \in Modules /\ last["models"][m] # None /\ d \in Sources[m][last["models"][m]].classes
  BY DEF Written, Classes, SaidIn
<1>2. ModelsAt(graph, m, last["models"][m], Placed("models", m))
  BY <1>1 DEF WrittenOK, Whereabouts, ModelsIn
<1>3. graph.mods[m] = "indexed" /\ ClassAt(graph, m, d, Placed("models", m))
  BY <1>1, <1>2 DEF ModelsAt
<1>4. ModelId(m, d).name = d.name
  BY DEF ModelId
<1>5. QED
  BY <1>1, <1>3, <1>4 DEF ClassAt, ResolvedModels, ModelsNamed

LEMMA ViewsAreHit ==
  ASSUME WrittenOK, NEW y \in Written("models"), NEW d \in Classes(y),
         NEW m \in Written("views"), NEW v \in Views(m), Before("views", m, "models", y),
         v.model = d.name
  PROVE  <<v.xmlid, m>> \in ViewsHit(d.name)
<1>1. /\ m \in Modules /\ last["views"][m] # None /\ v \in Sources[m][last["views"][m]].views
      /\ y \in Modules /\ d \in Sources[y][last["models"][y]].classes
  BY DEF Written, Views, Classes, SaidIn
<1>2. ViewAt(graph, m, v, Placed("views", m), overtaken)
  BY <1>1 DEF WrittenOK, Whereabouts, ViewsIn, ViewsAt
<1>3. PICK e \in Placed("views", m) : e[1] = "models" /\ e[2] = y /\ e[3] = last["models"][y]
  BY <1>1, BeforeIs DEF Graphic
<1>4. PICK x \in DOMAIN graph.views :
        Key(x) = Key(v) /\ Mine(graph, m, x) /\ <<x, ModelId(y, d)>> \in graph.targets
  BY <1>1, <1>2, <1>3 DEF ViewAt
<1>5. PICK t : t = <<x, ModelId(y, d)>>
  OBVIOUS
<1>6. t[1] = x /\ t[2] = ModelId(y, d)
  BY <1>5
<1>7. t \in TargetsOf(d.name)
  BY <1>4, <1>5, <1>6, ClassIsThere DEF TargetsOf
<1>8. <<x.xmlid, graph.views[x].module>> \in ViewsHit(d.name)
  BY <1>6, <1>7 DEF ViewsHit
<1>9. x.xmlid = v.xmlid /\ graph.views[x].module = m
  BY <1>4 DEF Key, Mine
<1>10. QED
  BY <1>8, <1>9

LEMMA MethodsAreHit ==
  ASSUME WrittenOK, NEW m \in Written("models"), NEW d \in Classes(m), NEW n \in DOMAIN d.methods
  PROVE  <<n, m>> \in MethodsHit(d.name)
<1>1. Member(m, d, n) \in DOMAIN graph.methods
  BY ClassIsThere DEF ClassAt
<1>2. Member(m, d, n).name = n /\ Member(m, d, n).model = d.name /\ Member(m, d, n).module = m
  BY DEF Member
<1>3. Member(m, d, n) \in MethodsOf(d.name)
  BY <1>1, <1>2 DEF MethodsOf
<1>4. <<Member(m, d, n).name, Member(m, d, n).module>> \in MethodsHit(d.name)
  BY <1>3 DEF MethodsHit
<1>5. QED
  BY <1>2, <1>4

LEMMA PatchesAreHit ==
  ASSUME WrittenOK, NEW y \in Written("models"), NEW d \in Classes(y),
         NEW m \in Written("js"), NEW c \in Comps(m), NEW z \in Written("js"), NEW p \in Patches(z),
         c.bound = d.name, Before("js", m, "models", y),
         p.target = c.name, z = m \/ Before("js", z, "js", m)
  PROVE  PatchId(z, p) \in PatchesHit(d.name)
<1>1. /\ m \in Modules /\ z \in Modules /\ y \in Modules
      /\ last["js"][m] # None /\ last["js"][z] # None
      /\ c \in Sources[m][last["js"][m]].comps /\ p \in Sources[z][last["js"][z]].patches
      /\ d \in Sources[y][last["models"][y]].classes
  BY DEF Written, Comps, Patches, Classes, SaidIn
<1>2. /\ JsAt(graph, m, last["js"][m], Placed("js", m))
      /\ JsAt(graph, z, last["js"][z], Placed("js", z))
  BY <1>1 DEF WrittenOK, Whereabouts, JsIn
<1>3. CompAt(graph, m, c, Placed("js", m)) /\ PatchAt(graph, z, last["js"][z], p, Placed("js", z))
  BY <1>1, <1>2 DEF JsAt
<1>4. PICK e \in Placed("js", m) : e[1] = "models" /\ e[2] = y /\ e[3] = last["models"][y]
  BY <1>1, BeforeIs DEF Graphic
<1>5. <<CompId(m, c), ModelId(y, d)>> \in graph.bound
  BY <1>1, <1>3, <1>4 DEF CompAt
<1>6. <<PatchId(z, p), CompId(m, c)>> \in graph.patchEdges
  <2>1. CASE z = m
    BY <1>1, <1>3, <2>1 DEF PatchAt
  <2>2. CASE Before("js", z, "js", m)
    <3>1. PICK f \in Placed("js", z) : f[1] = "js" /\ f[2] = m /\ f[3] = last["js"][m]
      BY <1>1, <2>2, BeforeIs DEF Graphic
    <3>2. QED
      BY <1>1, <1>3, <3>1 DEF PatchAt
  <2>3. QED
    BY <2>1, <2>2
<1>7. PICK t : t = <<CompId(m, c), ModelId(y, d)>>
  OBVIOUS
<1>8. t \in graph.bound /\ t[2] \in ModelsNamed(graph, d.name) /\ t[1] = CompId(m, c)
  BY <1>5, <1>7, ClassIsThere
<1>9. CompId(m, c) \in CompsHit(d.name)
  BY <1>8 DEF CompsHit
<1>10. PICK u : u = <<PatchId(z, p), CompId(m, c)>>
  OBVIOUS
<1>11. u \in graph.patchEdges /\ u[2] \in CompsHit(d.name) /\ u[1] = PatchId(z, p)
  BY <1>6, <1>9, <1>10
<1>12. QED
  BY <1>11 DEF PatchesHit

LEMMA DependentsAreHit ==
  ASSUME WrittenOK, NEW y \in Written("models"), NEW d \in Classes(y),
         NEW m \in Written("models"), y \in SaidIn("models", m).depends,
         Before("models", m, "models", y)
  PROVE  m \in DependentsHit(d.name)
<1>1. /\ m \in Modules /\ y \in Modules /\ last["models"][m] # None
      /\ y \in Sources[m][last["models"][m]].depends
  BY DEF Written, SaidIn
<1>2. ModelsAt(graph, m, last["models"][m], Placed("models", m))
  BY <1>1 DEF WrittenOK, Whereabouts, ModelsIn
<1>3. PICK e \in Placed("models", m) : e[1] = "models" /\ e[2] = y
  BY <1>1, BeforeIs DEF Graphic
<1>4. <<m, y>> \in graph.depends
  BY <1>1, <1>2, <1>3 DEF ModelsAt
<1>5. ModelId(y, d).module = y
  BY DEF ModelId
<1>6. y \in HomesHit(d.name)
  BY <1>5, ClassIsThere DEF HomesHit
<1>7. PICK t : t = <<m, y>>
  OBVIOUS
<1>8. t \in graph.depends /\ t[2] \in HomesHit(d.name) /\ t[1] = m
  BY <1>4, <1>6, <1>7
<1>9. QED
  BY <1>8 DEF DependentsHit

LEMMA RiskIs ==
  ASSUME NEW a \in Nat, NEW b \in Nat, NEW c \in Nat, ComputeRisk(a + b + c) = "LOW"
  PROVE  a + b < MediumRisk
BY ToolsAssumption DEF ComputeRisk

LEMMA HitsAreFinite ==
  ASSUME GraphOK, DataOK(graph), NEW n
  PROVE  /\ Cardinality(ViewsHit(n)) \in Nat /\ Cardinality(MethodsHit(n)) \in Nat
         /\ Cardinality(PatchesHit(n)) \in Nat
<1>1. IsFiniteSet(ViewsHit(n))
  <2>1. PICK f : f = [x \in DOMAIN graph.views |-> <<x.xmlid, graph.views[x].module>>]
    OBVIOUS
  <2>2. \A e \in TargetsOf(n) : e[1] \in DOMAIN graph.views
    BY DEF TargetsOf, DataOK, ViewsOK
  <2>3. \A t \in ViewsHit(n) : \E x \in DOMAIN graph.views : t = f[x]
    BY <2>1, <2>2 DEF ViewsHit
  <2>4. QED
    BY <2>3, FiniteImage DEF DataOK, ViewsOK, NumbersOK
<1>2. IsFiniteSet(MethodsHit(n))
  <2>1. PICK f : f = [x \in DOMAIN graph.methods |-> <<x.name, x.module>>]
    OBVIOUS
  <2>2. \A t \in MethodsHit(n) : \E x \in DOMAIN graph.methods : t = f[x]
    BY <2>1 DEF MethodsHit, MethodsOf
  <2>3. QED
    BY <2>2, FiniteImage DEF DataOK, MethodsOK
<1>3. IsFiniteSet(PatchesHit(n))
  <2>1. graph.patchEdges \subseteq graph.patches \X (DOMAIN graph.comps)
    BY DEF GraphOK
  <2>2. PatchesHit(n) \subseteq graph.patches
    BY <2>1 DEF PatchesHit
  <2>3. IsFiniteSet(graph.patches)
    BY DEF DataOK, PatchesOK
  <2>4. QED
    BY <2>2, <2>3, FS_Subset
<1>4. QED
  BY <1>1, <1>2, <1>3, FS_CardinalityType

LEMMA BlastRadiusIs ==
  ASSUME GraphOK, WrittenOK, DataOK(graph)
  PROVE  BlastRadiusIsComplete
<1>1. SUFFICES ASSUME NEW y \in Written("models"), NEW model \in NamesOf(y),
                      NEW i, i = ImpactAnalysis("model", model, None)
               PROVE
    /\ i.found
    /\ \A m \in Written("views") : \A v \in Views(m) :
         (Before("views", m, "models", y) /\ v.kind = "view" /\ v.model = model) =>
           <<v.xmlid, m>> \in i.views
    /\ \A p \in Layer(Written("models")) : p[2].name = model =>
         (DOMAIN p[2].methods) \X {p[1]} \subseteq i.methods
    /\ \A m, z \in Written("js") : \A c \in Comps(m), p \in Patches(z) :
         /\ c.bound = model /\ Before("js", m, "models", y)
         /\ p.target = c.name /\ (z = m \/ Before("js", z, "js", m))
         => [target |-> p.target, name |-> p.name, module |-> z] \in i.js
    /\ \A m \in Written("models") :
         (y \in SaidIn("models", m).depends /\ Before("models", m, "models", y)) =>
           m \in i.dependents
    /\ i.risk = "LOW" => Cardinality(i.views) + Cardinality(i.methods) < MediumRisk
  BY DEF BlastRadiusIsComplete
<1>2. PICK d \in Classes(y) : d.name = model
  BY <1>1 DEF NamesOf
<1>3. ModelId(y, d) \in ResolvedModels(graph, model)
  BY <1>2, ClassIsThere
<1>4. /\ i.found /\ i.views = ViewsHit(model) /\ i.methods = MethodsHit(model)
      /\ i.js = PatchesHit(model) /\ i.dependents = DependentsHit(model) /\ i.risk = RiskOf(model)
  BY <1>1, <1>3, ImpactIs
<1>5. ASSUME NEW m \in Written("views"), NEW v \in Views(m),
             Before("views", m, "models", y), v.model = model
      PROVE  <<v.xmlid, m>> \in i.views
  BY <1>2, <1>4, <1>5, ViewsAreHit
<1>6. ASSUME NEW p \in Layer(Written("models")), p[2].name = model
      PROVE  (DOMAIN p[2].methods) \X {p[1]} \subseteq i.methods
  <2>1. PICK S : S = Written("models")
    OBVIOUS
  <2>2. PICK m \in S : p \in {m} \X Classes(m)
    BY <1>6, <2>1 DEF Layer
  <2>3. p[1] = m /\ p[2] \in Classes(m) /\ m \in Written("models")
    BY <2>1, <2>2
  <2>4. \A n \in DOMAIN p[2].methods : <<n, m>> \in MethodsHit(model)
    BY <1>6, <2>3, MethodsAreHit
  <2>5. QED
    BY <1>4, <2>3, <2>4
<1>7. ASSUME NEW m \in Written("js"), NEW z \in Written("js"), NEW c \in Comps(m), NEW p \in Patches(z),
             c.bound = model, Before("js", m, "models", y),
             p.target = c.name, z = m \/ Before("js", z, "js", m)
      PROVE  [target |-> p.target, name |-> p.name, module |-> z] \in i.js
  <2>1. PatchId(z, p) \in PatchesHit(model)
    BY <1>2, <1>7, PatchesAreHit
  <2>2. QED
    BY <1>4, <2>1 DEF PatchId
<1>8. ASSUME NEW m \in Written("models"), y \in SaidIn("models", m).depends,
             Before("models", m, "models", y)
      PROVE  m \in i.dependents
  BY <1>2, <1>4, <1>8, DependentsAreHit
<1>9. i.risk = "LOW" => Cardinality(i.views) + Cardinality(i.methods) < MediumRisk
  <2>1. PICK a, b, c : /\ a = Cardinality(ViewsHit(model)) /\ b = Cardinality(MethodsHit(model))
                       /\ c = Cardinality(PatchesHit(model))
    OBVIOUS
  <2>2. a \in Nat /\ b \in Nat /\ c \in Nat
    BY <2>1, HitsAreFinite
  <2>3. i.risk = ComputeRisk(a + b + c)
    BY <1>4, <2>1 DEF RiskOf
  <2>4. QED
    BY <1>4, <2>1, <2>2, <2>3, RiskIs
<1>10. QED
  BY <1>4, <1>5, <1>6, <1>7, <1>8, <1>9

\* impact_analysis reports every view, method, patch and dependent module that was
\* indexed after what it touches, and no risk lower than they make, whatever was
\* written, killed, collected or deleted in between (_write_view_parse_result,
\* _write_js_graph_result, delete_modules_scoped, _impact_analysis).
THEOREM BlastRadiusIsAlwaysComplete ==
  Unambiguous /\ ReadAsWritten /\ OwnIds /\ Spec => []BlastRadiusIsComplete
<1> SUFFICES ASSUME Unambiguous, ReadAsWritten, OwnIds PROVE Spec => []BlastRadiusIsComplete
  OBVIOUS
<1> DEFINE Inv == SoundInv /\ RunsAreOK /\ GraphOK /\ HistOK /\ WrittenOK /\ DataOK(graph)
<1>1. Init => Inv
  BY SoundInit, GraphOKInit, HistInit, WrittenInit, DataInit
<1>2. Inv /\ [Next]_vars => Inv'
  <2> SUFFICES ASSUME Inv, [Next]_vars PROVE Inv'
    OBVIOUS
  <2>1. GraphMove
    BY MovesAre DEF GraphOK
  <2>2. QED
    BY <2>1, SoundStep, GraphOKStep, HistStep, WrittenStep, DataStep
<1>3. Inv => BlastRadiusIsComplete
  BY BlastRadiusIs
<1>4. QED
  BY <1>1, <1>2, <1>3, PTL DEF Spec

-----------------------------------------------------------------------------
(* Lists in the order of their keys                                        *)

IsKey(s, n) == DOMAIN s = 1 .. n /\ \A i \in 1 .. n : s[i] \in Int
KeyOrder(S, k) == {p \in S \X S : Precedes(k[p[1]], k[p[2]])}

LEMMA PrecedesIrreflexive ==
  ASSUME NEW n \in Nat, NEW s, IsKey(s, n)
  PROVE  ~Precedes(s, s)
BY DEF IsKey, Precedes

LEMMA PrecedesTransitive ==
  ASSUME NEW n \in Nat, NEW s, NEW t, NEW u, IsKey(s, n), IsKey(t, n), IsKey(u, n),
         Precedes(s, t), Precedes(t, u)
  PROVE  Precedes(s, u)
<1>1. PICK i \in 1 .. n : s[i] < t[i] /\ \A j \in 1 .. (i - 1) : s[j] = t[j]
  BY DEF Precedes, IsKey
<1>2. PICK l \in 1 .. n : t[l] < u[l] /\ \A j \in 1 .. (l - 1) : t[j] = u[j]
  BY DEF Precedes, IsKey
<1>3. /\ s[i] \in Int /\ t[i] \in Int /\ u[i] \in Int /\ s[l] \in Int /\ t[l] \in Int /\ u[l] \in Int
      /\ i \in DOMAIN s /\ l \in DOMAIN s
  BY DEF IsKey
<1>4. CASE i < l
  <2>1. t[i] = u[i] /\ \A j \in 1 .. (i - 1) : t[j] = u[j]
    BY <1>2, <1>4
  <2>2. s[i] < u[i] /\ \A j \in 1 .. (i - 1) : s[j] = u[j]
    BY <1>1, <2>1
  <2>3. QED
    BY <1>3, <2>2 DEF Precedes
<1>5. CASE l < i
  <2>1. s[l] = t[l] /\ \A j \in 1 .. (l - 1) : s[j] = t[j]
    BY <1>1, <1>5
  <2>2. s[l] < u[l] /\ \A j \in 1 .. (l - 1) : s[j] = u[j]
    BY <1>2, <2>1
  <2>3. QED
    BY <1>3, <2>2 DEF Precedes
<1>6. CASE i = l
  <2>1. s[i] < u[i] /\ \A j \in 1 .. (i - 1) : s[j] = u[j]
    BY <1>1, <1>2, <1>3, <1>6
  <2>2. QED
    BY <1>3, <2>1 DEF Precedes
<1>7. QED
  BY <1>4, <1>5, <1>6

LEMMA KeysOrder ==
  ASSUME NEW S, NEW k, NEW n \in Nat, \A x \in S : IsKey(k[x], n)
  PROVE  Orders(KeyOrder(S, k), S)
<1>1. \A x, y \in S : <<x, y>> \in KeyOrder(S, k) <=> Precedes(k[x], k[y])
  BY DEF KeyOrder
<1>2. \A x \in S : ~Precedes(k[x], k[x])
  BY PrecedesIrreflexive
<1>3. \A x, y, z \in S : Precedes(k[x], k[y]) /\ Precedes(k[y], k[z]) => Precedes(k[x], k[z])
  BY PrecedesTransitive
<1>4. QED
  BY <1>1, <1>2, <1>3 DEF Orders

LEMMA KeysSort ==
  ASSUME NEW S, IsFiniteSet(S), NEW k, NEW n \in Nat, \A x \in S : IsKey(k[x], n)
  PROVE  Ordered(SortBy(S, KeyOrder(S, k)), S, KeyOrder(S, k))
BY KeysOrder, SortByIs

LEMMA OrderedIs ==
  ASSUME NEW q, NEW S, NEW R, Ordered(q, S, R)
  PROVE  /\ ToSet(q) = S /\ DOMAIN q = 1 .. Len(q) /\ Len(q) \in Nat /\ Len(q) = Cardinality(S)
         /\ \A x \in S : \E i \in DOMAIN q : q[i] = x
<1>1. q \in Seq(S) /\ DOMAIN q = 1 .. Len(q) /\ Len(q) \in Nat /\ Len(q) = Cardinality(S)
  BY LenProperties DEF Ordered
<1>2. \A i \in 1 .. Len(q) : q[i] \in S
  BY <1>1, ElementOfSeq
<1>3. QED
  BY <1>1, <1>2 DEF Ordered, ToSet

LEMMA AlphaIs ==
  ASSUME NEW n \in Names
  PROVE  Alpha(n) \in Nat /\ Alpha(n) \in DOMAIN NameOrder /\ NameOrder[Alpha(n)] = n
<1>1. NameOrder \in Seq(ToSet(NameOrder))
  BY ToolsAssumption
<1>2. DOMAIN NameOrder = 1 .. Len(NameOrder) /\ Len(NameOrder) \in Nat
  BY <1>1, LenProperties
<1>3. \E i \in DOMAIN NameOrder : NameOrder[i] = n
  BY DEF Names, ToSet
<1>4. Alpha(n) \in DOMAIN NameOrder /\ NameOrder[Alpha(n)] = n
  BY <1>3 DEF Alpha
<1>5. QED
  BY <1>2, <1>4

\* The rows of the list are S, each with a key to order it by.
ListsAll(list, S) ==
  /\ IsFiniteSet(S) /\ Rows(list) = S
  /\ \E n \in Nat : \A x \in S : IsKey(list.key[x], n)

-----------------------------------------------------------------------------
(* The base of a view                                                         *)

TemplatesOf(m) == {x \in DOMAIN graph.views : x.kind = "template" /\ graph.views[x].module = m}
BasesOf(x) == {e[2].xmlid : e \in {e \in graph.extends : e[1] = x /\ ~graph.views[e[2]].unresolved}}
BasesShown(x) == IF BasesOf(x) = {} THEN {None} ELSE BasesOf(x)
TemplateRow(x, b) == [xmlid |-> x.xmlid, base |-> b]
RowsOf(x) == {TemplateRow(x, b) : b \in BasesShown(x)}
TemplateRows(m) == UNION {RowsOf(x) : x \in TemplatesOf(m)}

LEMMA TemplatesAre ==
  ASSUME NEW m
  PROVE  /\ ListQwebTemplates(m).key = [r \in TemplateRows(m) |-> <<Alpha(r.xmlid)>>]
         /\ ListQwebTemplates(m).total = Cardinality(TemplatesOf(m))
<1>1. PICK S : S = TemplateRows(m)
  OBVIOUS
<1>2. S = UNION {{[xmlid |-> x.xmlid, base |-> b] : b \in BasesShown(x)} : x \in TemplatesOf(m)}
  BY <1>1 DEF TemplateRows, RowsOf, TemplateRow
<1>3. /\ ListQwebTemplates(m).key = [r \in S |-> <<Alpha(r.xmlid)>>]
      /\ ListQwebTemplates(m).total = Cardinality(TemplatesOf(m))
  BY <1>2 DEF ListQwebTemplates, TemplatesOf, BasesShown, BasesOf
<1>4. QED
  BY <1>1, <1>3

LEMMA TemplateRowsAre ==
  ASSUME GraphOK, DataOK(graph), NEW m
  PROVE  IsFiniteSet(TemplateRows(m)) /\ \A r \in TemplateRows(m) : r.xmlid \in Names
<1>1. IsFiniteSet(DOMAIN graph.views) /\ \A x \in DOMAIN graph.views : x.xmlid \in Names
  BY DEF DataOK, ViewsOK, NumbersOK
<1>2. ASSUME NEW x \in TemplatesOf(m) PROVE IsFiniteSet(RowsOf(x))
  <2>1. PICK f : f = [z \in DOMAIN graph.views |-> z.xmlid]
    OBVIOUS
  <2>2. graph.extends \subseteq (DOMAIN graph.views) \X (DOMAIN graph.views)
    BY DEF GraphOK
  <2>3. \A e \in graph.extends : e[2] \in DOMAIN graph.views
    BY <2>2
  <2>4. \A t \in BasesOf(x) : \E z \in DOMAIN graph.views : t = f[z]
    BY <2>1, <2>3 DEF BasesOf
  <2>5. IsFiniteSet(BasesOf(x))
    BY <1>1, <2>4, FiniteImage
  <2>6. IsFiniteSet(BasesShown(x))
    BY <2>5, FS_Singleton DEF BasesShown
  <2>7. PICK h : h = [b \in BasesShown(x) |-> TemplateRow(x, b)]
    OBVIOUS
  <2>8. \A t \in RowsOf(x) : \E b \in BasesShown(x) : t = h[b]
    BY <2>7 DEF RowsOf
  <2>9. QED
    BY <2>6, <2>8, FiniteImage
<1>3. PICK F : F = {RowsOf(x) : x \in TemplatesOf(m)}
  OBVIOUS
<1>4. IsFiniteSet(TemplatesOf(m))
  BY <1>1, FS_Subset DEF TemplatesOf
<1>5. IsFiniteSet(F)
  <2>1. PICK f : f = [x \in TemplatesOf(m) |-> RowsOf(x)]
    OBVIOUS
  <2>2. \A t \in F : \E x \in TemplatesOf(m) : t = f[x]
    BY <1>3, <2>1
  <2>3. QED
    BY <1>4, <2>2, FiniteImage
<1>6. IsFiniteSet(UNION F)
  BY <1>2, <1>3, <1>5, FS_UNION
<1>7. TemplateRows(m) = UNION F
  BY <1>3 DEF TemplateRows
<1>8. ASSUME NEW r \in TemplateRows(m) PROVE r.xmlid \in Names
  <2>1. PICK x \in TemplatesOf(m) : r \in RowsOf(x)
    BY <1>8 DEF TemplateRows
  <2>2. r.xmlid = x.xmlid
    BY <2>1 DEF RowsOf, TemplateRow
  <2>3. QED
    BY <1>1, <2>1, <2>2 DEF TemplatesOf
<1>9. QED
  BY <1>6, <1>7, <1>8

LEMMA TemplatesListed ==
  ASSUME GraphOK, DataOK(graph), NEW m
  PROVE  ListsAll(ListQwebTemplates(m), TemplateRows(m))
<1>1. PICK k : k = ListQwebTemplates(m).key
  OBVIOUS
<1>2. k = [r \in TemplateRows(m) |-> <<Alpha(r.xmlid)>>]
  BY <1>1, TemplatesAre
<1>3. ASSUME NEW r \in TemplateRows(m) PROVE IsKey(k[r], 1)
  <2>1. k[r] = <<Alpha(r.xmlid)>> /\ Alpha(r.xmlid) \in Nat
    BY <1>2, AlphaIs, TemplateRowsAre
  <2>2. QED
    BY <2>1 DEF IsKey
<1>4. DOMAIN k = TemplateRows(m)
  BY <1>2
<1>5. QED
  BY <1>1, <1>3, <1>4, TemplateRowsAre DEF ListsAll, Rows

\* The node x of v is m's, and extends the node z of b.
IsBased(m, v, b, x, z) ==
  /\ <<x, z>> \in graph.extends /\ Key(x) = Key(v) /\ Key(z) = Key(b)
  /\ Mine(graph, m, x) /\ ~graph.views[x].unresolved /\ ~graph.views[z].unresolved

LEMMA BasedOn ==
  ASSUME GraphOK, WrittenOK,
         NEW m \in Written("views"), NEW y \in Written("views"), NEW v \in Views(m), NEW b \in Views(y),
         Before("views", m, "views", y), Key(b) = BaseKey(v),
         Key(v) \notin overtaken, Key(b) \notin overtaken
  PROVE  \E x, z \in DOMAIN graph.views : IsBased(m, v, b, x, z)
<1>1. /\ m \in Modules /\ y \in Modules /\ last["views"][m] # None
      /\ v \in Sources[m][last["views"][m]].views /\ b \in Sources[y][last["views"][y]].views
  BY DEF Written, Views, SaidIn
<1>2. ViewAt(graph, m, v, Placed("views", m), overtaken)
  BY <1>1 DEF WrittenOK, Whereabouts, ViewsIn, ViewsAt
<1>3. PICK e \in Placed("views", m) : e[1] = "views" /\ e[2] = y /\ e[3] = last["views"][y]
  BY <1>1, BeforeIs DEF Graphic
<1>5. PICK x \in DOMAIN graph.views :
        Key(x) = Key(v) /\ Mine(graph, m, x) /\ \E z : <<x, z>> \in graph.extends /\ Key(z) = Key(b)
  BY <1>1, <1>2, <1>3 DEF ViewAt
<1>6. PICK z : <<x, z>> \in graph.extends /\ Key(z) = Key(b)
  BY <1>5
<1>7. z \in DOMAIN graph.views
  BY <1>6 DEF GraphOK
<1>8. ~graph.views[x].unresolved /\ ~graph.views[z].unresolved
  BY <1>5, <1>6, <1>7 DEF WrittenOK, StubsLate
<1>9. QED
  BY <1>5, <1>6, <1>7, <1>8 DEF IsBased

ViewBases(xmlid) == {e[2].xmlid : e \in {e \in graph.extends : e[1] \in ViewNodes(graph, "view", xmlid)
                                           /\ ~graph.views[e[2]].unresolved}}
ViewExtensions(xmlid) == {e[1].xmlid : e \in {e \in graph.extends :
                            e[2] \in ViewNodes(graph, "view", xmlid) /\ ~graph.views[e[1]].unresolved}}
ViewAnswer(x, b, xmlid) ==
  [module |-> IF <<"View", x>> \in graph.definedIn THEN graph.views[x].module ELSE None,
   model |-> graph.views[x].model, base |-> b, extensions |-> ViewExtensions(xmlid)]

LEMMA KindsAre ==
  ASSUME NEW m \in Modules, NEW s \in Contents[m], NEW v \in Sources[m][s].views
  PROVE  v.kind \in {"view", "template"}
<1>1. v \in Said(m, s).views
  BY DEF Sources
<1>2. PICK f : v \in {[kind |-> "view", xmlid |-> XmlId[m][r.id], model |-> r.of, base |-> r.ref] :
                         r \in {r \in ToSet(f.records) : r.model = "ir.ui.view"}}
                      \cup {[kind |-> "template", xmlid |-> XmlId[m][t.id], model |-> None,
                             base |-> t.ref] : t \in ToSet(f.templates)}
  BY <1>1 DEF Said
<1>3. QED
  BY <1>2

LEMMA ResolveViewIs ==
  ASSUME NEW xmlid
  PROVE  ResolveView(xmlid) =
           {ViewAnswer(x, b, xmlid) : x \in ViewNodes(graph, "view", xmlid),
                                      b \in IF ViewBases(xmlid) = {} THEN {None} ELSE ViewBases(xmlid)}
BY DEF ResolveView, ViewAnswer, ViewExtensions, ViewBases

LEMMA BaseViewIs ==
  ASSUME HistOK, GraphOK, WrittenOK, DataOK(graph)
  PROVE  BaseViewIsFound
<1>1. SUFFICES ASSUME NEW m \in Written("views"), NEW y \in Written("views"),
                      NEW v \in Views(m), NEW b \in Views(y), Before("views", m, "views", y),
                      b.kind = v.kind, b.xmlid = v.base,
                      {<<v.kind, v.xmlid>>, <<b.kind, b.xmlid>>} \cap overtaken = {}
               PROVE  IF v.kind = "view"
                      THEN /\ \E a \in ResolveView(v.xmlid) : a.base = b.xmlid
                           /\ \A a \in ResolveView(b.xmlid) :
                                a.module = y /\ v.xmlid \in a.extensions
                      ELSE [xmlid |-> v.xmlid, base |-> v.base] \in Rows(ListQwebTemplates(m))
  BY DEF BaseViewIsFound
<1>9. Key(b) = BaseKey(v) /\ Key(v) \notin overtaken /\ Key(b) \notin overtaken
  BY <1>1 DEF Key, BaseKey
<1>10. \E x, z \in DOMAIN graph.views : IsBased(m, v, b, x, z)
  BY <1>1, <1>9, BasedOn
<1>2. PICK x, z \in DOMAIN graph.views :
        /\ <<x, z>> \in graph.extends /\ Key(x) = Key(v) /\ Key(z) = Key(b)
        /\ Mine(graph, m, x) /\ ~graph.views[x].unresolved /\ ~graph.views[z].unresolved
  BY <1>10 DEF IsBased
<1>3. x.kind = v.kind /\ x.xmlid = v.xmlid /\ z.kind = v.kind /\ z.xmlid = b.xmlid
  BY <1>1, <1>2 DEF Key
<1>4. PICK t : t = <<x, z>>
  OBVIOUS
<1>5. t \in graph.extends /\ t[1] = x /\ t[2] = z
  BY <1>2, <1>4
<1>6. CASE v.kind = "view"
  <2>1. x \in ViewNodes(graph, "view", v.xmlid) /\ z \in ViewNodes(graph, "view", b.xmlid)
    BY <1>2, <1>3, <1>6 DEF ViewNodes
  <2>2. b.xmlid \in ViewBases(v.xmlid)
    BY <1>2, <1>3, <1>5, <2>1 DEF ViewBases
  <2>3. ViewAnswer(x, b.xmlid, v.xmlid) \in ResolveView(v.xmlid)
    BY <2>1, <2>2, ResolveViewIs
  <2>4. ViewAnswer(x, b.xmlid, v.xmlid).base = b.xmlid
    BY DEF ViewAnswer
  <2>5. v.xmlid \in ViewExtensions(b.xmlid)
    BY <1>2, <1>3, <1>5, <2>1 DEF ViewExtensions
  <2>6. ASSUME NEW a \in ResolveView(b.xmlid)
        PROVE  a.module = y /\ v.xmlid \in a.extensions
    <3>2. PICK u, c : u \in ViewNodes(graph, "view", b.xmlid) /\ a = ViewAnswer(u, c, b.xmlid)
      BY <2>6, ResolveViewIs
    <3>3. Key(u) = Key(b) /\ u \in DOMAIN graph.views
      BY <1>1, <1>6, <3>2 DEF ViewNodes, Key
    <3>4. /\ y \in Modules /\ last["views"][y] # None /\ b \in Sources[y][last["views"][y]].views
      BY DEF Written, Views, SaidIn
    <3>5. ViewAt(graph, y, b, Placed("views", y), overtaken)
      BY <3>4 DEF WrittenOK, Whereabouts, ViewsIn, ViewsAt
    <3>6. ~graph.views[u].unresolved
      BY <1>1, <3>3 DEF WrittenOK, StubsLate, Key
    <3>7. Mine(graph, y, u)
      BY <3>3, <3>5, <3>6 DEF ViewAt
    <3>8. QED
      BY <2>5, <3>2, <3>7 DEF Mine, ViewAnswer
  <2>7. QED
    BY <1>6, <2>3, <2>4, <2>6
<1>7. CASE v.kind # "view"
  <2>1. v.kind = "template"
    <3>1. m \in Modules /\ last["views"][m] # None /\ v \in Sources[m][last["views"][m]].views
      BY DEF Written, Views, SaidIn
    <3>2. last["views"][m] \in Contents[m]
      BY <3>1 DEF HistOK, Layers
    <3>3. QED
      BY <1>7, <3>1, <3>2, KindsAre
  <2>2. x \in TemplatesOf(m)
    BY <1>2, <1>3, <2>1 DEF TemplatesOf, Mine
  <2>3. b.xmlid \in BasesOf(x)
    BY <1>2, <1>3, <1>5 DEF BasesOf
  <2>4. b.xmlid \in BasesShown(x)
    BY <2>3 DEF BasesShown
  <2>5. TemplateRow(x, b.xmlid) \in TemplateRows(m)
    BY <2>2, <2>4 DEF TemplateRows, RowsOf
  <2>6. TemplateRow(x, b.xmlid) = [xmlid |-> v.xmlid, base |-> v.base]
    BY <1>1, <1>3 DEF TemplateRow
  <2>7. Rows(ListQwebTemplates(m)) = TemplateRows(m)
    BY TemplatesListed DEF ListsAll
  <2>8. QED
    BY <1>7, <2>5, <2>6, <2>7
<1>8. QED
  BY <1>6, <1>7

\* A view indexed after its base is shown below it, and among its extensions, of
\* the module that was written; a template is listed with its base.  Unless one
\* of the two was extended before it was written, and its placeholder may have
\* stayed (_write_view_parse_result, _resolve_view, _list_qweb_templates).
THEOREM BaseViewIsAlwaysFound ==
  Unambiguous /\ ReadAsWritten /\ OwnIds /\ Spec => []BaseViewIsFound
<1> SUFFICES ASSUME Unambiguous, ReadAsWritten, OwnIds PROVE Spec => []BaseViewIsFound
  OBVIOUS
<1> DEFINE Inv == SoundInv /\ RunsAreOK /\ GraphOK /\ HistOK /\ WrittenOK /\ DataOK(graph)
<1>1. Init => Inv
  BY SoundInit, GraphOKInit, HistInit, WrittenInit, DataInit
<1>2. Inv /\ [Next]_vars => Inv'
  <2> SUFFICES ASSUME Inv, [Next]_vars PROVE Inv'
    OBVIOUS
  <2>1. GraphMove
    BY MovesAre DEF GraphOK
  <2>2. QED
    BY <2>1, SoundStep, GraphOKStep, HistStep, WrittenStep, DataStep
<1>3. Inv => BaseViewIsFound
  BY BaseViewIs
<1>4. QED
  BY <1>1, <1>2, <1>3, PTL DEF Spec

-----------------------------------------------------------------------------
(* The lists of the tools                                                  *)

\* Keys that begin with the rank of a module.
LEMMA RankIs ==
  ASSUME GraphOK, NEW m \in Modules
  PROVE  ModuleRank(m) \in Seq(Int) /\ Len(ModuleRank(m)) = 3
<1>1. graph.mods[m] \in {"absent", "stub", "indexed"}
  BY DEF GraphOK, ModsOK
<1>2. Edition[m] \in Int /\ ElseRank \in Int /\ m \in Int
  BY GraphAssumption, ToolsAssumption
<1>3. \E a, b, c \in Int : ModuleRank(m) = <<a, b, c>>
  BY <1>1, <1>2 DEF ModuleRank
<1>4. QED
  BY <1>3

LEMMA KeyOf ==
  ASSUME NEW s \in Seq(Int), NEW t \in Seq(Int), NEW n \in Nat, n = Len(s) + Len(t)
  PROVE  IsKey(s \o t, n)
<1>1. s \o t \in Seq(Int) /\ Len(s \o t) = n
  BY ConcatProperties
<1>2. DOMAIN (s \o t) = 1 .. n /\ \A i \in 1 .. n : (s \o t)[i] \in Int
  BY <1>1, LenProperties, ElementOfSeq
<1>3. QED
  BY <1>2 DEF IsKey

LEMMA RankedKey ==
  ASSUME GraphOK, NEW m \in Modules, NEW s \in Seq(Int)
  PROVE  /\ IsKey(ModuleRank(m) \o s, 3 + Len(s))
         /\ Len(s) = 3 => IsKey(s \o ModuleRank(m), 6)
<1>1. PICK t \in Seq(Int) : t = ModuleRank(m) /\ Len(t) = 3
  BY RankIs
<1>2. Len(s) \in Nat /\ 3 + Len(s) \in Nat
  BY LenProperties
<1>3. IsKey(t \o s, 3 + Len(s))
  BY <1>1, <1>2, KeyOf
<1>4. ASSUME Len(s) = 3 PROVE IsKey(s \o t, 6)
  <2>1. 6 = Len(s) + Len(t)
    BY <1>1, <1>4
  <2>2. QED
    BY <1>1, <2>1, KeyOf
<1>5. QED
  BY <1>1, <1>3, <1>4

\* The layers of a model, in their order.
HomesOf(nodes) == {x.module : x \in nodes}

LEMMA LayerKeyIs ==
  ASSUME GraphOK, DataOK(graph), NEW model, NEW m \in Modules
  PROVE  IsKey(LayerRank(model, m), 6)
<1>1. IsFiniteSet({x \in FieldsOf(model) : x.module = m})
  BY FS_Subset DEF DataOK, FieldsOK, FieldsOf
<1>2. IsFiniteSet({e \in graph.depends : e[2] = m})
  <2>1. IsFiniteSet(Modules \X Modules)
    BY GraphAssumption, FS_Product
  <2>2. {e \in graph.depends : e[2] = m} \subseteq Modules \X Modules
    BY DEF DataOK, HomesOK
  <2>3. QED
    BY <2>1, <2>2, FS_Subset
<1>3. \E a, b, c \in Int : LayerRank(model, m) = <<a, b, c>> \o ModuleRank(m)
  <2>1. /\ Cardinality({x \in FieldsOf(model) : x.module = m}) \in Nat
        /\ Cardinality({e \in graph.depends : e[2] = m}) \in Nat
    BY <1>1, <1>2, FS_CardinalityType
  <2>2. \A n \in Nat : -n \in Int
    OBVIOUS
  <2>3. /\ -Cardinality({x \in FieldsOf(model) : x.module = m}) \in Int
        /\ -Cardinality({e \in graph.depends : e[2] = m}) \in Int
    BY <2>1, <2>2
  <2>4. PICK a \in Int : a = IF [name |-> model, module |-> m] \in DOMAIN graph.models
                                  /\ graph.models[[name |-> model, module |-> m]].def THEN 0 ELSE 1
    OBVIOUS
  <2>5. LayerRank(model, m) = <<a, -Cardinality({x \in FieldsOf(model) : x.module = m}),
                                  -Cardinality({e \in graph.depends : e[2] = m})>> \o ModuleRank(m)
    BY <2>4 DEF LayerRank
  <2>6. QED
    BY <2>3, <2>5
<1>4. PICK a, b, c \in Int : LayerRank(model, m) = <<a, b, c>> \o ModuleRank(m)
  BY <1>3
<1>5. <<a, b, c>> \in Seq(Int) /\ Len(<<a, b, c>>) = 3
  BY <1>4
<1>6. QED
  BY <1>4, <1>5, RankedKey

LEMMA LayersListed ==
  ASSUME GraphOK, DataOK(graph), NEW model, NEW nodes,
         \A x \in nodes : x.module \in Modules, NEW q, q = Layered(model, nodes)
  PROVE  /\ ToSet(q) = HomesOf(nodes) /\ DOMAIN q = 1 .. Len(q) /\ Len(q) \in Nat
         /\ q \in Seq(HomesOf(nodes)) /\ (nodes # {} => q # <<>>)
<1>1. PICK S : S = HomesOf(nodes)
  OBVIOUS
<1>2. IsFiniteSet(S)
  <2>1. S \subseteq Modules
    BY <1>1 DEF HomesOf
  <2>2. QED
    BY <2>1, GraphAssumption, FS_Subset
<1>3. PICK k : k = [m \in S |-> LayerRank(model, m)]
  OBVIOUS
<1>4. \A m \in S : IsKey(k[m], 6)
  BY <1>1, <1>3, LayerKeyIs DEF HomesOf
<1>5. q = SortBy(S, KeyOrder(S, k))
  <2>1. KeyOrder(S, k) = {p \in S \X S : Precedes(LayerRank(model, p[1]), LayerRank(model, p[2]))}
    BY <1>3 DEF KeyOrder
  <2>2. q = SortBy(S, {p \in S \X S : Precedes(LayerRank(model, p[1]), LayerRank(model, p[2]))})
    BY <1>1 DEF Layered, InOrder, HomesOf
  <2>3. QED
    BY <2>1, <2>2
<1>6. Ordered(q, S, KeyOrder(S, k))
  BY <1>2, <1>4, <1>5, KeysSort
<1>7. ToSet(q) = S /\ DOMAIN q = 1 .. Len(q) /\ Len(q) \in Nat /\ \A x \in S : \E i \in DOMAIN q : q[i] = x
  BY <1>6, OrderedIs
<1>8. q \in Seq(S)
  BY <1>6 DEF Ordered
<1>9. ASSUME nodes # {} PROVE q # <<>>
  <2>1. PICK x \in nodes : TRUE
    BY <1>9
  <2>2. x.module \in S
    BY <1>1 DEF HomesOf
  <2>3. DOMAIN q # {}
    BY <1>7, <2>2
  <2>4. QED
    BY <2>3
<1>10. QED
  BY <1>1, <1>7, <1>8, <1>9

\* The keys of members are as long as each other.
LEMMA MembersHaveKeys ==
  ASSUME GraphOK, NEW x, IsMember(x)
  PROVE  IsKey(MemberKey(x), 4)
<1>1. x.module \in Modules /\ Alpha(x.name) \in Int
  BY AlphaIs DEF IsMember
<1>2. <<Alpha(x.name)>> \in Seq(Int) /\ Len(<<Alpha(x.name)>>) = 1
  BY <1>1
<1>3. IsKey(ModuleRank(x.module) \o <<Alpha(x.name)>>, 3 + 1)
  BY <1>1, <1>2, RankedKey
<1>4. QED
  BY <1>3 DEF MemberKey

\* The fields and methods of a model.
LEMMA FieldsListed ==
  ASSUME GraphOK, DataOK(graph), NEW model, NEW list, list = ListFields(model, None, None)
  PROVE  /\ ListsAll(list, FieldsOf(model)) /\ list.total = Cardinality(FieldsOf(model))
         /\ \A x \in FieldsOf(model) : list.key[x] = MemberKey(x)
<1>1. {x \in InModule(FieldsOf(model), None) : None \in {None, graph.fields[x].ttype}} = FieldsOf(model)
  BY DEF InModule
<1>2. IsFiniteSet(FieldsOf(model)) /\ \A x \in FieldsOf(model) : IsMember(x)
  BY FS_Subset DEF DataOK, FieldsOK, FieldsOf
<1>3. list.key = [x \in FieldsOf(model) |-> MemberKey(x)] /\ list.total = Cardinality(FieldsOf(model))
  BY <1>1 DEF ListFields
<1>4. Rows(list) = FieldsOf(model) /\ \A x \in FieldsOf(model) : list.key[x] = MemberKey(x)
  BY <1>3 DEF Rows
<1>5. \A x \in FieldsOf(model) : IsKey(list.key[x], 4)
  BY <1>2, <1>4, MembersHaveKeys
<1>6. QED
  BY <1>2, <1>3, <1>4, <1>5 DEF ListsAll

LEMMA MethodsListed ==
  ASSUME GraphOK, DataOK(graph), NEW model, NEW list, list = ListMethods(model, None)
  PROVE  /\ ListsAll(list, MethodsOf(model)) /\ list.total = Cardinality(MethodsOf(model))
         /\ \A x \in MethodsOf(model) : list.key[x] = MemberKey(x)
<1>1. InModule(MethodsOf(model), None) = MethodsOf(model)
  BY DEF InModule
<1>2. IsFiniteSet(MethodsOf(model)) /\ \A x \in MethodsOf(model) : IsMember(x)
  BY FS_Subset DEF DataOK, MethodsOK, MethodsOf
<1>3. list.key = [x \in MethodsOf(model) |-> MemberKey(x)] /\ list.total = Cardinality(MethodsOf(model))
  BY <1>1 DEF ListMethods
<1>4. Rows(list) = MethodsOf(model) /\ \A x \in MethodsOf(model) : list.key[x] = MemberKey(x)
  BY <1>3 DEF Rows
<1>5. \A x \in MethodsOf(model) : IsKey(list.key[x], 4)
  BY <1>2, <1>4, MembersHaveKeys
<1>6. QED
  BY <1>2, <1>3, <1>4, <1>5 DEF ListsAll

LEMMA PatchesListed ==
  ASSUME GraphOK, DataOK(graph), NEW m, NEW list, list = ListJsPatches(None, m),
         NEW S, S = {x \in InModule(graph.patches, m) : TRUE}
  PROVE  /\ ListsAll(list, S) /\ list.total = Cardinality(S)
         /\ \A x \in S : list.key[x] = PatchKey(x)
<1>1. S = {x \in InModule(graph.patches, m) : None \in {None, x.target}}
  OBVIOUS
<1>2. IsFiniteSet(S) /\ S \subseteq graph.patches
  BY FS_Subset DEF InModule, DataOK, PatchesOK
<1>3. list.key = [x \in S |-> PatchKey(x)] /\ list.total = Cardinality(S)
  BY <1>1 DEF ListJsPatches
<1>4. Rows(list) = S /\ \A x \in S : list.key[x] = PatchKey(x)
  BY <1>3 DEF Rows
<1>5. ASSUME NEW x \in S PROVE IsKey(list.key[x], 5)
  <2>1. x.module \in Modules /\ x.target \in Names /\ x.name \in Names
    BY <1>2 DEF DataOK, PatchesOK
  <2>2. Alpha(x.target) \in Int /\ Alpha(x.name) \in Int
    BY <2>1, AlphaIs
  <2>3. <<Alpha(x.target), Alpha(x.name)>> \in Seq(Int) /\ Len(<<Alpha(x.target), Alpha(x.name)>>) = 2
    BY <2>2
  <2>4. IsKey(ModuleRank(x.module) \o <<Alpha(x.target), Alpha(x.name)>>, 3 + 2)
    BY <2>1, <2>3, RankedKey
  <2>5. 3 + 2 = 5 /\ list.key[x] = PatchKey(x)
    BY <1>4
  <2>6. PatchKey(x) = ModuleRank(x.module) \o <<Alpha(x.target), Alpha(x.name)>>
    BY DEF PatchKey
  <2>7. QED
    BY <2>4, <2>5, <2>6
<1>6. QED
  BY <1>2, <1>3, <1>4, <1>5 DEF ListsAll

CompsOf(m) == {x \in DOMAIN graph.comps : x.module = m}

LEMMA CompsListed ==
  ASSUME NEW m, CodeVersion > 13
  PROVE  Rows(ListOwlComponents(m, None)) = CompsOf(m)
<1>1. CompsOf(m) = {x \in DOMAIN graph.comps : /\ CodeVersion > 13 /\ x.module = m
                                               /\ None \in {None, graph.comps[x].bound}}
  BY DEF CompsOf
<1>2. QED
  BY <1>1 DEF ListOwlComponents, Rows

-----------------------------------------------------------------------------
(* A class and its members, as the tools answer them                       *)

\* A field as a list, as one tool looks it up, and as another does.
FieldNodes(model, f) == {x \in FieldsOf(model) : x.name = f}
MethodNodes(model, n) == {x \in MethodsOf(model) : x.name = n}
ModelNodes(model, from) ==
  InModule({x \in ModelsNamed(graph, model) : <<"Model", x>> \in graph.definedIn}, from)

LEMMA SummaryIs ==
  ASSUME GraphOK, DataOK(graph), NEW model, NEW from, NEW q, q = Layered(model, ModelNodes(model, from)),
         ModelNodes(model, from) # {}, NEW a, a = ModelInspect("summary", model, None, from)
  PROVE  /\ a.found /\ {a.base} \cup ToSet(a.extensions) = HomesOf(ModelNodes(model, from))
         /\ a.parents = ParentNames(model)
<1>1. \A x \in ModelNodes(model, from) : x.module \in Modules
  BY DEF ModelNodes, InModule, DataOK, HomesOK
<1>2. PICK S : S = HomesOf(ModelNodes(model, from))
  OBVIOUS
<1>3. ToSet(q) = S /\ q \in Seq(S) /\ q # <<>> /\ DOMAIN q = 1 .. Len(q) /\ Len(q) \in Nat
  BY <1>1, <1>2, LayersListed
<1>4. a = ResolveModel(model, from)
  BY DEF ModelInspect
<1>5. a = [found   |-> TRUE, base |-> Head(q), extensions |-> Tail(q),
           parents |-> ParentNames(model),
           fields  |-> Cardinality(FieldsOf(model)),
           methods |-> Cardinality(MethodsOf(model))]
  BY <1>3, <1>4 DEF ResolveModel, ModelNodes
<1>6. a.found /\ a.base = Head(q) /\ a.extensions = Tail(q) /\ a.parents = ParentNames(model)
  BY <1>5
<1>7. /\ Head(q) = q[1] /\ Tail(q) \in Seq(S) /\ Len(Tail(q)) = Len(q) - 1
      /\ \A i \in 1 .. Len(Tail(q)) : Tail(q)[i] = q[i + 1]
  BY <1>3, HeadTailProperties
<1>8. DOMAIN Tail(q) = 1 .. (Len(q) - 1) /\ 1 \in DOMAIN q
  <2>1. Len(q) # 0
    BY <1>3
  <2>2. QED
    BY <1>3, <1>7, <2>1, LenProperties
<1>9. ASSUME NEW y \in S PROVE y \in {Head(q)} \cup ToSet(Tail(q))
  <2>1. PICK i \in 1 .. Len(q) : q[i] = y
    BY <1>3 DEF ToSet
  <2>2. CASE i = 1
    BY <1>7, <2>1, <2>2
  <2>3. CASE i # 1
    <3>1. i - 1 \in 1 .. (Len(q) - 1) /\ (i - 1) + 1 = i
      BY <1>3, <2>1, <2>3
    <3>2. i - 1 \in DOMAIN Tail(q) /\ Tail(q)[i - 1] = y
      BY <1>7, <1>8, <2>1, <3>1
    <3>3. QED
      BY <3>2 DEF ToSet
  <2>4. QED
    BY <2>2, <2>3
<1>10. {Head(q)} \cup ToSet(Tail(q)) \subseteq S
  <2>1. Head(q) \in S
    BY <1>3, <1>7, <1>8 DEF ToSet
  <2>2. ToSet(Tail(q)) \subseteq S
    BY <1>7, ElementOfSeq, LenProperties DEF ToSet
  <2>3. QED
    BY <2>1, <2>2
<1>11. QED
  BY <1>2, <1>6, <1>9, <1>10

LEMMA FieldIs ==
  ASSUME GraphOK, DataOK(graph), NEW model, NEW f, f # None, FieldNodes(model, f) # {}
  PROVE  ToSet(ModelInspect("field", model, f, None).declaredIn) = HomesOf(FieldNodes(model, f))
<1>1. \A x \in FieldNodes(model, f) : x.module \in Modules
  BY DEF FieldNodes, FieldsOf, DataOK, FieldsOK, IsMember
<1>2. PICK q : q = Layered(model, FieldNodes(model, f))
  OBVIOUS
<1>3. ToSet(q) = HomesOf(FieldNodes(model, f)) /\ q # <<>>
  BY <1>1, <1>2, LayersListed
<1>4. q = Layered(model, InModule({x \in FieldsOf(model) : x.name = f}, None))
  <2>1. InModule({x \in FieldsOf(model) : x.name = f}, None) = FieldNodes(model, f)
    BY DEF InModule, FieldNodes
  <2>2. QED
    BY <1>2, <2>1
<1>5. ResolveField(model, f, None).declaredIn = q
  BY <1>3, <1>4 DEF ResolveField
<1>6. ModelInspect("field", model, f, None) = ResolveField(model, f, None)
  BY DEF ModelInspect
<1>7. QED
  BY <1>3, <1>5, <1>6

LEMMA OwnFieldIs ==
  ASSUME DataOK(graph), NEW model, NEW f, FieldNodes(model, f) # {}
  PROVE  \E x \in FieldNodes(model, f) : LookupField(model, f) = graph.fields[x]
<1>1. PICK S : S = FieldNodes(model, f)
  OBVIOUS
<1>2. IsFiniteSet(S) /\ \A x \in S : x.module \in Modules
  BY <1>1, FS_Subset DEF FieldNodes, FieldsOf, DataOK, FieldsOK, IsMember
<1>3. PICK k : k = [x \in S |-> <<x.module>>]
  OBVIOUS
<1>4. ASSUME NEW x \in S PROVE IsKey(k[x], 1)
  <2>1. x.module \in Modules /\ Modules \subseteq Nat
    BY <1>2, GraphAssumption
  <2>2. x.module \in Nat
    BY <2>1
  <2>3. x.module \in Int
    BY <2>2
  <2>4. k[x] = <<x.module>>
    BY <1>3
  <2>5. QED
    BY <2>3, <2>4 DEF IsKey
<1>5. PICK q : q = SortBy(S, KeyOrder(S, k))
  OBVIOUS
<1>6. Ordered(q, S, KeyOrder(S, k))
  BY <1>2, <1>4, <1>5, KeysSort
<1>7. q \in Seq(S) /\ q # <<>>
  <2>1. q \in Seq(S) /\ ToSet(q) = S
    BY <1>6, OrderedIs DEF Ordered
  <2>2. DOMAIN q # {}
    BY <1>1, <2>1 DEF ToSet
  <2>3. QED
    BY <2>1, <2>2
<1>8. Head(q) \in S
  BY <1>7, HeadTailProperties
<1>9. KeyOrder(S, k) = {p \in S \X S : Precedes(<<p[1].module>>, <<p[2].module>>)}
  BY <1>3 DEF KeyOrder
<1>10. LookupField(model, f) = graph.fields[Head(q)]
  <2>1. S = {x \in FieldsOf(model) : x.name = f} /\ S # {}
    BY <1>1 DEF FieldNodes
  <2>2. InOrder(S, LAMBDA x : <<x.module>>) = q
    BY <1>5, <1>9 DEF InOrder
  <2>3. QED
    BY <2>1, <2>2 DEF LookupField
<1>11. QED
  BY <1>1, <1>8, <1>10

LEMMA FieldIsNoError ==
  ASSUME NEW x, IsField(x)
  PROVE  x # NotFound
<1>1. x = [ttype |-> x.ttype, comodel |-> x.comodel]
  BY DEF IsField
<1>2. "ttype" \in DOMAIN x /\ "ttype" \notin DOMAIN NotFound
  BY <1>1 DEF NotFound
<1>3. QED
  BY <1>2

LEMMA MethodIs ==
  ASSUME GraphOK, DataOK(graph), NEW model, NEW n, MethodNodes(model, n) # {}
  PROVE  /\ {x.module : x \in ToSet(ResolveMethod(model, n))} = HomesOf(MethodNodes(model, n))
         /\ FindOverridePoint(model, n).modules = HomesOf(MethodNodes(model, n))
<1>1. \A x \in MethodNodes(model, n) : x.module \in Modules
  BY DEF MethodNodes, MethodsOf, DataOK, MethodsOK, IsMember
<1>2. PICK q : q = Layered(model, MethodNodes(model, n))
  OBVIOUS
<1>3. ToSet(q) = HomesOf(MethodNodes(model, n))
  BY <1>1, <1>2, LayersListed
<1>4. PICK a : a = ResolveMethod(model, n)
  OBVIOUS
<1>5. DOMAIN a = DOMAIN q /\ \A i \in DOMAIN q : a[i].module = q[i]
  BY <1>2, <1>4 DEF ResolveMethod, MethodNodes
<1>6. {x.module : x \in ToSet(a)} = ToSet(q)
  BY <1>5 DEF ToSet
<1>7. FindOverridePoint(model, n).modules = HomesOf(MethodNodes(model, n))
  BY DEF FindOverridePoint, MethodNodes, HomesOf
<1>8. QED
  BY <1>3, <1>4, <1>6, <1>7

LEMMA FieldsHaveNames ==
  ASSUME ReadAsWritten, HistOK, NEW m \in Written("models"), NEW d \in Classes(m), NEW f \in DOMAIN d.fields
  PROVE  f # None
<1>1. PICK s : s = last["models"][m] /\ m \in Modules /\ s # None
  BY DEF Written
<1>2. s \in Contents[m]
  BY <1>1 DEF HistOK, Layers
<1>3. d \in ToSet(Results[m][s].models)
  BY <1>1, <1>2 DEF ReadAsWritten, Classes, SaidIn
<1>4. QED
  BY <1>1, <1>2, <1>3, ResultsAssumption

LEMMA MembersAre ==
  ASSUME ReadAsWritten, HistOK, GraphOK, WrittenOK, DataOK(graph), NEW m \in Written("models")
  PROVE  MembersAreFound(m)
<1>1. SUFFICES ASSUME NEW d \in Classes(m)
               PROVE  /\ ModelInspect("summary", d.name, None, m).found
                      /\ LET shown == ModelInspect("summary", d.name, None, None) IN
                         m \in {shown.base} \cup ToSet(shown.extensions)
                      /\ \A f \in DOMAIN d.fields :
                           /\ m \in ToSet(ModelInspect("field", d.name, f, None).declaredIn)
                           /\ LookupField(d.name, f) # NotFound
                           /\ [name |-> f, model |-> d.name, module |-> m]
                                \in Rows(ModelInspect("fields", d.name, None, None))
                      /\ \A n \in DOMAIN d.methods :
                           /\ m \in {x.module : x \in ToSet(ResolveMethod(d.name, n))}
                           /\ m \in FindOverridePoint(d.name, n).modules
  BY DEF MembersAreFound
<1>2. /\ ModelId(m, d) \in ModelsNamed(graph, d.name) /\ <<"Model", ModelId(m, d)>> \in graph.definedIn
      /\ ClassAt(graph, m, d, Placed("models", m))
  BY ClassIsThere
<1>3. ModelId(m, d).module = m
  BY DEF ModelId
<1>4. ASSUME NEW from \in {None, m}
      PROVE  /\ ModelInspect("summary", d.name, None, from).found
             /\ m \in {ModelInspect("summary", d.name, None, from).base} \cup
                        ToSet(ModelInspect("summary", d.name, None, from).extensions)
  <2>1. ModelId(m, d) \in ModelNodes(d.name, from)
    BY <1>2, <1>3 DEF ModelNodes, InModule
  <2>2. m \in HomesOf(ModelNodes(d.name, from))
    BY <1>3, <2>1 DEF HomesOf
  <2>3. QED
    BY <2>1, <2>2, SummaryIs
<1>5. ASSUME NEW f \in DOMAIN d.fields
      PROVE  /\ m \in ToSet(ModelInspect("field", d.name, f, None).declaredIn)
             /\ LookupField(d.name, f) # NotFound
             /\ [name |-> f, model |-> d.name, module |-> m]
                  \in Rows(ModelInspect("fields", d.name, None, None))
  <2>1. Member(m, d, f) \in DOMAIN graph.fields
    BY <1>2 DEF ClassAt
  <2>2. Member(m, d, f) \in FieldsOf(d.name) /\ Member(m, d, f) \in FieldNodes(d.name, f)
    BY <2>1 DEF FieldsOf, FieldNodes, Member
  <2>3. m \in HomesOf(FieldNodes(d.name, f))
    BY <2>2 DEF HomesOf, Member
  <2>4. m \in ToSet(ModelInspect("field", d.name, f, None).declaredIn)
    BY <2>2, <2>3, FieldsHaveNames, FieldIs
  <2>5. LookupField(d.name, f) # NotFound
    <3>1. PICK x \in FieldNodes(d.name, f) : LookupField(d.name, f) = graph.fields[x]
      BY <2>2, OwnFieldIs
    <3>2. IsField(graph.fields[x])
      BY <3>1 DEF FieldNodes, FieldsOf, DataOK, FieldsOK
    <3>3. QED
      BY <3>1, <3>2, FieldIsNoError
  <2>6. ModelInspect("fields", d.name, None, None) = ListFields(d.name, None, None)
    BY DEF ModelInspect
  <2>7. Member(m, d, f) \in Rows(ModelInspect("fields", d.name, None, None))
    BY <2>2, <2>6, FieldsListed DEF ListsAll
  <2>8. QED
    BY <2>4, <2>5, <2>7 DEF Member
<1>6. ASSUME NEW n \in DOMAIN d.methods
      PROVE  /\ m \in {x.module : x \in ToSet(ResolveMethod(d.name, n))}
             /\ m \in FindOverridePoint(d.name, n).modules
  <2>1. Member(m, d, n) \in DOMAIN graph.methods
    BY <1>2 DEF ClassAt
  <2>2. Member(m, d, n) \in MethodNodes(d.name, n)
    BY <2>1 DEF MethodsOf, MethodNodes, Member
  <2>3. m \in HomesOf(MethodNodes(d.name, n))
    BY <2>2 DEF HomesOf, Member
  <2>4. QED
    BY <2>2, <2>3, MethodIs
<1>7. QED
  BY <1>4, <1>5, <1>6

-----------------------------------------------------------------------------
(* Nothing else is in the graph of a module written with one content       *)

\* What m has in g are the classes D.
StemsFrom(g, m, D) ==
  /\ \A x \in DOMAIN g.models : x.module = m =>
       /\ x \in ModelIds(m, D)
       /\ g.models[x].def => \E d \in D : ModelId(m, d) = x /\ IsDefinition(d)
  /\ \A x \in DOMAIN g.fields  : x.module = m => x \in Fields(m, D)
  /\ \A x \in DOMAIN g.methods : x.module = m => x \in Methods(m, D)

HadClasses(m) == IF last["models"][m] = None THEN {} ELSE Classes(m)
HadPatches(m) == IF last["js"][m] = None THEN {} ELSE Patches(m)

ModelsExact == \A m \in Modules : m \in pure["models"] => StemsFrom(graph, m, HadClasses(m))
PatchesExact == \A m \in Modules : m \in pure["js"] =>
                  \A x \in graph.patches : x.module = m => x \in PatchIds(m, HadPatches(m))
\* What is written is of an indexed module.
IndexedOK == \A l \in Graphic, m \in Modules : last[l][m] # None => graph.mods[m] = "indexed"

LEMMA MembersOf ==
  ASSUME NEW m, NEW C, NEW D, C \subseteq D
  PROVE  /\ ModelIds(m, C) \subseteq ModelIds(m, D)
         /\ Fields(m, C) \subseteq Fields(m, D) /\ Methods(m, C) \subseteq Methods(m, D)
         /\ \A x \in ModelIds(m, D) \cup Fields(m, D) \cup Methods(m, D) : x.module = m
<1>1. ModelIds(m, C) \subseteq ModelIds(m, D)
  BY DEF ModelIds
<1>2. Fields(m, C) \subseteq Fields(m, D)
  BY DEF Fields
<1>3. Methods(m, C) \subseteq Methods(m, D)
  BY DEF Methods
<1>4. \A x \in ModelIds(m, D) : x.module = m
  BY DEF ModelIds, ModelId
<1>5. ASSUME NEW x \in Fields(m, D) PROVE x.module = m
  <2>1. PICK d \in D : x \in {Member(m, d, n) : n \in DOMAIN d.fields}
    BY DEF Fields
  <2>2. QED
    BY <2>1 DEF Member
<1>6. ASSUME NEW x \in Methods(m, D) PROVE x.module = m
  <2>1. PICK d \in D : x \in {Member(m, d, n) : n \in DOMAIN d.methods}
    BY DEF Methods
  <2>2. QED
    BY <2>1 DEF Member
<1>7. QED
  BY <1>1, <1>2, <1>3, <1>4, <1>5, <1>6

LEMMA OwnClasses ==
  ASSUME NEW g, NEW h, NEW m \in Modules, NEW C, NEW D, C \subseteq D, StemsFrom(g, m, C),
         ModelsAdded(g, h, m, D)
  PROVE  StemsFrom(h, m, D)
<1>1. /\ ModelIds(m, C) \subseteq ModelIds(m, D)
      /\ Fields(m, C) \subseteq Fields(m, D) /\ Methods(m, C) \subseteq Methods(m, D)
  BY MembersOf
<1>2. ASSUME NEW x \in DOMAIN h.models, x.module = m
      PROVE  /\ x \in ModelIds(m, D)
             /\ h.models[x].def => \E d \in D : ModelId(m, d) = x /\ IsDefinition(d)
  <2>1. x \in DOMAIN g.models \cup ModelIds(m, D) \cup {ModelPlaceholder(n) : n \in AllLinked(D)}
    BY DEF ModelsAdded
  <2>2. x \notin {ModelPlaceholder(n) : n \in AllLinked(D)}
    BY <1>2, GraphAssumption DEF ModelPlaceholder
  <2>3. x \in ModelIds(m, D)
    BY <1>1, <1>2, <2>1, <2>2 DEF StemsFrom
  <2>4. ASSUME h.models[x].def PROVE \E d \in D : ModelId(m, d) = x /\ IsDefinition(d)
    <3>1. \/ \E d \in D : ModelId(m, d) = x /\ IsDefinition(d)
          \/ x \in DOMAIN g.models /\ g.models[x].def
      BY <2>3, <2>4 DEF ModelsAdded
    <3>2. (x \in DOMAIN g.models /\ g.models[x].def) =>
            \E d \in C : ModelId(m, d) = x /\ IsDefinition(d)
      BY <1>2 DEF StemsFrom
    <3>3. QED
      BY <3>1, <3>2
  <2>5. QED
    BY <2>3, <2>4
<1>3. ASSUME NEW x \in DOMAIN h.fields, x.module = m PROVE x \in Fields(m, D)
  BY <1>1, <1>3 DEF ModelsAdded, StemsFrom
<1>4. ASSUME NEW x \in DOMAIN h.methods, x.module = m PROVE x \in Methods(m, D)
  BY <1>1, <1>4 DEF ModelsAdded, StemsFrom
<1>5. QED
  BY <1>2, <1>3, <1>4 DEF StemsFrom

LEMMA OtherClasses ==
  ASSUME NEW g, NEW h, NEW m \in Modules, NEW y \in Modules, y # m, NEW C, NEW D, StemsFrom(g, y, C),
         ModelsAdded(g, h, m, D)
  PROVE  StemsFrom(h, y, C)
<1>1. \A x \in ModelIds(m, D) \cup Fields(m, D) \cup Methods(m, D) : x.module = m
  BY MembersOf
<1>2. ASSUME NEW x \in DOMAIN h.models, x.module = y
      PROVE  x \in DOMAIN g.models /\ h.models[x] = g.models[x]
  <2>1. x \in DOMAIN g.models \cup ModelIds(m, D) \cup {ModelPlaceholder(n) : n \in AllLinked(D)}
    BY DEF ModelsAdded
  <2>2. x \notin {ModelPlaceholder(n) : n \in AllLinked(D)}
    BY <1>2, GraphAssumption DEF ModelPlaceholder
  <2>3. x \notin ModelIds(m, D)
    BY <1>1, <1>2
  <2>4. QED
    BY <2>1, <2>2, <2>3 DEF ModelsAdded
<1>3. ASSUME NEW x \in DOMAIN h.fields, x.module = y PROVE x \in DOMAIN g.fields
  BY <1>1, <1>3 DEF ModelsAdded
<1>4. ASSUME NEW x \in DOMAIN h.methods, x.module = y PROVE x \in DOMAIN g.methods
  BY <1>1, <1>4 DEF ModelsAdded
<1>5. QED
  BY <1>2, <1>3, <1>4 DEF StemsFrom

\* A step that leaves the classes, and one that writes or deletes some.
LEMMA ModelsStayExact ==
  ASSUME ModelsExact, SameModels(graph, graph'),
         \A m \in Modules : m \in pure'["models"] =>
           m \in pure["models"] /\ last'["models"][m] = last["models"][m]
  PROVE  ModelsExact'
<1>1. ASSUME NEW m \in Modules, m \in pure'["models"] PROVE StemsFrom(graph', m, HadClasses(m)')
  <2>1. StemsFrom(graph, m, HadClasses(m))
    BY <1>1 DEF ModelsExact
  <2>2. HadClasses(m)' = HadClasses(m)
    BY <1>1 DEF HadClasses, Classes, SaidIn
  <2>3. QED
    BY <2>1, <2>2 DEF StemsFrom, SameModels
<1>2. QED
  BY <1>1 DEF ModelsExact

LEMMA ModelsWrittenExact ==
  ASSUME ReadAsWritten, HistOK, ModelsExact, ModelsMove
  PROVE  ModelsExact'
<1>1. PICK m \in Modules : LayerWritten("models", m) /\ ModelsStep(m)
  BY DEF ModelsMove
<1>2. Afresh("models", m)
  BY <1>1, AfreshIs DEF Layers
<1>3. PICK D : D = ToSet(Parse(m).models)
  OBVIOUS
<1>4. ModelsAdded(graph, graph', m, D)
  BY <1>1, <1>3 DEF ModelsStep
<1>5. D = Sources[m][disk[m]].classes /\ last'["models"][m] = disk[m] /\ disk[m] # None
  BY <1>2, <1>3 DEF Afresh, ReadAsWritten, Parse
<1>6. ASSUME NEW y \in Modules, y \in pure'["models"] PROVE StemsFrom(graph', y, HadClasses(y)')
  <2>1. y \in pure["models"] /\ (y = m => last["models"][m] \in {None, disk[m]})
    BY <1>2, <1>6 DEF Afresh, Layers
  <2>2. StemsFrom(graph, y, HadClasses(y))
    BY <2>1 DEF ModelsExact
  <2>3. CASE y = m
    <3>1. HadClasses(m)' = D
      BY <1>5 DEF HadClasses, Classes, SaidIn
    <3>2. HadClasses(m) \subseteq D
      BY <1>5, <2>1, <2>3 DEF HadClasses, Classes, SaidIn
    <3>3. QED
      BY <1>4, <2>2, <2>3, <3>1, <3>2, OwnClasses
  <2>4. CASE y # m
    <3>1. last'["models"][y] = last["models"][y]
      BY <1>2, <2>4 DEF Afresh, Layers
    <3>2. HadClasses(y)' = HadClasses(y)
      BY <3>1 DEF HadClasses, Classes, SaidIn
    <3>3. QED
      BY <1>4, <2>2, <2>4, <3>2, OtherClasses
  <2>5. QED
    BY <2>3, <2>4
<1>7. QED
  BY <1>6 DEF ModelsExact

LEMMA ModelsDeletedExact ==
  ASSUME HistOK, IndexedOK, ModelsExact, DeleteMove
  PROVE  ModelsExact'
<1>1. PICK r \in Repos :
        /\ Deleted(graph, graph', IndexedOf(graph, r))
        /\ last' = [l \in Layers |-> [m \in Modules |->
                      IF m \in Home(r) /\ l # "sheets" THEN None ELSE last[l][m]]]
        /\ pure' = [l \in Layers |-> IF l = "sheets" THEN pure[l]
                                     ELSE pure[l] \cup IndexedOf(graph, r)]
  BY DEF DeleteMove
<1>2. ASSUME NEW m \in Modules, m \in pure'["models"] PROVE StemsFrom(graph', m, HadClasses(m)')
  <2>1. m \in pure["models"] \cup IndexedOf(graph, r)
    BY <1>1, <1>2 DEF Layers
  <2>2. last'["models"][m] = IF m \in Home(r) THEN None ELSE last["models"][m]
    BY <1>1 DEF Layers
  <2>3. CASE m \in IndexedOf(graph, r)
    <3>1. /\ \A x \in DOMAIN graph'.models : x.module # m
          /\ \A x \in DOMAIN graph'.fields : x.module # m
          /\ \A x \in DOMAIN graph'.methods : x.module # m
      BY <1>1, <2>3 DEF Deleted
    <3>2. QED
      BY <3>1 DEF StemsFrom
  <2>4. CASE m \notin IndexedOf(graph, r)
    <3>1. StemsFrom(graph, m, HadClasses(m))
      BY <2>1, <2>4 DEF ModelsExact
    <3>2. m \in Home(r) => last["models"][m] = None
      BY <2>4 DEF IndexedOK, IndexedOf, Home, Graphic
    <3>3. HadClasses(m)' = HadClasses(m)
      BY <2>2, <3>2 DEF HadClasses, Classes, SaidIn
    <3>4. StemsFrom(graph', m, HadClasses(m))
      BY <1>1, <3>1 DEF StemsFrom, Deleted
    <3>5. QED
      BY <3>3, <3>4
  <2>5. QED
    BY <2>3, <2>4
<1>3. QED
  BY <1>2 DEF ModelsExact

\* The same of the patches.
LEMMA PatchesStayExact ==
  ASSUME PatchesExact, graph'.patches = graph.patches,
         \A m \in Modules : m \in pure'["js"] => m \in pure["js"] /\ last'["js"][m] = last["js"][m]
  PROVE  PatchesExact'
<1>1. ASSUME NEW m \in Modules, m \in pure'["js"], NEW x \in graph'.patches, x.module = m
      PROVE  x \in PatchIds(m, HadPatches(m)')
  <2>1. x \in PatchIds(m, HadPatches(m))
    BY <1>1 DEF PatchesExact
  <2>2. HadPatches(m)' = HadPatches(m)
    BY <1>1 DEF HadPatches, Patches, SaidIn
  <2>3. QED
    BY <2>1, <2>2
<1>2. QED
  BY <1>1 DEF PatchesExact

LEMMA PatchesWrittenExact ==
  ASSUME ReadAsWritten, HistOK, PatchesExact, JsMove
  PROVE  PatchesExact'
<1>1. PICK m \in Modules : LayerWritten("js", m) /\ JsStep(m)
  BY DEF JsMove
<1>2. Afresh("js", m)
  BY <1>1, AfreshIs DEF Layers
<1>3. PICK D : D = ToSet(Parse(m).patches)
  OBVIOUS
<1>4. graph'.patches = graph.patches \cup PatchIds(m, D)
  BY <1>1, <1>3 DEF JsStep, CompsAdded, PatchesAdded
<1>5. D = Sources[m][disk[m]].patches /\ last'["js"][m] = disk[m] /\ disk[m] # None
  BY <1>2, <1>3 DEF Afresh, ReadAsWritten, Parse
<1>6. \A x \in PatchIds(m, D) : x.module = m
  BY DEF PatchIds, PatchId
<1>7. ASSUME NEW y \in Modules, y \in pure'["js"], NEW x \in graph'.patches, x.module = y
      PROVE  x \in PatchIds(y, HadPatches(y)')
  <2>1. y \in pure["js"] /\ (y = m => last["js"][m] \in {None, disk[m]})
    BY <1>2, <1>7 DEF Afresh, Layers
  <2>2. x \in graph.patches => x \in PatchIds(y, HadPatches(y))
    BY <1>7, <2>1 DEF PatchesExact
  <2>3. CASE y = m
    <3>1. HadPatches(m)' = D
      BY <1>5 DEF HadPatches, Patches, SaidIn
    <3>2. HadPatches(m) \subseteq D
      BY <1>5, <2>1, <2>3 DEF HadPatches, Patches, SaidIn
    <3>3. PatchIds(m, HadPatches(m)) \subseteq PatchIds(m, D)
      BY <3>2 DEF PatchIds
    <3>4. QED
      BY <1>4, <1>7, <2>2, <2>3, <3>1, <3>3
  <2>4. CASE y # m
    <3>1. last'["js"][y] = last["js"][y]
      BY <1>2, <2>4 DEF Afresh, Layers
    <3>2. HadPatches(y)' = HadPatches(y)
      BY <3>1 DEF HadPatches, Patches, SaidIn
    <3>3. x \in graph.patches
      BY <1>4, <1>6, <1>7, <2>4
    <3>4. QED
      BY <2>2, <3>2, <3>3
  <2>5. QED
    BY <2>3, <2>4
<1>8. QED
  BY <1>7 DEF PatchesExact

LEMMA PatchesDeletedExact ==
  ASSUME HistOK, IndexedOK, PatchesExact, DeleteMove
  PROVE  PatchesExact'
<1>1. PICK r \in Repos :
        /\ Deleted(graph, graph', IndexedOf(graph, r))
        /\ last' = [l \in Layers |-> [m \in Modules |->
                      IF m \in Home(r) /\ l # "sheets" THEN None ELSE last[l][m]]]
        /\ pure' = [l \in Layers |-> IF l = "sheets" THEN pure[l]
                                     ELSE pure[l] \cup IndexedOf(graph, r)]
  BY DEF DeleteMove
<1>2. graph'.patches = {x \in graph.patches : x.module \notin IndexedOf(graph, r)}
  BY <1>1 DEF Deleted
<1>3. ASSUME NEW m \in Modules, m \in pure'["js"], NEW x \in graph'.patches, x.module = m
      PROVE  x \in PatchIds(m, HadPatches(m)')
  <2>1. m \notin IndexedOf(graph, r) /\ x \in graph.patches
    BY <1>2, <1>3
  <2>2. m \in pure["js"]
    BY <1>1, <1>3, <2>1 DEF Layers
  <2>3. last'["js"][m] = IF m \in Home(r) THEN None ELSE last["js"][m]
    BY <1>1 DEF Layers
  <2>4. m \in Home(r) => last["js"][m] = None
    BY <2>1 DEF IndexedOK, IndexedOf, Home, Graphic
  <2>5. HadPatches(m)' = HadPatches(m)
    BY <2>3, <2>4 DEF HadPatches, Patches, SaidIn
  <2>6. QED
    BY <1>3, <2>1, <2>2, <2>5 DEF PatchesExact
<1>4. QED
  BY <1>3 DEF PatchesExact

LEMMA StemsStep ==
  ASSUME ReadAsWritten, HistOK, IndexedOK, ModelsExact, PatchesExact, GraphMove
  PROVE  ModelsExact' /\ PatchesExact'
<1>1. CASE QuietStep
  BY <1>1, ModelsStayExact, PatchesStayExact DEF QuietStep, SameModels
<1>2. ASSUME NEW l \in Layers, NEW m, LayerWritten(l, m), NEW k \in Layers, k # l, NEW y \in Modules,
             y \in pure'[k]
      PROVE  y \in pure[k] /\ last'[k][y] = last[k][y]
  <2>1. Afresh(l, m)
    BY <1>2, AfreshIs
  <2>2. QED
    BY <1>2, <2>1 DEF Afresh
<1>3. CASE ModelsMove
  <2>1. PICK m \in Modules : LayerWritten("models", m) /\ ModelsStep(m)
    BY <1>3 DEF ModelsMove
  <2>2. graph'.patches = graph.patches
    BY <2>1 DEF ModelsStep, ModelsAdded, SameJs
  <2>3. \A y \in Modules : y \in pure'["js"] => y \in pure["js"] /\ last'["js"][y] = last["js"][y]
    BY <1>2, <2>1 DEF Layers
  <2>4. QED
    BY <1>3, <2>2, <2>3, ModelsWrittenExact, PatchesStayExact
<1>4. CASE ViewsMove
  <2>1. PICK m \in Modules : LayerWritten("views", m) /\ ViewsStep(m)
    BY <1>4 DEF ViewsMove
  <2>2. SameModels(graph, graph') /\ graph'.patches = graph.patches
    BY <2>1 DEF ViewsStep, ViewsAdded, SameJs
  <2>3. \A y \in Modules : y \in pure'["js"] => y \in pure["js"] /\ last'["js"][y] = last["js"][y]
    BY <1>2, <2>1 DEF Layers
  <2>4. \A y \in Modules : y \in pure'["models"] =>
          y \in pure["models"] /\ last'["models"][y] = last["models"][y]
    BY <1>2, <2>1 DEF Layers
  <2>5. QED
    BY <2>2, <2>3, <2>4, ModelsStayExact, PatchesStayExact
<1>5. CASE JsMove
  <2>1. PICK m \in Modules : LayerWritten("js", m) /\ JsStep(m)
    BY <1>5 DEF JsMove
  <2>2. SameModels(graph, graph')
    BY <2>1 DEF JsStep, CompsAdded, PatchesAdded, SameModels
  <2>3. \A y \in Modules : y \in pure'["models"] =>
          y \in pure["models"] /\ last'["models"][y] = last["models"][y]
    BY <1>2, <2>1 DEF Layers
  <2>4. QED
    BY <1>5, <2>2, <2>3, ModelsStayExact, PatchesWrittenExact
<1>6. CASE SheetsMove
  <2>1. SameModels(graph, graph') /\ graph'.patches = graph.patches /\ pure' = pure
    BY <1>6 DEF SheetsMove, BatchWritten, SameJs
  <2>2. \A k \in {"models", "js"} : last'[k] = last[k]
    BY <1>6 DEF SheetsMove, HistOK, Layers
  <2>3. QED
    BY <2>1, <2>2, ModelsStayExact, PatchesStayExact
<1>7. CASE EndMove
  <2>1. PICK gone \in SUBSET Modules :
          /\ Dropped(graph, graph', gone)
          /\ last' = [l \in Layers |-> [m \in Modules |-> IF m \in gone THEN None ELSE last[l][m]]]
          /\ pure' = [l \in Layers |-> pure[l] \ gone]
    BY <1>7 DEF EndMove
  <2>2. SameModels(graph, graph') /\ graph'.patches = graph.patches
    BY <2>1 DEF Dropped, SameJs
  <2>3. \A k \in {"models", "js"} : \A m \in Modules : m \in pure'[k] =>
          m \in pure[k] /\ last'[k][m] = last[k][m]
    BY <2>1 DEF Layers
  <2>4. QED
    BY <2>2, <2>3, ModelsStayExact, PatchesStayExact
<1>8. CASE DeleteMove
  BY <1>8, ModelsDeletedExact, PatchesDeletedExact
<1>9. QED
  BY <1>1, <1>3, <1>4, <1>5, <1>6, <1>7, <1>8 DEF GraphMove

LEMMA StemsInit ==
  ASSUME Init
  PROVE  ModelsExact /\ PatchesExact /\ IndexedOK
<1>1. /\ last = [l \in Layers |-> [m \in Modules |-> None]]
      /\ graph.models = Empty /\ graph.fields = Empty /\ graph.methods = Empty /\ graph.patches = {}
  BY DEF Init, GraphInit
<1>2. \A l \in Graphic, m \in Modules : last[l][m] = None
  BY <1>1 DEF Graphic, Layers
<1>3. \A m, D : StemsFrom(graph, m, D)
  BY <1>1 DEF StemsFrom, Empty
<1>4. QED
  BY <1>1, <1>2, <1>3 DEF ModelsExact, PatchesExact, IndexedOK

-----------------------------------------------------------------------------
(* A module stays indexed while it is written                              *)

\* The modules of a run whose models it has written.
Begun(rec) == CASE rec.pc = "models"         -> ToSet(rec.mods) \ ToSet(rec.todo)
                [] rec.pc \in {"views", "js"} -> ToSet(rec.mods)
                [] OTHER                      -> {}
AtWork == \A r \in Repos : \A m \in Begun(run[r]) : graph.mods[m] = "indexed"

\* What the modules of r are, they stay.
Steady(r) == \A m \in Modules : RepoOf[m] = r /\ graph.mods[m] = "indexed" => graph'.mods[m] = "indexed"

LEMMA StubbedSteady ==
  ASSUME StubbedMods(graph, graph'), NEW r
  PROVE  Steady(r)
BY DEF StubbedMods, Steady

\* Only the end of a run of r, or its deletion, drops modules of r.
LEMMA WritersAreSteady ==
  ASSUME RunsAreOK, IsGraph(graph), IsMods(graph.mods), NEW q \in Repos, NEW r,
         \/ WriteResults(q) \/ WriteViewResults(q) \/ WriteJsGraphResults(q) \/ WriteAllStylesheets(q)
  PROVE  Steady(r)
<1>1. CASE WriteResults(q)
  <2>1. PICK m : m = Head(run[q].todo) /\ ModelsStep(m)
    BY <1>1, WriteResultsIs
  <2>2. QED
    BY <2>1 DEF ModelsStep, Steady
<1>2. CASE WriteViewResults(q)
  <2>1. PICK m : m = Head(run[q].todo) /\ ViewsStep(m)
    BY <1>2, WriteViewResultsIs
  <2>2. QED
    BY <2>1, StubbedSteady DEF ViewsStep
<1>3. CASE WriteJsGraphResults(q)
  <2>1. PICK m : m = Head(run[q].todo) /\ JsStep(m)
    BY <1>3, WriteJsResultsIs
  <2>2. QED
    BY <2>1, StubbedSteady DEF JsStep
<1>4. CASE WriteAllStylesheets(q)
  BY <1>4, WriteAllStylesheetsIs, StubbedSteady DEF BatchWritten
<1>5. QED
  BY <1>1, <1>2, <1>3, <1>4

LEMMA OthersAreSteady ==
  ASSUME IsGraph(graph), NEW q \in Repos, NEW r, q # r, EndRun(q) \/ DeleteRepository(q)
  PROVE  Steady(r)
<1>1. CASE EndRun(q)
  <2>1. PICK gone : /\ \A m \in gone : RepoOf[m] = q
                    /\ graph' = graph \/ graph' = DropModules(graph, gone)
    <3>1. PICK live : live = ModulesOf(q)
      OBVIOUS
    <3>2. PICK stale : stale = {m \in Modules : graph.mods[m] = "indexed" /\ RepoOf[m] = q /\ m \notin live}
      OBVIOUS
    <3>3. graph' = graph \/ graph' = GcStaleModules(graph, q, live)
      BY <1>1, <3>1 DEF EndRun
    <3>4. GcStaleModules(graph, q, live) = DropModules(graph, stale)
      BY <3>2 DEF GcStaleModules
    <3>5. QED
      BY <3>2, <3>3, <3>4
  <2>2. CASE graph' = graph
    BY <2>2 DEF Steady
  <2>3. CASE graph' = DropModules(graph, gone)
    <3>1. graph'.mods = [m \in Modules |-> IF m \in gone THEN "absent" ELSE graph.mods[m]]
      BY <2>3, DropIs DEF Dropped
    <3>2. QED
      BY <2>1, <3>1 DEF Steady
  <2>4. QED
    BY <2>1, <2>2, <2>3
<1>2. CASE DeleteRepository(q)
  <2>1. Deleted(graph, graph', IndexedOf(graph, q))
    BY <1>2, DeleteIs DEF DeleteRepository
  <2>2. graph'.mods = [m \in Modules |-> IF m \in IndexedOf(graph, q) THEN "absent" ELSE graph.mods[m]]
    BY <2>1 DEF Deleted
  <2>3. QED
    BY <2>2 DEF Steady, IndexedOf
<1>3. QED
  BY <1>1, <1>2

\* A run goes on with the modules it has begun, and with the one it writes.
LEMMA BegunGoesOn ==
  ASSUME RunsAreOK, NEW r \in Repos, NEW l, l \in {"models", "views", "js"}, run[r].pc = l, Advance(r, l),
         NEW m \in Begun(run'[r])
  PROVE  m \in Begun(run[r]) \/ (l = "models" /\ m = Head(run[r].todo))
<1>1. PICK c : c = run[r] /\ c \in RunRecord /\ c.pc = l
  BY DEF RunsAreOK
<1>2. c.todo \in Seq(Modules) /\ c.todo # <<>>
  BY <1>1 DEF RunsAreOK, RunRecord
<1>3. \A x \in ToSet(c.todo) : x = Head(c.todo) \/ x \in ToSet(Tail(c.todo))
  <2>1. /\ Len(Tail(c.todo)) = Len(c.todo) - 1 /\ Tail(c.todo) \in Seq(Modules)
        /\ \A i \in 1 .. Len(Tail(c.todo)) : Tail(c.todo)[i] = c.todo[i + 1]
        /\ Head(c.todo) = c.todo[1]
    BY <1>2, HeadTailProperties
  <2>2. /\ DOMAIN Tail(c.todo) = 1 .. Len(Tail(c.todo)) /\ DOMAIN c.todo = 1 .. Len(c.todo)
        /\ Len(c.todo) \in Nat /\ Len(Tail(c.todo)) \in Nat
    BY <1>2, <2>1, LenProperties
  <2>3. ASSUME NEW i \in DOMAIN c.todo, i # 1 PROVE c.todo[i] \in ToSet(Tail(c.todo))
    <3>1. i \in Nat /\ i - 1 \in 1 .. Len(Tail(c.todo)) /\ (i - 1) + 1 = i
      BY <2>1, <2>2, <2>3
    <3>2. Tail(c.todo)[i - 1] = c.todo[i]
      BY <2>1, <3>1
    <3>3. QED
      BY <2>2, <3>1, <3>2 DEF ToSet
  <2>4. QED
    BY <2>1, <2>3 DEF ToSet
<1>4. run \in [Repos -> RunRecord]
  BY DEF RunsAreOK
<1>5. CASE Tail(c.todo) = <<>>
  <2>1. run'[r] = [c EXCEPT !.pc = NextLayer(l), !.todo = c.mods]
    BY <1>1, <1>4, <1>5 DEF Advance
  <2>2. run'[r].mods = c.mods /\ run'[r].todo = c.mods /\ run'[r].pc = NextLayer(l)
    BY <1>1, <2>1 DEF RunRecord
  <2>3. m \in ToSet(c.mods)
    BY <2>2 DEF Begun
  <2>4. ToSet(Tail(c.todo)) = {}
    BY <1>5, EmptySeq DEF ToSet
  <2>5. QED
    BY <1>1, <1>3, <2>3, <2>4 DEF Begun
<1>6. CASE Tail(c.todo) # <<>>
  <2>1. run'[r] = [c EXCEPT !.todo = Tail(c.todo)]
    BY <1>1, <1>4, <1>6 DEF Advance
  <2>2. run'[r].mods = c.mods /\ run'[r].todo = Tail(c.todo) /\ run'[r].pc = l
    BY <1>1, <2>1 DEF RunRecord
  <2>3. m \in ToSet(c.mods) /\ (l = "models" => m \notin ToSet(Tail(c.todo)))
    BY <2>2 DEF Begun
  <2>4. QED
    BY <1>1, <1>3, <2>3 DEF Begun
<1>7. QED
  BY <1>5, <1>6

LEMMA BegunAre ==
  ASSUME RunsAreOK, NEW r \in Repos, NEW m \in Begun(run[r])
  PROVE  m \in Modules /\ RepoOf[m] = r
<1>1. run[r] \in RunRecord /\ m \in ToSet(run[r].mods) /\ run[r].pc # "idle"
  BY DEF Begun, RunsAreOK
<1>2. run[r].mods \in Seq(Modules)
  BY <1>1 DEF RunRecord
<1>3. m \in Modules
  BY <1>1, <1>2, LenProperties, ElementOfSeq DEF ToSet
<1>4. QED
  BY <1>1, <1>3 DEF RunsAreOK

LEMMA AtWorkStep ==
  ASSUME RunsAreOK, GraphOK, AtWork, [Next]_vars
  PROVE  AtWork'
<1> IsGraph(graph) /\ IsMods(graph.mods)
  BY DEF GraphOK, ModsOK, IsMods
<1> DEFINE Good(r) == \A m \in Begun(run'[r]) : graph'.mods[m] = "indexed"
<1>1. ASSUME NEW r \in Repos, Steady(r), Begun(run'[r]) \subseteq Begun(run[r])
      PROVE  Good(r)
  BY <1>1, BegunAre DEF AtWork, Steady
<1>2. ASSUME NEW r \in Repos, run'[r].pc \notin {"models", "views", "js"} PROVE Good(r)
  BY <1>2 DEF Begun
<1>3. ASSUME UNCHANGED <<graph, run>> PROVE \A r \in Repos : Good(r)
  BY <1>3 DEF AtWork
<1>4. ASSUME NEW q \in Repos, NEW mode \in Modes, StartRun(q, mode[1], mode[2]), NEW r \in Repos
      PROVE  Good(r)
  <2>1. PICK S : run' = [run EXCEPT ![q] = [pc |-> "models", mods |-> TopologicalSort(S),
                                            todo |-> TopologicalSort(S), gc |-> mode[2]]]
    BY <1>4 DEF StartRun
  <2>2. PICK t, u : run' = [run EXCEPT ![q] = [pc |-> "models", mods |-> t, todo |-> t, gc |-> u]]
    BY <2>1
  <2>3. graph' = graph /\ run \in [Repos -> RunRecord]
    BY <1>4 DEF StartRun, RunsAreOK
  <2>4. CASE r = q
    BY <2>2, <2>3, <2>4 DEF Begun
  <2>5. CASE r # q
    BY <2>2, <2>3, <2>5, <1>1 DEF Steady
  <2>6. QED
    BY <2>4, <2>5
<1>5. ASSUME NEW q \in Repos, NEW l, l \in {"models", "views", "js"}, run[q].pc = l, Advance(q, l),
             NEW r \in Repos, Steady(r), l = "models" => graph'.mods[Head(run[q].todo)] = "indexed"
      PROVE  Good(r)
  <2>1. CASE r = q
    <3>1. ASSUME NEW m \in Begun(run'[r]) PROVE graph'.mods[m] = "indexed"
      <4>1. m \in Begun(run[r]) \/ (l = "models" /\ m = Head(run[r].todo))
        BY <1>5, <2>1, <3>1, BegunGoesOn
      <4>2. m \in Begun(run[r]) => graph'.mods[m] = "indexed"
        BY <1>5, BegunAre DEF AtWork, Steady
      <4>3. QED
        BY <1>5, <2>1, <4>1, <4>2
    <3>2. QED
      BY <3>1
  <2>2. CASE r # q
    <3>1. run'[r] = run[r]
      BY <1>5, <2>2 DEF Advance
    <3>2. QED
      BY <1>1, <1>5, <3>1
  <2>3. QED
    BY <2>1, <2>2
<1>6. ASSUME NEW q \in Repos, WriteResults(q) \/ WriteViewResults(q) \/ WriteJsGraphResults(q),
             NEW r \in Repos
      PROVE  Good(r)
  <2>1. Steady(r)
    BY <1>6, WritersAreSteady
  <2>2. PICK l : l \in {"models", "views", "js"} /\ run[q].pc = l /\ Advance(q, l)
                 /\ (l = "models" => WriteResults(q))
    BY <1>6 DEF WriteResults, WriteViewResults, WriteJsGraphResults
  <2>3. ASSUME l = "models" PROVE graph'.mods[Head(run[q].todo)] = "indexed"
    <3>1. PICK m : m = Head(run[q].todo)
      OBVIOUS
    <3>2. m \in Modules /\ ModelsStep(m)
      BY <2>2, <2>3, <3>1, WriteResultsIs
    <3>3. QED
      BY <3>1, <3>2 DEF ModelsStep
  <2>4. QED
    BY <1>5, <2>1, <2>2, <2>3
<1>7. ASSUME NEW q \in Repos, WriteAllStylesheets(q) \/ EndRun(q), NEW r \in Repos PROVE Good(r)
  <2>1. run \in [Repos -> RunRecord]
    BY DEF RunsAreOK
  <2>2. /\ run'[q].pc \in {"gc", "idle"} /\ \A x \in Repos : x # q => run'[x] = run[x]
    <3>1. CASE WriteAllStylesheets(q)
      <4>1. run' = [run EXCEPT ![q] = [run[q] EXCEPT !.pc = "gc"]]
        BY <2>1, <3>1 DEF WriteAllStylesheets
      <4>2. [run[q] EXCEPT !.pc = "gc"].pc = "gc"
        BY <2>1 DEF RunRecord
      <4>3. QED
        BY <2>1, <4>1, <4>2
    <3>2. CASE EndRun(q)
      BY <2>1, <3>2 DEF EndRun, IdleWorker
    <3>3. QED
      BY <1>7, <3>1, <3>2
  <2>3. r # q => Steady(r)
    BY <1>7, WritersAreSteady, OthersAreSteady
  <2>4. QED
    BY <1>1, <1>2, <2>2, <2>3
<1>8. ASSUME NEW q \in Repos, KillRun(q), NEW r \in Repos PROVE Good(r)
  <2>1. run \in [Repos -> RunRecord] /\ graph' = graph
    BY <1>8 DEF RunsAreOK, KillRun
  <2>2. run'[q].pc = "idle" /\ \A x \in Repos : x # q => run'[x] = run[x]
    BY <1>8, <2>1 DEF KillRun, IdleWorker
  <2>3. QED
    BY <1>1, <1>2, <2>1, <2>2 DEF Steady
<1>9. ASSUME NEW q \in Repos, DeleteRepository(q), NEW r \in Repos PROVE Good(r)
  <2>1. run[q].pc = "idle" /\ run' = run
    BY <1>9 DEF DeleteRepository
  <2>2. r # q => Steady(r)
    BY <1>9, OthersAreSteady
  <2>3. QED
    BY <1>1, <1>2, <2>1, <2>2
<1>10. ASSUME NEW m \in Modules, NEW c, Pull(m, c) PROVE UNCHANGED <<graph, run>>
  BY <1>10 DEF Pull
<1>11. \A r \in Repos : Good(r)
  <2>1. CASE UNCHANGED <<graph, run>>
    BY <1>3, <2>1
  <2>2. CASE GraphStep
    BY <1>3, <1>4, <1>6, <1>7, <1>8, <1>9, <1>10, <2>2 DEF GraphStep
  <2>3. QED
    BY <2>1, <2>2 DEF Next, vars, graphVars
<1>12. QED
  BY <1>11 DEF AtWork

\* What is written in a layer is of an indexed module.
LEMMA IndexedStep ==
  ASSUME RunsAreOK, GraphOK, HistOK, AtWork, IndexedOK, [Next]_vars
  PROVE  IndexedOK'
<1> IsGraph(graph) /\ IsMods(graph.mods) /\ ModsOK
  BY DEF GraphOK, ModsOK, IsMods
<1>1. ASSUME UNCHANGED <<graph, last>> PROVE IndexedOK'
  BY <1>1 DEF IndexedOK
<1>2. ASSUME NEW l \in Graphic, NEW m \in Modules, Wrote(l, m), graph'.mods[m] = "indexed",
             \A r : Steady(r)
      PROVE  IndexedOK'
  <2>1. \A k \in Graphic, y \in Modules : <<k, y>> # <<l, m>> => last'[k][y] = last[k][y]
    BY <1>2 DEF Wrote, HistOK, Graphic, Layers
  <2>2. QED
    BY <1>2, <2>1 DEF IndexedOK, Steady
<1>3. ASSUME NEW q \in Repos, WriteResults(q) PROVE IndexedOK'
  <2>1. PICK m : m = Head(run[q].todo)
    OBVIOUS
  <2>2. m \in Modules /\ Wrote("models", m) /\ ModelsStep(m)
    BY <1>3, <2>1, WriteResultsIs
  <2>3. graph'.mods[m] = "indexed"
    BY <2>2 DEF ModelsStep
  <2>4. QED
    BY <1>2, <1>3, <2>2, <2>3, WritersAreSteady DEF Graphic
<1>4. ASSUME NEW q \in Repos, NEW l \in {"views", "js"}, run[q].pc = l, NEW m, m = Head(run[q].todo),
             m \in Modules, Wrote(l, m), \A r : Steady(r)
      PROVE  IndexedOK'
  <2>1. /\ run[q].todo \in Seq(Modules) /\ run[q].todo # <<>>
        /\ ToSet(run[q].todo) \subseteq ToSet(run[q].mods)
    BY <1>4 DEF RunsAreOK, RunRecord
  <2>2. 1 \in DOMAIN run[q].todo /\ m = run[q].todo[1]
    BY <1>4, <2>1, HeadTailProperties, EmptySeq, LenProperties
  <2>3. m \in ToSet(run[q].mods)
    BY <2>1, <2>2 DEF ToSet
  <2>4. graph.mods[m] = "indexed"
    BY <1>4, <2>3 DEF AtWork, Begun
  <2>5. graph'.mods[m] = "indexed"
    BY <1>4, <2>4 DEF Steady
  <2>6. QED
    BY <1>2, <1>4, <2>5 DEF Graphic
<1>5. ASSUME NEW q \in Repos, WriteViewResults(q) PROVE IndexedOK'
  <2>1. PICK m : m = Head(run[q].todo)
    OBVIOUS
  <2>2. m \in Modules /\ Wrote("views", m) /\ run[q].pc = "views"
    BY <1>5, <2>1, WriteViewResultsIs DEF WriteViewResults
  <2>3. QED
    BY <1>4, <1>5, <2>1, <2>2, WritersAreSteady
<1>6. ASSUME NEW q \in Repos, WriteJsGraphResults(q) PROVE IndexedOK'
  <2>1. PICK m : m = Head(run[q].todo)
    OBVIOUS
  <2>2. m \in Modules /\ Wrote("js", m) /\ run[q].pc = "js"
    BY <1>6, <2>1, WriteJsResultsIs DEF WriteJsGraphResults
  <2>3. QED
    BY <1>4, <1>6, <2>1, <2>2, WritersAreSteady
<1>7. ASSUME NEW q \in Repos, WriteAllStylesheets(q) PROVE IndexedOK'
  <2>1. \A r : Steady(r)
    BY <1>7, WritersAreSteady
  <2>2. \A k \in Graphic : last'[k] = last[k]
    BY <1>7 DEF WriteAllStylesheets, HistOK, Graphic, Layers
  <2>3. QED
    BY <2>1, <2>2 DEF IndexedOK, Steady
<1>8. ASSUME NEW q \in Repos, EndRun(q), UNCHANGED coreVars PROVE IndexedOK'
  <2>1. PICK gone \in SUBSET Modules :
          /\ Dropped(graph, graph', gone)
          /\ last' = [l \in Layers |-> [m \in Modules |-> IF m \in gone THEN None ELSE last[l][m]]]
    BY <1>8, EndRunIs DEF EndMove
  <2>2. graph'.mods = [m \in Modules |-> IF m \in gone THEN "absent" ELSE graph.mods[m]]
    BY <2>1 DEF Dropped
  <2>3. QED
    BY <2>1, <2>2 DEF IndexedOK, Graphic, Layers
<1>9. ASSUME NEW q \in Repos, DeleteRepository(q), UNCHANGED coreVars PROVE IndexedOK'
  <2>1. PICK r \in Repos :
          /\ Deleted(graph, graph', IndexedOf(graph, r))
          /\ last' = [l \in Layers |-> [m \in Modules |->
                        IF m \in Home(r) /\ l # "sheets" THEN None ELSE last[l][m]]]
    BY <1>9, DeleteRepositoryIs DEF DeleteMove
  <2>2. graph'.mods = [m \in Modules |-> IF m \in IndexedOf(graph, r) THEN "absent" ELSE graph.mods[m]]
    BY <2>1 DEF Deleted
  <2>3. QED
    BY <2>1, <2>2 DEF IndexedOK, Graphic, Layers, IndexedOf, Home
<1>10. ASSUME NEW q \in Repos, NEW mode, StartRun(q, mode[1], mode[2]) PROVE UNCHANGED <<graph, last>>
  BY <1>10 DEF StartRun
<1>11. ASSUME NEW q \in Repos, KillRun(q) PROVE UNCHANGED <<graph, last>>
  BY <1>11 DEF KillRun
<1>12. ASSUME NEW m \in Modules, NEW c, Pull(m, c) PROVE UNCHANGED <<graph, last>>
  BY <1>12 DEF Pull
<1>13. CASE UNCHANGED graphVars
  BY <1>1, <1>13 DEF graphVars
<1>14. CASE GraphStep /\ UNCHANGED coreVars
  BY <1>1, <1>3, <1>5, <1>6, <1>7, <1>8, <1>9, <1>10, <1>11, <1>12, <1>14 DEF GraphStep
<1>15. QED
  BY <1>13, <1>14 DEF Next, vars

-----------------------------------------------------------------------------
(* The stylesheets                                                         *)

\* The stylesheets T of m are in g.
SheetsAt(g, m, T) ==
  /\ \A x \in T : SheetId(m, x) \in g.sheets
  /\ \A x, y \in T : y.path \in x.imports => <<SheetId(m, x), SheetId(m, y)>> \in g.imports
SheetsIn == \A m \in Modules :
  last["sheets"][m] # None => SheetsAt(graph, m, Sources[m][last["sheets"][m]].sheets)

LEMMA FilesAsWritten ==
  ASSUME SheetsAsWritten, NEW g, NEW m \in Modules, disk[m] \in Contents[m], FilesIn(g, m)
  PROVE  SheetsAt(g, m, Sources[m][disk[m]].sheets)
<1>1. PICK l, T : l = Parse(m).sheets /\ T = Sources[m][disk[m]].sheets
  OBVIOUS
<1>2. Lists(l, T)
  BY <1>1 DEF SheetsAsWritten, Parse
<1>3. PICK n \in Nat : DOMAIN l = 1 .. n
  BY <1>1, ParsedLists
<1>4. FilesFound(g, m, l, n)
  BY <1>1, <1>3 DEF FilesIn
<1>5. ASSUME NEW x \in T PROVE SheetId(m, x) \in g.sheets
  <2>1. PICK i \in 1 .. n : l[i].path = x.path
    BY <1>2, <1>3 DEF Lists
  <2>2. SheetId(m, x) = SheetId(m, l[i])
    BY <2>1 DEF SheetId
  <2>3. QED
    BY <1>4, <2>2 DEF FilesFound
<1>6. ASSUME NEW x \in T, NEW y \in T, y.path \in x.imports
      PROVE  <<SheetId(m, x), SheetId(m, y)>> \in g.imports
  <2>1. PICK i, j \in 1 .. n : /\ j <= i /\ l[i].path = x.path /\ l[j].path = y.path
                               /\ y.path \in l[i].imports
    BY <1>2, <1>3, <1>6 DEF Lists
  <2>2. SheetId(m, x) = SheetId(m, l[i]) /\ SheetId(m, y) = SheetId(m, l[j])
    BY <2>1 DEF SheetId
  <2>3. QED
    BY <1>4, <2>1, <2>2 DEF FilesFound
<1>7. QED
  BY <1>1, <1>5, <1>6 DEF SheetsAt

LEMMA SheetsInit ==
  ASSUME Init
  PROVE  SheetsIn
<1>1. last = [l \in Layers |-> [m \in Modules |-> None]]
  BY DEF Init, GraphInit
<1>2. QED
  BY <1>1 DEF SheetsIn, Layers

\* Stylesheets stay, whoever is deleted.
LEMMA SheetsStay ==
  ASSUME SheetsIn, graph.sheets \subseteq graph'.sheets, graph.imports \subseteq graph'.imports,
         \A m \in Modules : last'["sheets"][m] \in {None, last["sheets"][m]}
  PROVE  SheetsIn'
<1>1. ASSUME NEW m \in Modules, last'["sheets"][m] # None
      PROVE  SheetsAt(graph', m, Sources[m][last'["sheets"][m]].sheets)
  <2>1. last'["sheets"][m] = last["sheets"][m]
    BY <1>1
  <2>2. SheetsAt(graph, m, Sources[m][last["sheets"][m]].sheets)
    BY <1>1, <2>1 DEF SheetsIn
  <2>3. SheetsAt(graph', m, Sources[m][last["sheets"][m]].sheets)
    BY <2>2 DEF SheetsAt
  <2>4. QED
    BY <2>1, <2>3
<1>2. QED
  BY <1>1 DEF SheetsIn

LEMMA SheetsWrittenIn ==
  ASSUME SheetsAsWritten, HistOK, SheetsIn, SheetsMove
  PROVE  SheetsIn'
<1>1. PICK S \in SUBSET Modules :
        /\ \A m \in S : disk[m] \in Contents[m] /\ FilesIn(graph', m)
        /\ last' = [last EXCEPT !["sheets"] = [m \in Modules |-> IF m \in S THEN disk[m] ELSE @[m]]]
  BY DEF SheetsMove
<1>2. \A m \in Modules : last'["sheets"][m] = IF m \in S THEN disk[m] ELSE last["sheets"][m]
  BY <1>1 DEF HistOK, Layers
<1>3. ASSUME NEW m \in Modules, last'["sheets"][m] # None
      PROVE  SheetsAt(graph', m, Sources[m][last'["sheets"][m]].sheets)
  <2>1. CASE m \in S
    BY <1>1, <1>2, <2>1, FilesAsWritten
  <2>2. CASE m \notin S
    <3>1. SheetsAt(graph, m, Sources[m][last["sheets"][m]].sheets)
      BY <1>2, <1>3, <2>2 DEF SheetsIn
    <3>2. SheetsAt(graph', m, Sources[m][last["sheets"][m]].sheets)
      BY <3>1 DEF SheetsAt, SheetsMove, BatchWritten
    <3>3. QED
      BY <1>2, <2>2, <3>2
  <2>3. QED
    BY <2>1, <2>2
<1>4. QED
  BY <1>3 DEF SheetsIn

LEMMA SheetsStep ==
  ASSUME SheetsAsWritten, HistOK, SheetsIn, GraphMove
  PROVE  SheetsIn'
<1>1. CASE QuietStep
  BY <1>1, SheetsStay DEF QuietStep
<1>2. ASSUME NEW l \in Graphic, NEW m, LayerWritten(l, m)
      PROVE  \A y \in Modules : last'["sheets"][y] \in {None, last["sheets"][y]}
  <2>1. l \in Layers /\ l # "sheets"
    BY DEF Graphic, Layers
  <2>2. Afresh(l, m)
    BY <1>2, <2>1, AfreshIs
  <2>3. QED
    BY <2>1, <2>2 DEF Afresh, Layers
<1>3. CASE ModelsMove
  <2>1. PICK m \in Modules : LayerWritten("models", m) /\ ModelsStep(m)
    BY <1>3 DEF ModelsMove
  <2>2. SameSheets(graph, graph')
    BY <2>1 DEF ModelsStep, ModelsAdded
  <2>3. \A y \in Modules : last'["sheets"][y] \in {None, last["sheets"][y]}
    BY <1>2, <2>1 DEF Graphic
  <2>4. QED
    BY <2>2, <2>3, SheetsStay DEF SameSheets
<1>4. CASE ViewsMove
  <2>1. PICK m \in Modules : LayerWritten("views", m) /\ ViewsStep(m)
    BY <1>4 DEF ViewsMove
  <2>2. SameSheets(graph, graph')
    BY <2>1 DEF ViewsStep, ViewsAdded
  <2>3. \A y \in Modules : last'["sheets"][y] \in {None, last["sheets"][y]}
    BY <1>2, <2>1 DEF Graphic
  <2>4. QED
    BY <2>2, <2>3, SheetsStay DEF SameSheets
<1>5. CASE JsMove
  <2>1. PICK m \in Modules : LayerWritten("js", m) /\ JsStep(m)
    BY <1>5 DEF JsMove
  <2>2. SameSheets(graph, graph')
    BY <2>1 DEF JsStep, CompsAdded, PatchesAdded, SameSheets
  <2>3. \A y \in Modules : last'["sheets"][y] \in {None, last["sheets"][y]}
    BY <1>2, <2>1 DEF Graphic
  <2>4. QED
    BY <2>2, <2>3, SheetsStay DEF SameSheets
<1>6. CASE SheetsMove
  BY <1>6, SheetsWrittenIn
<1>7. CASE EndMove
  <2>1. PICK gone \in SUBSET Modules :
          /\ Dropped(graph, graph', gone)
          /\ last' = [l \in Layers |-> [m \in Modules |-> IF m \in gone THEN None ELSE last[l][m]]]
    BY <1>7 DEF EndMove
  <2>2. QED
    BY <2>1, SheetsStay DEF Dropped, SameSheets, Layers
<1>8. CASE DeleteMove
  <2>1. PICK r \in Repos :
          /\ Deleted(graph, graph', IndexedOf(graph, r))
          /\ last' = [l \in Layers |-> [m \in Modules |->
                        IF m \in Home(r) /\ l # "sheets" THEN None ELSE last[l][m]]]
    BY <1>8 DEF DeleteMove
  <2>2. SameSheets(graph, graph') /\ \A m \in Modules : last'["sheets"][m] = last["sheets"][m]
    BY <2>1 DEF Deleted, Layers
  <2>3. QED
    BY <2>2, SheetsStay DEF SameSheets
<1>9. QED
  BY <1>1, <1>3, <1>4, <1>5, <1>6, <1>7, <1>8 DEF GraphMove

\* They are answered, with what they import.
ImportsOf(x) == {e[2] : e \in {e \in graph.imports : e[1] = x}}

LEMMA SheetsAnswered ==
  ASSUME SheetsIn, NEW m \in Written("sheets")
  PROVE  LET shown == ResolveStylesheet(m) IN
         /\ {s.path : s \in Sheets(m)} \subseteq {x[1] : x \in shown}
         /\ \A s, t \in Sheets(m) : t.path \in s.imports =>
              \E x \in shown : x[1] = s.path /\ [path |-> t.path, module |-> m] \in x[2]
<1>1. SheetsAt(graph, m, Sheets(m))
  BY DEF SheetsIn, Written, Sheets, SaidIn
<1>2. PICK shown : shown = ResolveStylesheet(m)
  OBVIOUS
<1>3. ASSUME NEW s \in Sheets(m) PROVE <<s.path, ImportsOf(SheetId(m, s))>> \in shown
  <2>1. SheetId(m, s) \in {x \in graph.sheets : x.module = m} /\ SheetId(m, s).path = s.path
    BY <1>1 DEF SheetsAt, SheetId
  <2>2. shown = {<<x.path, ImportsOf(x)>> : x \in {x \in graph.sheets : x.module = m}}
    BY <1>2 DEF ResolveStylesheet, ImportsOf
  <2>3. QED
    BY <2>1, <2>2
<1>4. {s.path : s \in Sheets(m)} \subseteq {x[1] : x \in shown}
  <2>1. ASSUME NEW s \in Sheets(m) PROVE \E x \in shown : x[1] = s.path
    <3>1. PICK x : x = <<s.path, ImportsOf(SheetId(m, s))>>
      OBVIOUS
    <3>2. x \in shown /\ x[1] = s.path
      BY <1>3, <3>1
    <3>3. QED
      BY <3>2
  <2>2. QED
    BY <2>1
<1>5. ASSUME NEW s \in Sheets(m), NEW t \in Sheets(m), t.path \in s.imports
      PROVE  \E x \in shown : x[1] = s.path /\ [path |-> t.path, module |-> m] \in x[2]
  <2>1. <<SheetId(m, s), SheetId(m, t)>> \in graph.imports
    BY <1>1, <1>5 DEF SheetsAt
  <2>2. PICK e : e = <<SheetId(m, s), SheetId(m, t)>>
    OBVIOUS
  <2>3. e \in graph.imports /\ e[1] = SheetId(m, s) /\ e[2] = SheetId(m, t)
    BY <2>1, <2>2
  <2>4. SheetId(m, t) \in ImportsOf(SheetId(m, s))
    BY <2>3 DEF ImportsOf
  <2>5. QED
    BY <1>3, <2>4 DEF SheetId
<1>6. QED
  BY <1>2, <1>4, <1>5

-----------------------------------------------------------------------------
(* What the tools answer is what the sources say                           *)

\* The models that a module defines, and those that it extends.
Defined(m)  == {x.name : x \in {x \in DOMAIN graph.models : x.module = m /\ graph.models[x].def}}
Extended(m) == {x.name : x \in {x \in DOMAIN graph.models : x.module = m /\ ~graph.models[x].def}}

LEMMA DescribeIs ==
  ASSUME NEW m \in Modules, graph.mods[m] # "absent"
  PROVE  /\ DescribeModule(m).defines = Defined(m)
         /\ DescribeModule(m).extends = Extended(m)
         /\ DescribeModule(m).patches = Cardinality({x \in graph.patches : x.module = m})
<1>1. PICK models : models = {x \in DOMAIN graph.models : x.module = m}
  OBVIOUS
<1>2. /\ DescribeModule(m).defines = {x.name : x \in {x \in models : graph.models[x].def}}
      /\ DescribeModule(m).extends = {x.name : x \in {x \in models : ~graph.models[x].def}}
      /\ DescribeModule(m).patches = Cardinality({x \in graph.patches : x.module = m})
  BY <1>1 DEF DescribeModule
<1>3. /\ {x \in models : graph.models[x].def} = {x \in DOMAIN graph.models : x.module = m /\ graph.models[x].def}
      /\ {x \in models : ~graph.models[x].def} = {x \in DOMAIN graph.models : x.module = m /\ ~graph.models[x].def}
  BY <1>1
<1>4. QED
  BY <1>2, <1>3 DEF Defined, Extended

LEMMA DefinesAre ==
  ASSUME WrittenOK, NEW m \in Written("models")
  PROVE  Defines(m) \subseteq Defined(m)
<1>1. ASSUME NEW d \in Classes(m), IsDefinition(d) PROVE d.name \in Defined(m)
  <2>1. ClassAt(graph, m, d, Placed("models", m))
    BY ClassIsThere
  <2>2. /\ ModelId(m, d) \in DOMAIN graph.models /\ graph.models[ModelId(m, d)].def
        /\ ModelId(m, d).module = m /\ ModelId(m, d).name = d.name
    BY <1>1, <2>1 DEF ClassAt, ModelId
  <2>3. QED
    BY <2>2 DEF Defined
<1>2. QED
  BY <1>1 DEF Defines, IsDefinition

LEMMA NothingElseIs ==
  ASSUME WrittenOK, ModelsExact, NEW m \in Written("models"), m \in pure["models"]
  PROVE  NothingElseIsFound(m)
<1>1. m \in Modules /\ last["models"][m] # None
  BY DEF Written
<1>2. StemsFrom(graph, m, Classes(m))
  BY <1>1 DEF ModelsExact, HadClasses
<1>3. \A d \in Classes(m) : graph.mods[m] = "indexed" /\ ClassAt(graph, m, d, Placed("models", m))
  BY ClassIsThere
<1>4. graph.mods[m] # "absent"
  <2>1. ModelsAt(graph, m, last["models"][m], Placed("models", m))
    BY <1>1 DEF WrittenOK, Whereabouts, ModelsIn
  <2>2. QED
    BY <2>1 DEF ModelsAt
<1>5. ASSUME NEW x \in DOMAIN graph.models, x.module = m
      PROVE  /\ \E d \in Classes(m) : d.name = x.name
             /\ graph.models[x].def <=> x.name \in Defines(m)
  <2>1. x \in ModelIds(m, Classes(m))
    BY <1>2, <1>5 DEF StemsFrom
  <2>2. PICK c \in Classes(m) : x = ModelId(m, c)
    BY <2>1 DEF ModelIds
  <2>3. x.name = c.name
    BY <2>2 DEF ModelId
  <2>4. ASSUME graph.models[x].def PROVE x.name \in Defines(m)
    <3>1. PICK d \in Classes(m) : ModelId(m, d) = x /\ IsDefinition(d)
      BY <1>2, <1>5, <2>4 DEF StemsFrom
    <3>2. d.name = x.name
      BY <3>1 DEF ModelId
    <3>3. QED
      BY <3>1, <3>2 DEF Defines, IsDefinition
  <2>5. ASSUME x.name \in Defines(m) PROVE graph.models[x].def
    <3>1. PICK d \in Classes(m) : IsDefinition(d) /\ d.name = x.name
      BY <2>5 DEF Defines, IsDefinition
    <3>2. ModelId(m, d) = x
      BY <2>2, <2>3, <3>1 DEF ModelId
    <3>3. QED
      BY <1>3, <3>1, <3>2 DEF ClassAt
  <2>6. QED
    BY <2>2, <2>3, <2>4, <2>5
<1>6. Defined(m) = Defines(m)
  <2>1. Defined(m) \subseteq Defines(m)
    BY <1>5 DEF Defined
  <2>2. QED
    BY <2>1, DefinesAre
<1>7. Extended(m) = {d.name : d \in Classes(m)} \ Defines(m)
  <2>1. Extended(m) \subseteq {d.name : d \in Classes(m)} \ Defines(m)
    BY <1>5 DEF Extended
  <2>2. ASSUME NEW d \in Classes(m), d.name \notin Defines(m) PROVE d.name \in Extended(m)
    <3>1. PICK x : x = ModelId(m, d)
      OBVIOUS
    <3>2. x \in DOMAIN graph.models /\ x.module = m /\ x.name = d.name
      BY <1>3, <3>1 DEF ClassAt, ModelId
    <3>3. ~graph.models[x].def
      BY <1>5, <2>2, <3>2
    <3>4. QED
      BY <3>2, <3>3 DEF Extended
  <2>3. QED
    BY <2>1, <2>2
<1>8. {<<x.model, x.name>> : x \in {x \in DOMAIN graph.fields : x.module = m}}
        = UNION {{d.name} \X (DOMAIN d.fields) : d \in Classes(m)}
  <2>1. ASSUME NEW x \in DOMAIN graph.fields, x.module = m
        PROVE  \E d \in Classes(m) : <<x.model, x.name>> \in {d.name} \X (DOMAIN d.fields)
    <3>1. x \in Fields(m, Classes(m))
      BY <1>2, <2>1 DEF StemsFrom
    <3>2. PICK d \in Classes(m) : x \in {Member(m, d, n) : n \in DOMAIN d.fields}
      BY <3>1 DEF Fields
    <3>3. QED
      BY <3>2 DEF Member
  <2>2. ASSUME NEW d \in Classes(m), NEW n \in DOMAIN d.fields
        PROVE  \E x \in DOMAIN graph.fields : x.module = m /\ x.model = d.name /\ x.name = n
    <3>1. Member(m, d, n) \in DOMAIN graph.fields
      BY <1>3 DEF ClassAt
    <3>2. QED
      BY <3>1 DEF Member
  <2>3. QED
    BY <2>1, <2>2
<1>9. {<<x.model, x.name>> : x \in {x \in DOMAIN graph.methods : x.module = m}}
        = UNION {{d.name} \X (DOMAIN d.methods) : d \in Classes(m)}
  <2>1. ASSUME NEW x \in DOMAIN graph.methods, x.module = m
        PROVE  \E d \in Classes(m) : <<x.model, x.name>> \in {d.name} \X (DOMAIN d.methods)
    <3>1. x \in Methods(m, Classes(m))
      BY <1>2, <2>1 DEF StemsFrom
    <3>2. PICK d \in Classes(m) : x \in {Member(m, d, n) : n \in DOMAIN d.methods}
      BY <3>1 DEF Methods
    <3>3. QED
      BY <3>2 DEF Member
  <2>2. ASSUME NEW d \in Classes(m), NEW n \in DOMAIN d.methods
        PROVE  \E x \in DOMAIN graph.methods : x.module = m /\ x.model = d.name /\ x.name = n
    <3>1. Member(m, d, n) \in DOMAIN graph.methods
      BY <1>3 DEF ClassAt
    <3>2. QED
      BY <3>1 DEF Member
  <2>3. QED
    BY <2>1, <2>2
<1>10. QED
  BY <1>1, <1>4, <1>6, <1>7, <1>8, <1>9, DescribeIs DEF NothingElseIsFound

\* The Python part of a module, its views, and its JavaScript.
LEMMA ModelsAnswered ==
  ASSUME ReadAsWritten, HistOK, GraphOK, WrittenOK, DataOK(graph), ModelsExact, NEW m \in Written("models")
  PROVE  /\ CheckModuleExists(m) = [indexed |-> TRUE, edition |-> Edition[m]]
         /\ MembersAreFound(m)
         /\ Defines(m) \subseteq DescribeModule(m).defines
         /\ m \in pure["models"] => NothingElseIsFound(m)
<1>1. m \in Modules /\ graph.mods[m] = "indexed"
  <2>1. m \in Modules /\ ModelsAt(graph, m, last["models"][m], Placed("models", m))
    BY DEF WrittenOK, Whereabouts, ModelsIn, Written
  <2>2. QED
    BY <2>1 DEF ModelsAt
<1>2. CheckModuleExists(m) = [indexed |-> TRUE, edition |-> Edition[m]]
  BY <1>1 DEF CheckModuleExists
<1>3. Defines(m) \subseteq DescribeModule(m).defines
  BY <1>1, DefinesAre, DescribeIs
<1>4. QED
  BY <1>2, <1>3, MembersAre, NothingElseIs

LEMMA ViewsAnswered ==
  ASSUME WrittenOK, NEW m \in Written("views"), NEW v \in Views(m)
  PROVE  \E x \in ViewNodes(graph, v.kind, v.xmlid) : graph.views[x].module = m
<1>1. ViewAt(graph, m, v, Placed("views", m), overtaken)
  BY DEF Written, Views, SaidIn, WrittenOK, Whereabouts, ViewsIn, ViewsAt
<1>2. PICK x \in DOMAIN graph.views : Key(x) = Key(v) /\ Mine(graph, m, x)
  BY <1>1 DEF ViewAt
<1>3. QED
  BY <1>2 DEF Key, Mine, ViewNodes

LEMMA PatchesCounted ==
  ASSUME ReadAsWritten, HistOK, WrittenOK, PatchesExact, NEW m \in Written("js"), m \in pure["js"]
  PROVE  Cardinality({x \in graph.patches : x.module = m}) = Cardinality(Patches(m))
<1>1. PICK s : s = last["js"][m] /\ m \in Modules /\ s # None /\ s \in Contents[m]
  BY DEF Written, HistOK, Layers
<1>2. PICK D : D = Patches(m)
  OBVIOUS
<1>3. D = Sources[m][s].patches
  BY <1>1, <1>2 DEF Patches, SaidIn
<1>4. IsFiniteSet(D)
  <2>1. D = ToSet(Results[m][s].patches)
    BY <1>1, <1>3 DEF ReadAsWritten
  <2>2. QED
    BY <1>1, <2>1, FiniteList, ResultsAssumption
<1>5. ASSUME NEW p \in D PROVE p = [target |-> p.target, name |-> p.name]
  <2>1. p \in Said(m, s).patches
    BY <1>1, <1>3 DEF Sources
  <2>2. PICK f : p \in {[target |-> n.target, name |-> Or(n.name, f.stem)] :
                         n \in {n \in ToSet(f.nodes) : n.call \in {"patch", "include"}}}
    BY <2>1 DEF Said
  <2>3. PICK t, n : p = [target |-> t, name |-> n]
    BY <2>2
  <2>4. QED
    BY <2>3
<1>6. PICK T : T = {x \in graph.patches : x.module = m}
  OBVIOUS
<1>7. T = PatchIds(m, D)
  <2>1. T \subseteq PatchIds(m, D)
    BY <1>1, <1>2, <1>6 DEF PatchesExact, HadPatches
  <2>2. \A p \in D : PatchId(m, p) \in graph.patches
    BY <1>1, <1>3 DEF WrittenOK, Whereabouts, JsIn, JsAt, PatchAt
  <2>3. \A p \in D : PatchId(m, p) \in T
    BY <1>6, <2>2 DEF PatchId
  <2>4. QED
    BY <2>1, <2>3 DEF PatchIds
<1>8. PICK h : h = [p \in D |-> PatchId(m, p)]
  OBVIOUS
<1>9. h \in [D -> T] /\ \A x \in T : \E p \in D : h[p] = x
  BY <1>7, <1>8 DEF PatchIds
<1>10. ASSUME NEW p \in D, NEW q \in D, h[p] = h[q] PROVE p = q
  <2>1. p.target = q.target /\ p.name = q.name
    BY <1>8, <1>10 DEF PatchId
  <2>2. QED
    BY <1>5, <2>1
<1>11. h \in Surjection(D, T) /\ h \in Injection(D, T)
  BY <1>9, <1>10 DEF Surjection, Injection, IsInjective
<1>12. Cardinality(T) = Cardinality(D)
  BY <1>4, <1>11, FS_Surjection
<1>13. QED
  BY <1>2, <1>6, <1>12

LEMMA JsAnswered ==
  ASSUME ReadAsWritten, HistOK, GraphOK, WrittenOK, DataOK(graph), PatchesExact, IndexedOK,
         NEW m \in Written("js")
  PROVE  /\ CodeVersion > 13 => {c.name : c \in Comps(m)} \subseteq
                                  {x.name : x \in Rows(ListOwlComponents(m, None))}
         /\ {[target |-> p.target, name |-> p.name, module |-> m] : p \in Patches(m)}
              \subseteq Rows(ListJsPatches(None, m))
         /\ m \in pure["js"] => DescribeModule(m).patches = Cardinality(Patches(m))
<1>1. m \in Modules /\ JsAt(graph, m, last["js"][m], Placed("js", m)) /\ last["js"][m] # None
  BY DEF Written, WrittenOK, Whereabouts, JsIn
<1>2. ASSUME CodeVersion > 13, NEW c \in Comps(m)
      PROVE  \E x \in Rows(ListOwlComponents(m, None)) : x.name = c.name
  <2>1. CompId(m, c) \in DOMAIN graph.comps
    BY <1>1 DEF JsAt, CompAt, Comps, SaidIn
  <2>2. CompId(m, c) \in CompsOf(m) /\ CompId(m, c).name = c.name
    BY <2>1 DEF CompsOf, CompId
  <2>3. QED
    BY <1>1, <1>2, <2>2, CompsListed
<1>3. ASSUME NEW p \in Patches(m)
      PROVE  [target |-> p.target, name |-> p.name, module |-> m] \in Rows(ListJsPatches(None, m))
  <2>1. PatchId(m, p) \in graph.patches /\ PatchId(m, p).module = m
    BY <1>1, <1>3 DEF JsAt, PatchAt, Patches, SaidIn, PatchId
  <2>2. PatchId(m, p) \in InModule(graph.patches, m)
    BY <2>1 DEF InModule
  <2>3. PatchId(m, p) \in Rows(ListJsPatches(None, m))
    BY <2>2, PatchesListed DEF ListsAll
  <2>4. QED
    BY <2>3 DEF PatchId
<1>4. ASSUME m \in pure["js"] PROVE DescribeModule(m).patches = Cardinality(Patches(m))
  <2>1. graph.mods[m] # "absent"
    BY <1>1 DEF IndexedOK, Graphic
  <2>2. QED
    BY <1>1, <1>4, <2>1, DescribeIs, PatchesCounted
<1>5. QED
  BY <1>2, <1>3, <1>4

LEMMA AnswersAre ==
  ASSUME ReadAsWritten, HistOK, GraphOK, WrittenOK, DataOK(graph), ModelsExact, PatchesExact, IndexedOK,
         SheetsIn
  PROVE  AnswersMatchSources
BY ModelsAnswered, ViewsAnswered, JsAnswered, SheetsAnswered DEF AnswersMatchSources

LEMMA AtWorkInit ==
  ASSUME Init
  PROVE  AtWork
BY DEF Init, GraphInit, AtWork, Begun, IdleWorker

\* A written module is answered by every tool as its sources were, whatever the
\* other repositories do: that it exists, its classes with their fields and
\* methods, its views, components, patches and stylesheets; and nothing else is,
\* when all that was written of it is this content (_write_parse_result,
\* _write_js_graph_result, delete_modules_scoped, gc_stale_modules; the resolve,
\* list and describe tools).
THEOREM AnswersAlwaysMatch ==
  Unambiguous /\ ReadAsWritten /\ SheetsAsWritten /\ OwnIds /\ Spec => []AnswersMatchSources
<1> SUFFICES ASSUME Unambiguous, ReadAsWritten, SheetsAsWritten, OwnIds
             PROVE  Spec => []AnswersMatchSources
  OBVIOUS
<1> DEFINE Base  == SoundInv /\ RunsAreOK /\ GraphOK /\ HistOK /\ WrittenOK /\ DataOK(graph)
           Exact == ModelsExact /\ PatchesExact /\ IndexedOK /\ AtWork /\ SheetsIn
           Inv   == Base /\ Exact
<1>1. Init => Inv
  BY SoundInit, GraphOKInit, HistInit, WrittenInit, DataInit, StemsInit, AtWorkInit, SheetsInit
<1>2. Inv /\ [Next]_vars => Inv'
  <2> SUFFICES ASSUME Inv, [Next]_vars PROVE Inv'
    OBVIOUS
  <2>1. GraphMove
    BY MovesAre DEF GraphOK
  <2>2. Base'
    BY <2>1, SoundStep, GraphOKStep, HistStep, WrittenStep, DataStep
  <2>3. Exact'
    BY <2>1, StemsStep, AtWorkStep, IndexedStep, SheetsStep
  <2>4. QED
    BY <2>2, <2>3
<1>3. Inv => AnswersMatchSources
  BY AnswersAre
<1>4. QED
  BY <1>1, <1>2, <1>3, PTL DEF Spec

-----------------------------------------------------------------------------
(* What is near along the edges of the inheritance                         *)

LEMMA WithinFold ==
  ASSUME NEW edges, NEW starts, NEW n \in Nat
  PROVE  Ends(Within(edges, starts, n), "near", edges, starts, {}, n)
<1> DEFINE q == [i \in 1 .. n |-> i]
           Eq(h) == h = [s \in SUBSET (DOMAIN q) |-> IF s = {} THEN {}
                           ELSE Near(edges, starts, h[s \ {Max(s)}])]
<1>1. Within(edges, starts, n) = (CHOOSE h : Eq(h))[DOMAIN q]
  BY DEF Within, FoldLeft, MapThenFoldSet, Near
<1>2. PICK kind : kind = "near"
  OBVIOUS
<1>3. \A h : Eq(h) <=> IsFold(h, kind, edges, starts, {}, SUBSET (1 .. n))
  BY <1>2 DEF IsFold, Put, LastOf
<1>4. kind # "order" /\ DOMAIN q = 1 .. n
  BY <1>2
<1> HIDE DEF q, Eq
<1>5. \E h : Eq(h)
  BY <1>3, <1>4, ListFold
<1>6. PICK h : h = (CHOOSE x : Eq(x)) /\ Eq(h)
  BY <1>5
<1>7. IsFold(h, kind, edges, starts, {}, SUBSET (1 .. n))
  BY <1>3, <1>6
<1>8. Ends(h[1 .. n], kind, edges, starts, {}, n)
  BY <1>4, <1>7, FoldTrace
<1>9. QED
  BY <1>1, <1>2, <1>4, <1>6, <1>8

LEMMA WithinNext ==
  ASSUME NEW edges, NEW starts, NEW n \in Nat
  PROVE  Within(edges, starts, n + 1) = Near(edges, starts, Within(edges, starts, n))
<1>1. PICK t : Trace(t, "near", edges, starts, {}, n) /\ t[n] = Within(edges, starts, n)
  BY WithinFold DEF Ends
<1>2. PICK u : Trace(u, "near", edges, starts, {}, n + 1) /\ u[n + 1] = Within(edges, starts, n + 1)
  BY WithinFold DEF Ends
<1>3. \A i \in 1 .. n : t[i] = Near(edges, starts, t[i - 1])
  BY <1>1 DEF Trace, Put
<1>4. \A i \in 1 .. (n + 1) : u[i] = Near(edges, starts, u[i - 1])
  BY <1>2 DEF Trace, Put
<1> DEFINE T == {k \in Nat : k <= n => t[k] = u[k]}
<1>5. 0 \in T
  BY <1>1, <1>2 DEF Trace
<1>6. ASSUME NEW k \in Nat, k \in T PROVE k + 1 \in T
  <2>1. SUFFICES ASSUME k + 1 <= n PROVE t[k + 1] = u[k + 1]
    OBVIOUS
  <2>2. k + 1 \in 1 .. n /\ k + 1 \in 1 .. (n + 1) /\ (k + 1) - 1 = k /\ k <= n
    BY <2>1
  <2>3. t[k] = u[k]
    BY <1>6, <2>2
  <2>4. QED
    BY <1>3, <1>4, <2>2, <2>3
<1>7. Nat \subseteq T
  <2> HIDE DEF T
  <2>1. QED
    BY <1>5, <1>6, Induction
<1>8. t[n] = u[n]
  BY <1>7
<1>9. n + 1 \in 1 .. (n + 1) /\ (n + 1) - 1 = n
  OBVIOUS
<1>10. QED
  BY <1>1, <1>2, <1>4, <1>8, <1>9

\* y is one step away from a member of S.
StepFrom(edges, S, y) == \E x \in S : <<x, y>> \in edges

LEMMA NearHas ==
  ASSUME NEW edges, NEW starts, NEW near
  PROVE  near \subseteq Near(edges, starts, near)
         /\ \A y : StepFrom(edges, near \cup starts, y) => y \in Near(edges, starts, near)
<1>1. ASSUME NEW y, StepFrom(edges, near \cup starts, y) PROVE y \in Near(edges, starts, near)
  <2>1. PICK x \in near \cup starts : <<x, y>> \in edges
    BY <1>1 DEF StepFrom
  <2>2. PICK e : e = <<x, y>>
    OBVIOUS
  <2>3. e \in edges /\ e[1] \in near \cup starts /\ e[2] = y
    BY <2>1, <2>2
  <2>4. QED
    BY <2>3 DEF Near
<1>2. QED
  BY <1>1 DEF Near

\* What is one step away, two or three.
LEMMA ThreeSteps ==
  ASSUME NEW edges, NEW starts, NEW one, NEW two, NEW three,
         \A y \in one : StepFrom(edges, starts, y),
         \A y \in two : StepFrom(edges, one, y),
         \A y \in three : StepFrom(edges, two, y)
  PROVE  /\ one \cup two \cup three \subseteq Within(edges, starts, 3)
         /\ one \cup two \cup three \subseteq Within(edges, starts, 5)
<1>1. PICK w : w = [i \in 0 .. 5 |-> Within(edges, starts, i)]
  OBVIOUS
<1>2. ASSUME NEW i \in 0 .. 4
      PROVE  /\ w[i] \subseteq w[i + 1]
             /\ \A y : StepFrom(edges, w[i] \cup starts, y) => y \in w[i + 1]
  <2>1. w[i] = Within(edges, starts, i) /\ w[i + 1] = Within(edges, starts, i + 1) /\ i \in Nat
    BY <1>1
  <2>2. w[i + 1] = Near(edges, starts, w[i])
    BY <2>1, WithinNext
  <2>3. /\ w[i] \subseteq Near(edges, starts, w[i])
        /\ \A y : StepFrom(edges, w[i] \cup starts, y) => y \in Near(edges, starts, w[i])
    BY NearHas
  <2>4. QED
    BY <2>2, <2>3
<1>3. \A S, R, y : S \subseteq R /\ StepFrom(edges, S, y) => StepFrom(edges, R, y)
  BY DEF StepFrom
<1>4. one \subseteq w[1]
  <2>1. 0 \in 0 .. 4 /\ 0 + 1 = 1
    OBVIOUS
  <2>2. QED
    BY <1>2, <1>3, <2>1
<1>5. two \subseteq w[2]
  <2>1. 1 \in 0 .. 4 /\ 1 + 1 = 2
    OBVIOUS
  <2>2. one \subseteq w[1] \cup starts
    BY <1>4
  <2>3. QED
    BY <1>2, <1>3, <2>1, <2>2
<1>6. three \subseteq w[3]
  <2>1. 2 \in 0 .. 4 /\ 2 + 1 = 3
    OBVIOUS
  <2>2. two \subseteq w[2] \cup starts
    BY <1>5
  <2>3. QED
    BY <1>2, <1>3, <2>1, <2>2
<1>7. w[1] \subseteq w[2] /\ w[2] \subseteq w[3] /\ w[3] \subseteq w[4] /\ w[4] \subseteq w[5]
  <2>1. /\ 1 \in 0 .. 4 /\ 1 + 1 = 2 /\ 2 \in 0 .. 4 /\ 2 + 1 = 3
        /\ 3 \in 0 .. 4 /\ 3 + 1 = 4 /\ 4 \in 0 .. 4 /\ 4 + 1 = 5
    OBVIOUS
  <2>2. QED
    BY <1>2, <2>1
<1>8. w[3] = Within(edges, starts, 3) /\ w[5] = Within(edges, starts, 5)
  BY <1>1
<1>9. QED
  BY <1>4, <1>5, <1>6, <1>7, <1>8

-----------------------------------------------------------------------------
(* The edges between the classes                                              *)

\* A class, as the module and what is said in it, and its node.
IdOf(p) == ModelId(p[1], p[2])
IdsOf(S) == {IdOf(q) : q \in S}
IsClass(p) == p = <<p[1], p[2]>> /\ p[1] \in Written("models") /\ p[2] \in Classes(p[1])
Lines == graph.inherits \cup {<<e[1], e[3]>> : e \in graph.delegates}
MixinsAbove(S) == Above(S, Mixins)
HostsAbove(S)  == Above(S, Hosts)

LEMMA LayerHas ==
  ASSUME NEW p \in Layer(Written("models"))
  PROVE  IsClass(p)
<1>1. PICK m \in Written("models") : p \in {m} \X Classes(m)
  BY DEF Layer
<1>2. PICK d \in Classes(m) : p = <<m, d>>
  BY <1>1
<1>3. QED
  BY <1>2 DEF IsClass

LEMMA AboveIs ==
  ASSUME NEW S, NEW q
  PROVE  /\ q \in MixinsAbove(S) =>
              /\ IsClass(q)
              /\ \E p \in S : Before("models", p[1], "models", q[1]) /\ q[2].name \in Mixins(p[2])
         /\ q \in HostsAbove(S) =>
              /\ IsClass(q)
              /\ \E p \in S : Before("models", p[1], "models", q[1]) /\ q[2].name \in Hosts(p[2])
<1>1. ASSUME q \in MixinsAbove(S)
      PROVE  \E p \in S : /\ q \in Layer(Written("models")) /\ Before("models", p[1], "models", q[1])
                          /\ q[2].name \in Mixins(p[2])
  BY <1>1 DEF MixinsAbove, Above, Before
<1>2. ASSUME q \in HostsAbove(S)
      PROVE  \E p \in S : /\ q \in Layer(Written("models")) /\ Before("models", p[1], "models", q[1])
                          /\ q[2].name \in Hosts(p[2])
  BY <1>2 DEF HostsAbove, Above, Before
<1>3. QED
  BY <1>1, <1>2, LayerHas

LEMMA ClassIsNear ==
  ASSUME WrittenOK, NEW p, IsClass(p), NEW q, IsClass(q), Before("models", p[1], "models", q[1])
  PROVE  /\ q[2].name \in Mixins(p[2]) => <<IdOf(p), IdOf(q)>> \in graph.inherits
         /\ q[2].name \in Hosts(p[2]) => <<IdOf(p), IdOf(q)>> \in Lines
<1>1. PICK m, d, y, c : m = p[1] /\ d = p[2] /\ y = q[1] /\ c = q[2]
  OBVIOUS
<1>2. m \in Written("models") /\ d \in Classes(m) /\ y \in Written("models") /\ c \in Classes(y)
  BY <1>1 DEF IsClass
<1>3. y \in Modules /\ ClassAt(graph, m, d, Placed("models", m))
  BY <1>2, ClassIsThere
<1>4. PICK e \in Placed("models", m) : e[1] = "models" /\ e[2] = y /\ e[3] = last["models"][y]
  BY <1>1, <1>3, BeforeIs DEF Graphic
<1>5. c \in Sources[e[2]][e[3]].classes
  BY <1>2, <1>4 DEF Classes, SaidIn
<1>6. /\ c.name \in d.inherit \ {d.name} => <<ModelId(m, d), ModelId(y, c)>> \in graph.inherits
      /\ \A x \in d.delegates : x[1] = c.name => <<ModelId(m, d), x[2], ModelId(y, c)>> \in graph.delegates
  BY <1>3, <1>4, <1>5 DEF ClassAt
<1>7. ASSUME c.name \in Mixins(d) PROVE <<ModelId(m, d), ModelId(y, c)>> \in graph.inherits
  BY <1>6, <1>7 DEF Mixins
<1>8. ASSUME NEW x \in d.delegates, x[1] = c.name PROVE <<ModelId(m, d), ModelId(y, c)>> \in Lines
  <2>1. PICK u : u = <<ModelId(m, d), x[2], ModelId(y, c)>>
    OBVIOUS
  <2>2. u \in graph.delegates /\ <<u[1], u[3]>> = <<ModelId(m, d), ModelId(y, c)>>
    BY <1>6, <1>8, <2>1
  <2>3. QED
    BY <2>2 DEF Lines
<1>9. ASSUME c.name \in Hosts(d) PROVE <<ModelId(m, d), ModelId(y, c)>> \in Lines
  BY <1>7, <1>8, <1>9 DEF Hosts, Lines
<1>10. QED
  BY <1>1, <1>7, <1>9 DEF IdOf

\* One step up the classes is one along the edges.
LEMMA AboveIsNear ==
  ASSUME WrittenOK, NEW S, \A p \in S : IsClass(p)
  PROVE  /\ \A y \in IdsOf(MixinsAbove(S)) : StepFrom(graph.inherits, IdsOf(S), y)
         /\ \A y \in IdsOf(HostsAbove(S)) : StepFrom(Lines, IdsOf(S), y)
<1>1. ASSUME NEW q \in MixinsAbove(S) PROVE StepFrom(graph.inherits, IdsOf(S), IdOf(q))
  <2>1. PICK p \in S : Before("models", p[1], "models", q[1]) /\ q[2].name \in Mixins(p[2])
    BY AboveIs
  <2>2. <<IdOf(p), IdOf(q)>> \in graph.inherits
    BY <2>1, AboveIs, ClassIsNear
  <2>3. QED
    BY <2>2 DEF StepFrom, IdsOf
<1>2. ASSUME NEW q \in HostsAbove(S) PROVE StepFrom(Lines, IdsOf(S), IdOf(q))
  <2>1. PICK p \in S : Before("models", p[1], "models", q[1]) /\ q[2].name \in Hosts(p[2])
    BY AboveIs
  <2>2. <<IdOf(p), IdOf(q)>> \in Lines
    BY <2>1, AboveIs, ClassIsNear
  <2>3. QED
    BY <2>2 DEF StepFrom, IdsOf
<1>3. QED
  BY <1>1, <1>2 DEF IdsOf

\* The tools reach what a class inherits, however its model is found.
LEMMA InheritedIsNear ==
  ASSUME WrittenOK, NEW p, IsClass(p), NEW starts, IdOf(p) \in starts
  PROVE  /\ \A q \in Inherited(p, Mixins) : IsClass(q) /\ IdOf(q) \in Within(graph.inherits, starts, 5)
         /\ \A q \in Inherited(p, Hosts) : IsClass(q) /\ IdOf(q) \in Within(Lines, starts, 3)
<1>1. IdsOf({p}) \subseteq starts
  BY DEF IdsOf
<1>2. \A S, y : \A edges : StepFrom(edges, IdsOf({p}), y) => StepFrom(edges, starts, y)
  BY <1>1 DEF StepFrom
<1>3. \A q \in Inherited(p, Mixins) : IsClass(q) /\ IdOf(q) \in Within(graph.inherits, starts, 5)
  <2>1. PICK one, two, three : /\ one = MixinsAbove({p}) /\ two = MixinsAbove(one)
                               /\ three = MixinsAbove(two)
    OBVIOUS
  <2>2. Inherited(p, Mixins) = one \cup two \cup three
    BY <2>1 DEF Inherited, MixinsAbove
  <2>3. \A q \in one \cup two \cup three : IsClass(q)
    BY <2>1, AboveIs
  <2>4. /\ \A y \in IdsOf(one) : StepFrom(graph.inherits, starts, y)
        /\ \A y \in IdsOf(two) : StepFrom(graph.inherits, IdsOf(one), y)
        /\ \A y \in IdsOf(three) : StepFrom(graph.inherits, IdsOf(two), y)
    BY <1>2, <2>1, <2>3, AboveIsNear
  <2>5. IdsOf(one) \cup IdsOf(two) \cup IdsOf(three) \subseteq Within(graph.inherits, starts, 5)
    BY <2>4, ThreeSteps
  <2>6. QED
    BY <2>2, <2>3, <2>5 DEF IdsOf
<1>4. \A q \in Inherited(p, Hosts) : IsClass(q) /\ IdOf(q) \in Within(Lines, starts, 3)
  <2>1. PICK one, two, three : /\ one = HostsAbove({p}) /\ two = HostsAbove(one)
                               /\ three = HostsAbove(two)
    OBVIOUS
  <2>2. Inherited(p, Hosts) = one \cup two \cup three
    BY <2>1 DEF Inherited, HostsAbove
  <2>3. \A q \in one \cup two \cup three : IsClass(q)
    BY <2>1, AboveIs
  <2>4. /\ \A y \in IdsOf(one) : StepFrom(Lines, starts, y)
        /\ \A y \in IdsOf(two) : StepFrom(Lines, IdsOf(one), y)
        /\ \A y \in IdsOf(three) : StepFrom(Lines, IdsOf(two), y)
    BY <1>2, <2>1, <2>3, AboveIsNear
  <2>5. IdsOf(one) \cup IdsOf(two) \cup IdsOf(three) \subseteq Within(Lines, starts, 3)
    BY <2>4, ThreeSteps
  <2>6. QED
    BY <2>2, <2>3, <2>5 DEF IdsOf
<1>5. QED
  BY <1>3, <1>4

-----------------------------------------------------------------------------
(* Inherited fields, and the paths through them                            *)

ParentNodes(model) == {x \in Within(Lines, ResolvedModels(graph, model), 3) : ~graph.models[x].unresolved}
FoundFields(model, f) ==
  {x \in DOMAIN graph.fields : x.name = f /\ \E p \in ParentNodes(model) : p.name = x.model}

LEMMA FoundFieldIs ==
  ASSUME DataOK(graph), NEW model, NEW f, FieldNodes(model, f) = {}, f \notin DOMAIN MagicFields,
         FoundFields(model, f) # {}
  PROVE  \E x \in FoundFields(model, f) : LookupField(model, f) = graph.fields[x]
<1>1. PICK S : S = FoundFields(model, f)
  OBVIOUS
<1>2. IsFiniteSet(S) /\ \A x \in S : x.module \in Modules /\ x.model \in Names
  BY <1>1, FS_Subset DEF FoundFields, DataOK, FieldsOK, IsMember
<1>3. PICK k : k = [x \in S |-> <<Alpha(x.model), x.module>>]
  OBVIOUS
<1>4. ASSUME NEW x \in S PROVE IsKey(k[x], 2)
  <2>1. x.module \in Modules /\ Modules \subseteq Nat
    BY <1>2, GraphAssumption
  <2>2. x.module \in Nat
    BY <2>1
  <2>3. Alpha(x.model) \in Nat
    BY <1>2, AlphaIs
  <2>4. k[x] = <<Alpha(x.model), x.module>>
    BY <1>3
  <2>5. PICK a, b \in Int : a = Alpha(x.model) /\ b = x.module
    BY <2>2, <2>3
  <2>6. k[x] = <<a, b>>
    BY <2>4, <2>5
  <2>7. QED
    BY <2>6 DEF IsKey
<1>5. PICK q : q = SortBy(S, KeyOrder(S, k))
  OBVIOUS
<1>6. Ordered(q, S, KeyOrder(S, k))
  BY <1>2, <1>4, <1>5, KeysSort
<1>7. q \in Seq(S) /\ q # <<>>
  <2>1. q \in Seq(S) /\ ToSet(q) = S
    BY <1>6, OrderedIs DEF Ordered
  <2>2. DOMAIN q # {}
    BY <1>1, <2>1 DEF ToSet
  <2>3. QED
    BY <2>1, <2>2
<1>8. Head(q) \in S
  BY <1>7, HeadTailProperties
<1>9. KeyOrder(S, k) = {p \in S \X S : Precedes(<<Alpha(p[1].model), p[1].module>>,
                                                <<Alpha(p[2].model), p[2].module>>)}
  BY <1>3 DEF KeyOrder
<1>10. LookupField(model, f) = graph.fields[Head(q)]
  <2>1. {x \in FieldsOf(model) : x.name = f} = {}
    BY DEF FieldNodes
  <2>2. InOrder(S, LAMBDA x : <<Alpha(x.model), x.module>>) = q
    BY <1>5, <1>9 DEF InOrder
  <2>3. S # {} /\ S = FoundFields(model, f)
    BY <1>1
  <2>4. QED
    BY <2>1, <2>2, <2>3 DEF LookupField, FoundFields, ParentNodes, Lines
<1>11. QED
  BY <1>1, <1>8, <1>10

\* Whatever is found is a field.
LEMMA LookedUp ==
  ASSUME DataOK(graph), NEW model, NEW f,
         FieldNodes(model, f) # {} \/ f \in DOMAIN MagicFields \/ FoundFields(model, f) # {}
  PROVE  IsField(LookupField(model, f)) /\ LookupField(model, f) # NotFound
<1>1. \A x \in DOMAIN graph.fields : IsField(graph.fields[x])
  BY DEF DataOK, FieldsOK
<1>2. CASE FieldNodes(model, f) # {}
  <2>1. \A x \in FieldNodes(model, f) : x \in DOMAIN graph.fields
    BY DEF FieldNodes, FieldsOf
  <2>2. QED
    BY <1>1, <1>2, <2>1, OwnFieldIs, FieldIsNoError
<1>3. CASE FieldNodes(model, f) = {} /\ f \in DOMAIN MagicFields
  <2>1. {x \in FieldsOf(model) : x.name = f} = {}
    BY <1>3 DEF FieldNodes
  <2>2. LookupField(model, f) = MagicFields[f]
    BY <1>3, <2>1 DEF LookupField
  <2>3. QED
    BY <1>3, <2>2, ToolsAssumption, FieldIsNoError
<1>4. CASE FieldNodes(model, f) = {} /\ f \notin DOMAIN MagicFields
  <2>1. \A x \in FoundFields(model, f) : x \in DOMAIN graph.fields
    BY DEF FoundFields
  <2>2. QED
    BY <1>1, <1>4, <2>1, FoundFieldIs, FieldIsNoError
<1>5. QED
  BY <1>2, <1>3, <1>4

KnownFields(p) == UNION {DOMAIN q[2].fields : q \in Inherited(p, Hosts) \cup {p}}

\* A field that a class inherits is known to its model.
LEMMA InheritedFieldIs ==
  ASSUME WrittenOK, DataOK(graph), NEW p, IsClass(p), NEW f \in KnownFields(p)
  PROVE  IsField(LookupField(p[2].name, f)) /\ LookupField(p[2].name, f) # NotFound
<1>1. PICK q \in Inherited(p, Hosts) \cup {p} : f \in DOMAIN q[2].fields
  BY DEF KnownFields
<1>2. IdOf(p) \in ResolvedModels(graph, p[2].name)
  BY ClassIsThere DEF IsClass, IdOf
<1>3. IsClass(q)
  BY <1>1, <1>2, InheritedIsNear
<1>4. PICK x : x = Member(q[1], q[2], f)
  OBVIOUS
<1>5. ClassAt(graph, q[1], q[2], Placed("models", q[1]))
  BY <1>3, ClassIsThere DEF IsClass
<1>6. /\ x \in DOMAIN graph.fields /\ x.name = f /\ x.model = q[2].name
      /\ ~graph.models[IdOf(q)].unresolved /\ IdOf(q).name = q[2].name
  BY <1>1, <1>4, <1>5 DEF ClassAt, Member, IdOf, ModelId
<1>7. CASE q = p
  <2>1. x \in FieldNodes(p[2].name, f)
    BY <1>6, <1>7 DEF FieldNodes, FieldsOf
  <2>2. QED
    BY <2>1, LookedUp
<1>8. CASE q \in Inherited(p, Hosts)
  <2>1. IdOf(q) \in ParentNodes(p[2].name)
    BY <1>2, <1>6, <1>8, InheritedIsNear DEF ParentNodes
  <2>2. x \in FoundFields(p[2].name, f)
    BY <1>6, <2>1 DEF FoundFields
  <2>3. QED
    BY <2>2, LookedUp
<1>9. QED
  BY <1>1, <1>7, <1>8

LEMMA ChainFold ==
  ASSUME NEW model, NEW path, NEW n \in Nat, n = Len(path), path # <<>>
  PROVE  Ends(TraverseFieldChain(model, path), "hop", path, [i \in 1 .. n |-> i],
              [model |-> model, field |-> None, error |-> None], n)
<1> DEFINE q == [i \in 1 .. n |-> i]
           base == [model |-> model, field |-> None, error |-> None]
           Eq(h) == h = [s \in SUBSET (DOMAIN q) |-> IF s = {} THEN base
                           ELSE Hop(path, h[s \ {Max(s)}], q[Max(s)])]
<1>1. TraverseFieldChain(model, path) = (CHOOSE h : Eq(h))[DOMAIN q]
  BY DEF TraverseFieldChain, FoldLeft, MapThenFoldSet, Hop
<1>2. PICK kind : kind = "hop"
  OBVIOUS
<1>3. \A h : Eq(h) <=> IsFold(h, kind, path, q, base, SUBSET (1 .. n))
  BY <1>2 DEF IsFold, Put, LastOf
<1>4. kind # "order" /\ DOMAIN q = 1 .. n
  BY <1>2
<1> HIDE DEF q, Eq, base
<1>5. \E h : Eq(h)
  BY <1>3, <1>4, ListFold
<1>6. PICK h : h = (CHOOSE x : Eq(x)) /\ Eq(h)
  BY <1>5
<1>7. IsFold(h, kind, path, q, base, SUBSET (1 .. n))
  BY <1>3, <1>6
<1>8. Ends(h[1 .. n], kind, path, q, base, n)
  BY <1>4, <1>7, FoldTrace
<1>9. QED
  BY <1>1, <1>2, <1>4, <1>6, <1>8 DEF q, base

\* A path of a relation and a field of its comodel is in order.
LEMMA PathIsFine ==
  ASSUME NEW model, NEW f, NEW g, NEW a, a = LookupField(model, f), a # NotFound,
         a.ttype \in Relational, a.comodel # None, LookupField(a.comodel, g) # NotFound
  PROVE  TraverseFieldChain(model, <<f, g>>).error = None
<1>1. PICK path : path = <<f, g>>
  OBVIOUS
<1>2. path # <<>> /\ Len(path) = 2 /\ path[1] = f /\ path[2] = g
  BY <1>1
<1>3. PICK q, b : q = [i \in 1 .. 2 |-> i] /\ b = [model |-> model, field |-> None, error |-> None]
  OBVIOUS
<1>4. Ends(TraverseFieldChain(model, path), "hop", path, q, b, 2)
  BY <1>2, <1>3, ChainFold
<1>5. PICK t : Trace(t, "hop", path, q, b, 2) /\ t[2] = TraverseFieldChain(model, path)
  BY <1>4 DEF Ends
<1>6. t[0] = b /\ t[1] = Hop(path, t[0], 1) /\ t[2] = Hop(path, t[1], 2)
  <2>1. \A i \in 1 .. 2 : t[i] = Hop(path, t[i - 1], q[i])
    BY <1>5 DEF Trace, Put
  <2>2. 1 \in 1 .. 2 /\ 2 \in 1 .. 2 /\ 1 - 1 = 0 /\ 2 - 1 = 1 /\ q[1] = 1 /\ q[2] = 2
    BY <1>3
  <2>3. QED
    BY <1>5, <2>1, <2>2 DEF Trace
<1>7. b.error = None /\ b.model = model
  BY <1>3
<1>8. t[1] = [b EXCEPT !.model = a.comodel]
  BY <1>2, <1>6, <1>7 DEF Hop
<1>9. t[1].error = None /\ t[1].model = a.comodel /\ t[1] = [t[1] EXCEPT !.error = None]
  BY <1>3, <1>8
<1>10. t[2] = [t[1] EXCEPT !.field = g]
  BY <1>2, <1>6, <1>9 DEF Hop
<1>11. t[2].error = None
  BY <1>3, <1>8, <1>10
<1>12. QED
  BY <1>1, <1>5, <1>11

-----------------------------------------------------------------------------
(* What is inherited is shown                                              *)

LEMMA ParentsShown ==
  ASSUME GraphOK, WrittenOK, DataOK(graph), NEW p, IsClass(p), NEW q \in MixinsAbove({p})
  PROVE  q[2].name \in ModelInspect("summary", p[2].name, None, None).parents
<1>1. PICK model : model = p[2].name
  OBVIOUS
<1>2. /\ IdOf(p) \in ModelsNamed(graph, model) /\ <<"Model", IdOf(p)>> \in graph.definedIn
      /\ IdOf(p).name = model
  BY <1>1, ClassIsThere DEF IsClass, IdOf, ModelId
<1>3. IdOf(p) \in ModelNodes(model, None)
  BY <1>2 DEF ModelNodes, InModule
<1>4. ModelInspect("summary", model, None, None).parents = ParentNames(model)
  BY <1>3, SummaryIs
<1>5. IsClass(q) /\ Before("models", p[1], "models", q[1]) /\ q[2].name \in Mixins(p[2])
  BY AboveIs
<1>6. PICK e : e = <<IdOf(p), IdOf(q)>>
  OBVIOUS
<1>7. e \in graph.inherits /\ e[1] = IdOf(p) /\ e[2] = IdOf(q)
  BY <1>5, <1>6, ClassIsNear
<1>8. IdOf(q).name = q[2].name /\ ~graph.models[IdOf(q)].unresolved
  BY <1>5, ClassIsThere DEF IsClass, IdOf, ModelId, ClassAt
<1>9. q[2].name # model
  BY <1>1, <1>5 DEF Mixins
<1>10. q[2].name \in ParentNames(model)
  BY <1>2, <1>7, <1>8, <1>9 DEF ParentNames
<1>11. QED
  BY <1>1, <1>4, <1>10

\* The model of a class, and those that it inherits from.
ModelsShown(p) == {p[2].name} \cup {q[2].name : q \in Inherited(p, Mixins)}

\* A relation to the model of a class.
Relates(e, f, p) ==
  /\ IsField(LookupField(e.name, f)) /\ LookupField(e.name, f) # NotFound
  /\ LookupField(e.name, f).comodel = p[2].name /\ p[2].name # None

LEMMA RelationIsValid ==
  ASSUME WrittenOK, NEW p, IsClass(p), NEW e, NEW f, Relates(e, f, p), NEW n \in ModelsShown(p)
  PROVE  ValidateRelation(e.name, f, n)
<1>1. PICK a : a = LookupField(e.name, f)
  OBVIOUS
<1>2. a # NotFound /\ a.ttype \in Relational /\ a.comodel = p[2].name /\ a.comodel # None
  BY <1>1 DEF Relates, IsField
<1>3. CASE n = p[2].name
  BY <1>1, <1>2, <1>3 DEF ValidateRelation
<1>4. CASE n # p[2].name
  <2>1. PICK q \in Inherited(p, Mixins) : n = q[2].name
    BY <1>4 DEF ModelsShown
  <2>2. IdOf(p) \in ResolvedModels(graph, a.comodel)
    BY <1>2, ClassIsThere DEF IsClass, IdOf
  <2>3. IdOf(q) \in Within(graph.inherits, ResolvedModels(graph, a.comodel), 5)
    BY <2>1, <2>2, InheritedIsNear
  <2>4. IdOf(q).name = n
    BY <2>1 DEF IdOf, ModelId
  <2>5. QED
    BY <1>1, <1>2, <2>3, <2>4 DEF ValidateRelation
<1>5. QED
  BY <1>3, <1>4

LEMMA RelatedPath ==
  ASSUME WrittenOK, DataOK(graph), NEW p, IsClass(p), NEW e, NEW f, Relates(e, f, p),
         NEW g \in KnownFields(p)
  PROVE  TraverseFieldChain(e.name, <<f, g>>).error = None
<1>1. PICK a : a = LookupField(e.name, f)
  OBVIOUS
<1>2. a # NotFound /\ a.ttype \in Relational /\ a.comodel = p[2].name /\ a.comodel # None
  BY <1>1 DEF Relates, IsField
<1>3. LookupField(a.comodel, g) # NotFound
  BY <1>2, InheritedFieldIs
<1>4. QED
  BY <1>1, <1>2, <1>3, PathIsFine

Terms(f, p) == {<<<<f, g>>, TRUE>> : g \in KnownFields(p)}

LEMMA DomainIsValid ==
  ASSUME WrittenOK, DataOK(graph), NEW p, IsClass(p), NEW e, NEW f, Relates(e, f, p)
  PROVE  ValidateDomain(e.name, Terms(f, p)) = {}
<1>1. ASSUME NEW g \in KnownFields(p), NEW t, t = <<<<f, g>>, TRUE>>
      PROVE  t[2] /\ TraverseFieldChain(e.name, t[1]).error = None
  BY <1>1, RelatedPath
<1>2. QED
  BY <1>1 DEF ValidateDomain, Terms

PathsOf(model, n) == UNION {graph.methods[x].depends : x \in MethodNodes(model, n)}

LEMMA DependsAreValid ==
  ASSUME WrittenOK, DataOK(graph), NEW p, IsClass(p), NEW e, NEW f, Relates(e, f, p), f # "id",
         NEW n, MethodNodes(e.name, n) # {}
  PROVE  ({f} \X (KnownFields(p) \ {"id"})) \cap ValidateDepends(e.name, n).broken = {}
<1>1. ValidateDepends(e.name, n).broken =
        {s \in PathsOf(e.name, n) : "id" \in ToSet(s) \/ TraverseFieldChain(e.name, s).error # None}
  BY DEF ValidateDepends, MethodNodes, PathsOf
<1>2. ASSUME NEW g \in KnownFields(p) \ {"id"}, NEW s, s = <<f, g>>
      PROVE  "id" \notin ToSet(s) /\ TraverseFieldChain(e.name, s).error = None
  <2>1. ToSet(s) = {f, g}
    BY <1>2 DEF ToSet
  <2>2. QED
    BY <1>2, <2>1, RelatedPath
<1>3. QED
  BY <1>1, <1>2

\* A field that is in the graph under the name of a class of a written module.
LEMMA RelationIsFound ==
  ASSUME ReadAsWritten, HistOK, WrittenOK, DataOK(graph), NEW q, IsClass(q), NEW f \in DOMAIN q[2].fields,
         NEW p, IsClass(p), LookupField(q[2].name, f).comodel = p[2].name
  PROVE  Relates(q[2], f, p)
<1>1. PICK m, d : m = q[1] /\ d = q[2]
  OBVIOUS
<1>2. ClassAt(graph, m, d, Placed("models", m))
  BY <1>1, ClassIsThere DEF IsClass
<1>3. Member(m, d, f) \in FieldNodes(d.name, f)
  BY <1>1, <1>2 DEF ClassAt, FieldNodes, FieldsOf, Member
<1>4. IsField(LookupField(d.name, f)) /\ LookupField(d.name, f) # NotFound
  BY <1>3, LookedUp
<1>5. PICK y, s : y = p[1] /\ s = last["models"][y] /\ y \in Modules /\ s # None
  BY DEF IsClass, Written
<1>6. s \in Contents[y]
  BY <1>5 DEF HistOK, Layers
<1>7. p[2] \in ToSet(Results[y][s].models)
  BY <1>5, <1>6 DEF IsClass, ReadAsWritten, Classes, SaidIn
<1>8. p[2].name # None
  BY <1>5, <1>6, <1>7, ResultsAssumption
<1>9. QED
  BY <1>1, <1>4, <1>8 DEF Relates

LEMMA InheritanceIs ==
  ASSUME ReadAsWritten, HistOK, GraphOK, WrittenOK, DataOK(graph)
  PROVE  InheritanceIsShown
<1>1. ASSUME NEW p \in Layer(Written("models"))
      PROVE  /\ {q[2].name : q \in Above({p}, Mixins)}
                  \subseteq ModelInspect("summary", p[2].name, None, None).parents
             /\ \A f \in KnownFields(p) : LookupField(p[2].name, f) # NotFound
  <2>1. IsClass(p)
    BY LayerHas
  <2>2. \A q \in Above({p}, Mixins) :
          q[2].name \in ModelInspect("summary", p[2].name, None, None).parents
    BY <2>1, ParentsShown DEF MixinsAbove
  <2>3. QED
    BY <2>1, <2>2, InheritedFieldIs
<1>2. ASSUME NEW p \in Layer(Written("models")), NEW q \in Layer(Written("models")),
             NEW f \in DOMAIN q[2].fields, LookupField(q[2].name, f).comodel = p[2].name
      PROVE  /\ \A n \in ModelsShown(p) : ValidateRelation(q[2].name, f, n)
             /\ ValidateDomain(q[2].name, {<<<<f, g>>, TRUE>> : g \in KnownFields(p)}) = {}
             /\ f # "id" => \A n \in DOMAIN q[2].methods :
                  ({f} \X (KnownFields(p) \ {"id"})) \cap ValidateDepends(q[2].name, n).broken = {}
  <2>1. IsClass(p) /\ IsClass(q)
    BY LayerHas
  <2>2. Relates(q[2], f, p)
    BY <1>2, <2>1, RelationIsFound
  <2>3. ASSUME NEW n \in DOMAIN q[2].methods PROVE MethodNodes(q[2].name, n) # {}
    <3>1. ClassAt(graph, q[1], q[2], Placed("models", q[1]))
      BY <2>1, ClassIsThere DEF IsClass
    <3>2. Member(q[1], q[2], n) \in MethodNodes(q[2].name, n)
      BY <3>1 DEF ClassAt, MethodNodes, MethodsOf, Member
    <3>3. QED
      BY <3>2
  <2>4. \A n \in ModelsShown(p) : ValidateRelation(q[2].name, f, n)
    BY <2>1, <2>2, RelationIsValid
  <2>5. ValidateDomain(q[2].name, {<<<<f, g>>, TRUE>> : g \in KnownFields(p)}) = {}
    <3>1. ValidateDomain(q[2].name, Terms(f, p)) = {}
      BY <2>1, <2>2, DomainIsValid
    <3>2. QED
      BY <3>1 DEF Terms
  <2>6. ASSUME f # "id", NEW n \in DOMAIN q[2].methods
        PROVE  ({f} \X (KnownFields(p) \ {"id"})) \cap ValidateDepends(q[2].name, n).broken = {}
    BY <2>1, <2>2, <2>3, <2>6, DependsAreValid
  <2>7. QED
    BY <2>4, <2>5, <2>6
<1>3. ASSUME NEW p \in Layer(Written("models")), NEW e \in {q[2] : q \in Layer(Written("models"))},
             NEW f \in DOMAIN e.fields, LookupField(e.name, f).comodel = p[2].name
      PROVE  /\ \A n \in ModelsShown(p) : ValidateRelation(e.name, f, n)
             /\ ValidateDomain(e.name, {<<<<f, g>>, TRUE>> : g \in KnownFields(p)}) = {}
             /\ f # "id" => \A n \in DOMAIN e.methods :
                  ({f} \X (KnownFields(p) \ {"id"})) \cap ValidateDepends(e.name, n).broken = {}
  <2>1. PICK q \in Layer(Written("models")) : e = q[2]
    BY <1>3
  <2>2. QED
    BY <1>2, <1>3, <2>1
<1>4. QED
  BY <1>1, <1>3 DEF InheritanceIsShown, KnownFields, ModelsShown

\* A class shows the parents that were indexed before it; what it inherits through
\* three steps is known to its model, and to the relations, domains and dependencies
\* that lead to it (_write_parse_result, _resolve_model, _lookup_field,
\* _traverse_field_chain, _validate_domain, _validate_depends, _validate_relation).
THEOREM InheritanceIsAlwaysShown ==
  Unambiguous /\ ReadAsWritten /\ OwnIds /\ Spec => []InheritanceIsShown
<1> SUFFICES ASSUME Unambiguous, ReadAsWritten, OwnIds PROVE Spec => []InheritanceIsShown
  OBVIOUS
<1> DEFINE Inv == SoundInv /\ RunsAreOK /\ GraphOK /\ HistOK /\ WrittenOK /\ DataOK(graph)
<1>1. Init => Inv
  BY SoundInit, GraphOKInit, HistInit, WrittenInit, DataInit
<1>2. Inv /\ [Next]_vars => Inv'
  <2> SUFFICES ASSUME Inv, [Next]_vars PROVE Inv'
    OBVIOUS
  <2>1. GraphMove
    BY MovesAre DEF GraphOK
  <2>2. QED
    BY <2>1, SoundStep, GraphOKStep, HistStep, WrittenStep, DataStep
<1>3. Inv => InheritanceIsShown
  BY InheritanceIs
<1>4. QED
  BY <1>1, <1>2, <1>3, PTL DEF Spec

-----------------------------------------------------------------------------
(* The pager                                                               *)

\* The rows after the first s.
RowsFrom(q, s) == SubSeq(q, s + 1, Len(q))

\* The page from start is what lies between start and stop: with the rows after it,
\* it is the rows from its start.
PageEnds(keys, start, stop, limit) ==
  /\ stop \in start .. Len(keys) /\ (start = stop <=> start = Len(keys))
  /\ Page(keys, start, limit) = SubSeq(keys, start + 1, stop)
  /\ Len(Page(keys, start, limit)) = stop - start
  /\ Page(keys, start, limit) = <<>> <=> start = stop
  /\ RowsFrom(keys, start) = Page(keys, start, limit) \o RowsFrom(keys, stop)
  /\ stop = Len(keys) => RowsFrom(keys, start) = Page(keys, start, limit)

LEMMA PageIs ==
  ASSUME NEW keys, NEW S, keys \in Seq(S), NEW limit \in 1 .. 2,
         NEW start \in 0 .. Len(keys)
  PROVE  \E stop : PageEnds(keys, start, stop, limit)
<1>1. PICK q, n : q = keys /\ n = Len(q) /\ n \in Nat /\ q \in Seq(S)
  BY LenProperties
<1>2. PICK stop : stop = IF start + limit < n THEN start + limit ELSE n
  OBVIOUS
<1>3. stop \in start .. n /\ (start = stop <=> start = n) /\ start \in Nat /\ stop \in Nat
  BY <1>1, <1>2
<1>4. Page(keys, start, limit) = SubSeq(q, start + 1, stop)
  BY <1>1, <1>2 DEF Page
<1>5. \A i \in (start + 1) .. stop : q[i] \in S
  <2>1. \A i \in (start + 1) .. stop : i \in 1 .. Len(q)
    BY <1>1, <1>3
  <2>2. QED
    BY <1>1, <2>1, ElementOfSeq
<1>6. start + 1 \in Int /\ stop \in Int
  BY <1>3
<1>7. /\ SubSeq(q, start + 1, stop) \in Seq(S)
      /\ Len(SubSeq(q, start + 1, stop)) = IF start + 1 <= stop THEN stop - (start + 1) + 1 ELSE 0
  BY <1>5, <1>6, SubSeqProperties
<1>8. Len(SubSeq(q, start + 1, stop)) = stop - start
  BY <1>3, <1>7
<1>9. SubSeq(q, start + 1, stop) = <<>> <=> Len(SubSeq(q, start + 1, stop)) = 0
  BY <1>7, EmptySeq
<1>10. SubSeq(q, start + 1, stop) = <<>> <=> start = stop
  BY <1>3, <1>8, <1>9
<1>11. SubSeq(q, start + 1, stop) \o SubSeq(q, stop + 1, n) = SubSeq(q, start + 1, n)
  <2>1. start + 1 \in 1 .. Len(q) + 1 /\ stop \in (start + 1) - 1 .. Len(q) /\ n \in stop .. Len(q)
    BY <1>1, <1>3
  <2>2. QED
    BY <1>1, <2>1, ConcatAdjacentSubSeq
<1>12. /\ RowsFrom(q, start) = SubSeq(q, start + 1, stop) \o RowsFrom(q, stop)
       /\ stop = n => RowsFrom(q, start) = SubSeq(q, start + 1, stop)
  BY <1>1, <1>11 DEF RowsFrom
<1>13. QED
  BY <1>1, <1>3, <1>4, <1>8, <1>10, <1>12 DEF PageEnds

\* A pager whose total is no less than its rows shows all their keys, in order.
LEMMA WalkIs ==
  ASSUME NEW list, NEW keys, keys = ListKeys(list), NEW S, keys \in Seq(S),
         list.total \in Nat, list.total >= Len(keys),
         NEW limit \in 1 .. 2
  PROVE  Walk(list, limit) = keys
<1>1. PICK n : n = Len(keys) /\ n \in Nat
  BY LenProperties
<1> DEFINE Len2(s) == s + Len(Page(keys, s, limit))
           Eq(g) == g = [s \in 0 .. Len(keys) |->
                           IF Page(keys, s, limit) # <<>> /\ list.total > Len2(s)
                           THEN Page(keys, s, limit) \o g[Len2(s)] ELSE Page(keys, s, limit)]
<1>2. Walk(list, limit) = (CHOOSE g : Eq(g))[0]
  BY DEF Walk
<1>3. ASSUME NEW s \in 0 .. n
      PROVE  /\ Len2(s) \in s .. n /\ (s # n => Len2(s) # s)
             /\ RowsFrom(keys, s) =
                  IF Page(keys, s, limit) # <<>> /\ list.total > Len2(s)
                  THEN Page(keys, s, limit) \o RowsFrom(keys, Len2(s)) ELSE Page(keys, s, limit)
             /\ s = n => Page(keys, s, limit) = <<>>
  <2>1. PICK stop : PageEnds(keys, s, stop, limit)
    BY <1>1, PageIs
  <2>2. Len2(s) = stop /\ stop \in s .. n /\ (s = stop <=> s = n)
    BY <1>1, <2>1 DEF PageEnds
  <2>3. Page(keys, s, limit) = <<>> <=> s = stop
    BY <2>1 DEF PageEnds
  <2>4. /\ RowsFrom(keys, s) = Page(keys, s, limit) \o RowsFrom(keys, stop)
        /\ stop = n => RowsFrom(keys, s) = Page(keys, s, limit)
    BY <1>1, <2>1 DEF PageEnds
  <2>5. s = stop \/ ~(list.total > stop) => stop = n
    BY <1>1, <2>2
  <2>6. RowsFrom(keys, s) =
           IF s # stop /\ list.total > stop
           THEN Page(keys, s, limit) \o RowsFrom(keys, stop) ELSE Page(keys, s, limit)
    BY <2>4, <2>5
  <2> HIDE DEF Len2
  <2>7. QED
    BY <2>2, <2>3, <2>6
<1>4. \E g : Eq(g)
  <2>1. PICK f : f = [s \in 0 .. n |-> RowsFrom(keys, s)]
    OBVIOUS
  <2> HIDE DEF Len2
  <2>2. \A s \in 0 .. n : f[s] = IF Page(keys, s, limit) # <<>> /\ list.total > Len2(s)
                                 THEN Page(keys, s, limit) \o f[Len2(s)] ELSE Page(keys, s, limit)
    BY <1>1, <1>3, <2>1
  <2>3. f = [s \in 0 .. n |-> IF Page(keys, s, limit) # <<>> /\ list.total > Len2(s)
                              THEN Page(keys, s, limit) \o f[Len2(s)] ELSE Page(keys, s, limit)]
    BY <2>1, <2>2
  <2>4. QED
    BY <1>1, <2>3
<1>5. PICK g : g = (CHOOSE x : Eq(x)) /\ Eq(g)
  <2> HIDE DEF Eq
  <2>1. QED
    BY <1>4
<1>6. \A s \in 0 .. n : g[s] = IF Page(keys, s, limit) # <<>> /\ list.total > Len2(s)
                               THEN Page(keys, s, limit) \o g[Len2(s)] ELSE Page(keys, s, limit)
  <2> HIDE DEF Len2
  <2>1. QED
    BY <1>1, <1>5
<1> DEFINE T == {k \in Nat : \A s \in 0 .. n : n - s <= k => g[s] = RowsFrom(keys, s)}
<1> HIDE DEF Len2, Eq
<1>7. 0 \in T
  <2>1. ASSUME NEW s \in 0 .. n, n - s <= 0 PROVE g[s] = RowsFrom(keys, s)
    <3>1. s = n
      BY <1>1, <2>1
    <3>2. QED
      BY <1>3, <1>6, <3>1
  <2>2. QED
    BY <2>1
<1>8. ASSUME NEW k \in Nat, k \in T PROVE k + 1 \in T
  <2>1. SUFFICES ASSUME NEW s \in 0 .. n, n - s <= k + 1 PROVE g[s] = RowsFrom(keys, s)
    OBVIOUS
  <2>2. CASE s = n
    BY <1>3, <1>6, <2>2
  <2>3. CASE s # n
    <3>1. PICK x : x = Len2(s) /\ x \in s .. n /\ x # s
      BY <1>3, <2>3
    <3>2. x \in 0 .. n /\ n - x <= k
      BY <1>1, <1>8, <2>1, <3>1
    <3>3. g[Len2(s)] = RowsFrom(keys, Len2(s))
      BY <1>8, <3>1, <3>2
    <3>4. QED
      BY <1>3, <1>6, <3>3
  <2>4. QED
    BY <2>2, <2>3
<1>9. Nat \subseteq T
  <2> HIDE DEF T
  <2>1. QED
    BY <1>7, <1>8, Induction
<1>10. g[0] = RowsFrom(keys, 0)
  <2>1. n \in T
    BY <1>1, <1>9
  <2>2. 0 \in 0 .. n /\ n - 0 <= n
    BY <1>1
  <2>3. QED
    BY <2>1, <2>2
<1>11. RowsFrom(keys, 0) = keys
  BY SubSeqFull DEF RowsFrom
<1>12. QED
  BY <1>2, <1>5, <1>10, <1>11

-----------------------------------------------------------------------------
(* Who follows the pager of a list sees all of it                          *)

\* The keys of a list, in their order, are those of its rows, each once for each row.
LEMMA KeysAre ==
  ASSUME NEW list, NEW S, ListsAll(list, S)
  PROVE  \E q, R : /\ Ordered(q, S, R) /\ DOMAIN q = 1 .. Len(q)
                   /\ ListKeys(list) = [i \in 1 .. Len(q) |-> list.key[q[i]]]
<1>1. PICK k : k = list.key
  OBVIOUS
<1>2. PICK n \in Nat : \A x \in S : IsKey(k[x], n)
  BY <1>1 DEF ListsAll
<1>3. PICK q : q = SortBy(S, KeyOrder(S, k))
  OBVIOUS
<1>4. Ordered(q, S, KeyOrder(S, k))
  BY <1>2, <1>3, KeysSort DEF ListsAll
<1>5. DOMAIN q = 1 .. Len(q)
  BY <1>4, OrderedIs
<1>6. Rows(list) = S
  BY DEF ListsAll
<1>7. InOrder(Rows(list), LAMBDA x : list.key[x]) = q
  BY <1>1, <1>3, <1>6 DEF InOrder, KeyOrder
<1>8. ListKeys(list) = [i \in DOMAIN q |-> list.key[q[i]]]
  BY <1>7 DEF ListKeys
<1>9. QED
  BY <1>4, <1>5, <1>8

\* The pager of a list whose total is no less than its rows shows their keys.
LEMMA WalkShows ==
  ASSUME NEW list, NEW S, ListsAll(list, S), list.total \in Nat, list.total >= Cardinality(S),
         NEW q, DOMAIN q = 1 .. Len(q), NEW R, Ordered(q, S, R),
         ListKeys(list) = [i \in 1 .. Len(q) |-> list.key[q[i]]], NEW limit \in 1 .. 2
  PROVE  Walk(list, limit) = ListKeys(list) /\ Len(ListKeys(list)) = Cardinality(S)
<1>1. PICK keys, n : keys = ListKeys(list) /\ n = Len(q) /\ n \in Nat
  BY OrderedIs
<1>2. PICK T : T = {keys[i] : i \in 1 .. n}
  OBVIOUS
<1>3. keys = [i \in 1 .. n |-> keys[i]]
  BY <1>1
<1>4. \A i \in 1 .. n : keys[i] \in T
  BY <1>2
<1>5. keys \in [1 .. n -> T]
  BY <1>3, <1>4
<1>6. keys \in Seq(T)
  BY <1>1, <1>5, SeqDef
<1>7. Len(keys) = n
  BY <1>1, <1>5, <1>6, LenProperties
<1>8. n = Cardinality(S)
  BY <1>1 DEF Ordered
<1>9. Walk(list, limit) = keys
  BY <1>1, <1>6, <1>7, <1>8, WalkIs
<1>10. QED
  BY <1>1, <1>7, <1>8, <1>9

LEMMA ListIsSeen ==
  ASSUME NEW list, NEW S, ListsAll(list, S), list.total = Cardinality(S),
         NEW sure \in SUBSET S,
         \A x \in sure : \A y \in S : x # y => list.key[x] # list.key[y]
  PROVE  AllSeen(list, sure)
<1>1. PICK q, R : /\ Ordered(q, S, R) /\ DOMAIN q = 1 .. Len(q)
                  /\ ListKeys(list) = [i \in 1 .. Len(q) |-> list.key[q[i]]]
  BY KeysAre
<1>2. Cardinality(S) \in Nat
  BY FS_CardinalityType DEF ListsAll
<1>3. PICK keys : keys = ListKeys(list)
  OBVIOUS
<1>4. Len(keys) = Cardinality(S) /\ \A limit \in 1 .. 2 : Walk(list, limit) = keys
  <2>1. \A limit \in 1 .. 2 : Walk(list, limit) = keys /\ Len(keys) = Cardinality(S)
    BY <1>1, <1>2, <1>3, WalkShows
  <2>2. QED
    BY <2>1
<1>5. Rows(list) = S
  BY DEF ListsAll
<1>6. \A x \in sure : {y \in Rows(list) : list.key[y] = list.key[x]} = {x}
  BY <1>5
<1>7. ASSUME NEW x \in sure PROVE IsOnce(list.key[x], keys)
  <2>1. DOMAIN keys = 1 .. Len(q) /\ \A i \in 1 .. Len(q) : keys[i] = list.key[q[i]] /\ q[i] \in S
    BY <1>1, <1>3, ElementOfSeq DEF Ordered
  <2>2. PICK i \in 1 .. Len(q) : q[i] = x
    BY <1>1 DEF Ordered
  <2>3. ASSUME NEW j \in 1 .. Len(q), keys[j] = list.key[x] PROVE j = i
    <3>1. q[j] = x
      BY <2>1, <2>3
    <3>2. ~(i < j) /\ ~(j < i)
      BY <1>1, <2>2, <3>1 DEF Ordered
    <3>3. i \in Int /\ j \in Int
      OBVIOUS
    <3>4. QED
      BY <3>2, <3>3
  <2>4. {j \in DOMAIN keys : keys[j] = list.key[x]} = {i}
    BY <2>1, <2>2, <2>3
  <2>5. QED
    BY <2>1, <2>4 DEF IsOnce
<1>8. QED
  BY <1>4, <1>5, <1>6, <1>7 DEF AllSeen

\* The ids of the rows are shown.
LEMMA IdsAreShown ==
  ASSUME NEW list, NEW S, ListsAll(list, S), list.total \in Nat, list.total >= Cardinality(S)
  PROVE  IdsShown(list) = {x.xmlid : x \in S}
<1>1. PICK q, R : /\ Ordered(q, S, R) /\ DOMAIN q = 1 .. Len(q)
                  /\ ListKeys(list) = [i \in 1 .. Len(q) |-> list.key[q[i]]]
  BY KeysAre
<1>2. PICK keys : keys = ListKeys(list)
  OBVIOUS
<1>3. Walk(list, 1) = keys
  BY <1>1, <1>2, WalkShows
<1>4. DOMAIN keys = 1 .. Len(q) /\ \A i \in 1 .. Len(q) : keys[i] = list.key[q[i]]
  BY <1>1, <1>2
<1>5. ASSUME NEW x \in S PROVE list.key[x] \in ToSet(keys)
  <2>1. PICK i \in 1 .. Len(q) : q[i] = x
    BY <1>1 DEF Ordered
  <2>2. QED
    BY <1>4, <2>1 DEF ToSet
<1>6. {x \in Rows(list) : list.key[x] \in ToSet(Walk(list, 1))} = S
  BY <1>3, <1>5 DEF ListsAll
<1>7. QED
  BY <1>6 DEF IdsShown

\* The place of a module in its list: those in the graph have places of their own,
\* before the one of all the others.
LEMMA RankPlaces ==
  ASSUME GraphOK, NEW m \in Modules, NEW r, r = ModuleRank(m)
  PROVE  /\ r \in Seq(Int) /\ Len(r) = 3
         /\ graph.mods[m] = "absent" => r[2] = 1
         /\ graph.mods[m] # "absent" => r[2] = 0 /\ r[3] = m
<1>1. graph.mods[m] \in {"absent", "stub", "indexed"}
  BY DEF GraphOK, ModsOK
<1>2. r \in Seq(Int) /\ Len(r) = 3
  BY RankIs
<1>3. ASSUME graph.mods[m] = "absent" PROVE r[2] = 1
  <2>1. r = <<ElseRank, 1, 0>>
    BY <1>3 DEF ModuleRank
  <2>2. QED
    BY <2>1
<1>4. ASSUME graph.mods[m] # "absent" PROVE r[2] = 0 /\ r[3] = m
  <2>1. PICK a : r = <<a, 0, m>>
    BY <1>1, <1>4 DEF ModuleRank
  <2>2. QED
    BY <2>1
<1>5. QED
  BY <1>2, <1>3, <1>4

\* A key c is that of r, and then that of u.
Ranked(c, r, u) == \A i \in 1 .. 3 + Len(u) : c[i] = IF i <= 3 THEN r[i] ELSE u[i - 3]
SameKey(m, y, s, t) ==
  /\ m = y \/ (graph.mods[m] = "absent" /\ graph.mods[y] = "absent")
  /\ \A i \in 1 .. Len(s) : s[i] = t[i]

LEMMA AfterRank ==
  ASSUME NEW r \in Seq(Int), NEW u \in Seq(Int), Len(r) = 3
  PROVE  Ranked(r \o u, r, u)
<1>1. \A i \in 1 .. Len(r) + Len(u) : (r \o u)[i] = IF i <= Len(r) THEN r[i] ELSE u[i - Len(r)]
  BY ConcatProperties
<1>2. QED
  BY <1>1 DEF Ranked

\* Equal keys are of one module, or of modules that are gone, and equal in the rest.
LEMMA EqualKeys ==
  ASSUME GraphOK, NEW m \in Modules, NEW y \in Modules,
         NEW s \in Seq(Int), NEW t \in Seq(Int), Len(s) = Len(t),
         ModuleRank(m) \o s = ModuleRank(y) \o t
  PROVE  SameKey(m, y, s, t)
<1>0. PICK n : n = Len(s) /\ n = Len(t) /\ n \in Nat
  BY LenProperties
<1>1. PICK a : a = ModuleRank(m)
  OBVIOUS
<1>2. PICK b : b = ModuleRank(y)
  OBVIOUS
<1>3. a \in Seq(Int) /\ b \in Seq(Int) /\ Len(a) = 3 /\ Len(b) = 3
  BY <1>1, <1>2, RankIs
<1>4. /\ \A i \in 1 .. 3 + n : (a \o s)[i] = IF i <= 3 THEN a[i] ELSE s[i - 3]
      /\ \A i \in 1 .. 3 + n : (b \o t)[i] = IF i <= 3 THEN b[i] ELSE t[i - 3]
  <2>1. Ranked(a \o s, a, s) /\ Ranked(b \o t, b, t)
    BY <1>3, AfterRank
  <2>2. QED
    BY <1>0, <2>1 DEF Ranked
<1>5. a \o s = b \o t
  BY <1>1, <1>2
<1>6. \A i \in 1 .. 3 + n : (IF i <= 3 THEN a[i] ELSE s[i - 3]) = (IF i <= 3 THEN b[i] ELSE t[i - 3])
  BY <1>4, <1>5
<1>7. a[2] = b[2] /\ a[3] = b[3]
  <2>1. 2 \in 1 .. 3 + n /\ 3 \in 1 .. 3 + n
    BY <1>0
  <2>2. QED
    BY <1>6, <2>1
<1>8. ASSUME NEW i \in 1 .. n PROVE s[i] = t[i]
  <2>1. i + 3 \in 1 .. 3 + n /\ ~(i + 3 <= 3) /\ (i + 3) - 3 = i
    BY <1>0
  <2>2. QED
    BY <1>6, <2>1
<1>9. m = y \/ (graph.mods[m] = "absent" /\ graph.mods[y] = "absent")
  <2>1. /\ graph.mods[m] = "absent" => a[2] = 1
        /\ graph.mods[m] # "absent" => a[2] = 0 /\ a[3] = m
    BY <1>1, RankPlaces
  <2>2. /\ graph.mods[y] = "absent" => b[2] = 1
        /\ graph.mods[y] # "absent" => b[2] = 0 /\ b[3] = y
    BY <1>2, RankPlaces
  <2>3. QED
    BY <1>7, <2>1, <2>2
<1>10. QED
  BY <1>0, <1>8, <1>9 DEF SameKey

LEMMA SameAlpha ==
  ASSUME NEW a \in Names, NEW b \in Names, Alpha(a) = Alpha(b)
  PROVE  a = b
BY AlphaIs

\* Members of a model, and patches, are told apart by their keys, but for twins.
LEMMA MembersDiffer ==
  ASSUME GraphOK, NEW x, NEW y, IsMember(x), IsMember(y), x.model = y.model, x # y, ~Twins(x, y)
  PROVE  MemberKey(x) # MemberKey(y)
<1>1. SUFFICES ASSUME MemberKey(x) = MemberKey(y) PROVE FALSE
  OBVIOUS
<1>2. x.module \in Modules /\ y.module \in Modules /\ x.name \in Names /\ y.name \in Names
  BY DEF IsMember
<1>3. PICK s, t : s = <<Alpha(x.name)>> /\ t = <<Alpha(y.name)>>
  OBVIOUS
<1>4. Alpha(x.name) \in Int /\ Alpha(y.name) \in Int
  BY <1>2, AlphaIs
<1>5. s \in Seq(Int) /\ t \in Seq(Int) /\ Len(s) = 1 /\ Len(t) = 1
  BY <1>3, <1>4
<1>6. ModuleRank(x.module) \o s = ModuleRank(y.module) \o t
  BY <1>1, <1>3 DEF MemberKey
<1>7. /\ x.module = y.module \/ (graph.mods[x.module] = "absent" /\ graph.mods[y.module] = "absent")
      /\ \A i \in 1 .. 1 : s[i] = t[i]
  <2>1. PICK m, z : m = x.module /\ z = y.module
    OBVIOUS
  <2>2. m \in Modules /\ z \in Modules /\ ModuleRank(m) \o s = ModuleRank(z) \o t
    BY <1>2, <1>6, <2>1
  <2>3. s \in Seq(Int) /\ t \in Seq(Int) /\ Len(s) = Len(t)
    BY <1>5
  <2>4. SameKey(m, z, s, t)
    BY <2>2, <2>3, EqualKeys
  <2>5. QED
    BY <1>5, <2>1, <2>4 DEF SameKey
<1>8. x.name = y.name
  <2>1. Alpha(x.name) = Alpha(y.name)
    BY <1>3, <1>7
  <2>2. QED
    BY <1>2, <2>1, SameAlpha
<1>9. x.module # y.module
  BY <1>8 DEF IsMember
<1>10. [y EXCEPT !.module = x.module] = x
  BY <1>8 DEF IsMember
<1>11. QED
  BY <1>7, <1>9, <1>10 DEF Twins

LEMMA PatchesDiffer ==
  ASSUME GraphOK, DataOK(graph), NEW x \in graph.patches, NEW y \in graph.patches,
         x # y, ~Twins(x, y)
  PROVE  PatchKey(x) # PatchKey(y)
<1>1. SUFFICES ASSUME PatchKey(x) = PatchKey(y) PROVE FALSE
  OBVIOUS
<1>2. /\ x.module \in Modules /\ y.module \in Modules /\ x.name \in Names /\ y.name \in Names
      /\ x.target \in Names /\ y.target \in Names
  BY DEF DataOK, PatchesOK
<1>3. PICK s, t : s = <<Alpha(x.target), Alpha(x.name)>> /\ t = <<Alpha(y.target), Alpha(y.name)>>
  OBVIOUS
<1>4. \A n \in Names : Alpha(n) \in Int
  BY AlphaIs
<1>5. s \in Seq(Int) /\ t \in Seq(Int) /\ Len(s) = 2 /\ Len(t) = 2
  BY <1>2, <1>3, <1>4
<1>6. ModuleRank(x.module) \o s = ModuleRank(y.module) \o t
  BY <1>1, <1>3 DEF PatchKey
<1>7. /\ x.module = y.module \/ (graph.mods[x.module] = "absent" /\ graph.mods[y.module] = "absent")
      /\ \A i \in 1 .. 2 : s[i] = t[i]
  <2>1. PICK m, z : m = x.module /\ z = y.module
    OBVIOUS
  <2>2. m \in Modules /\ z \in Modules /\ ModuleRank(m) \o s = ModuleRank(z) \o t
    BY <1>2, <1>6, <2>1
  <2>3. s \in Seq(Int) /\ t \in Seq(Int) /\ Len(s) = Len(t)
    BY <1>5
  <2>4. SameKey(m, z, s, t)
    BY <2>2, <2>3, EqualKeys
  <2>5. QED
    BY <1>5, <2>1, <2>4 DEF SameKey
<1>8. x.name = y.name /\ x.target = y.target
  <2>1. Alpha(x.target) = Alpha(y.target) /\ Alpha(x.name) = Alpha(y.name)
    BY <1>3, <1>7
  <2>2. QED
    BY <1>2, <2>1, SameAlpha
<1>9. /\ x = [target |-> x.target, name |-> x.name, module |-> x.module]
      /\ y = [target |-> y.target, name |-> y.name, module |-> y.module]
  BY DEF DataOK, PatchesOK
<1>10. x.module # y.module /\ [y EXCEPT !.module = x.module] = x
  BY <1>8, <1>9
<1>11. QED
  BY <1>7, <1>10 DEF Twins

LEMMA FieldsAreSeen ==
  ASSUME GraphOK, DataOK(graph), NEW model
  PROVE  AllSeen(ModelInspect("fields", model, None, None), Sure(FieldsOf(model)))
<1>1. PICK list, S : list = ListFields(model, None, None) /\ S = FieldsOf(model)
  OBVIOUS
<1>2. /\ ListsAll(list, S) /\ list.total = Cardinality(S)
      /\ \A x \in S : list.key[x] = MemberKey(x)
  BY <1>1, FieldsListed
<1>3. \A x \in S : IsMember(x) /\ x.model = model
  BY <1>1 DEF FieldsOf, DataOK, FieldsOK
<1>4. ASSUME NEW x \in Sure(S), NEW y \in S, x # y PROVE list.key[x] # list.key[y]
  <2>1. x \in S /\ ~Twins(x, y)
    BY <1>4 DEF Sure
  <2>2. QED
    BY <1>2, <1>3, <1>4, <2>1, MembersDiffer
<1>5. Sure(S) \in SUBSET S
  BY DEF Sure
<1>6. ModelInspect("fields", model, None, None) = list
  BY <1>1 DEF ModelInspect
<1>7. QED
  BY <1>1, <1>2, <1>4, <1>5, <1>6, ListIsSeen

LEMMA MethodsAreSeen ==
  ASSUME GraphOK, DataOK(graph), NEW model
  PROVE  AllSeen(ModelInspect("methods", model, None, None), Sure(MethodsOf(model)))
<1>1. PICK list, S : list = ListMethods(model, None) /\ S = MethodsOf(model)
  OBVIOUS
<1>2. /\ ListsAll(list, S) /\ list.total = Cardinality(S)
      /\ \A x \in S : list.key[x] = MemberKey(x)
  BY <1>1, MethodsListed
<1>3. \A x \in S : IsMember(x) /\ x.model = model
  BY <1>1 DEF MethodsOf, DataOK, MethodsOK
<1>4. ASSUME NEW x \in Sure(S), NEW y \in S, x # y PROVE list.key[x] # list.key[y]
  <2>1. x \in S /\ ~Twins(x, y)
    BY <1>4 DEF Sure
  <2>2. QED
    BY <1>2, <1>3, <1>4, <2>1, MembersDiffer
<1>5. Sure(S) \in SUBSET S
  BY DEF Sure
<1>6. ModelInspect("methods", model, None, None) = list
  BY <1>1 DEF ModelInspect
<1>7. QED
  BY <1>1, <1>2, <1>4, <1>5, <1>6, ListIsSeen

LEMMA PatchesAreSeen ==
  ASSUME GraphOK, DataOK(graph)
  PROVE  AllSeen(ListJsPatches(None, None), Sure(graph.patches))
<1>1. PICK list, S : list = ListJsPatches(None, None) /\ S = graph.patches
  OBVIOUS
<1>2. S = {x \in InModule(graph.patches, None) : TRUE}
  BY <1>1 DEF InModule
<1>3. /\ ListsAll(list, S) /\ list.total = Cardinality(S)
      /\ \A x \in S : list.key[x] = PatchKey(x)
  BY <1>1, <1>2, PatchesListed
<1>4. ASSUME NEW x \in Sure(S), NEW y \in S, x # y PROVE list.key[x] # list.key[y]
  <2>1. x \in S /\ ~Twins(x, y)
    BY <1>4 DEF Sure
  <2>2. QED
    BY <1>1, <1>3, <1>4, <2>1, PatchesDiffer
<1>5. Sure(S) \in SUBSET S
  BY DEF Sure
<1>6. QED
  BY <1>1, <1>3, <1>4, <1>5, ListIsSeen

\* A field shown in the list is found by the other tools.
LEMMA ShownFieldIs ==
  ASSUME GraphOK, DataOK(graph), NEW model,
         NEW f \in {x.name : x \in FieldsOf(model)} \cup MagicPrelude(model, None, None, 0)
  PROVE  ResolveField(model, f, None).found /\ LookupField(model, f) # NotFound
<1>1. PICK q : q = Layered(model, InModule({x \in FieldsOf(model) : x.name = f}, None))
  OBVIOUS
<1>2. InModule({x \in FieldsOf(model) : x.name = f}, None) = FieldNodes(model, f)
  BY DEF InModule, FieldNodes
<1>3. \A x \in FieldNodes(model, f) : x.module \in Modules
  BY DEF FieldNodes, FieldsOf, DataOK, FieldsOK, IsMember
<1>4. CASE FieldNodes(model, f) # {}
  <2>1. q # <<>>
    BY <1>1, <1>2, <1>3, <1>4, LayersListed
  <2>2. ResolveField(model, f, None).found
    BY <1>1, <2>1 DEF ResolveField
  <2>3. QED
    BY <1>4, <2>2, LookedUp
<1>5. CASE FieldNodes(model, f) = {}
  <2>1. f \in DOMAIN MagicFields
    BY <1>5 DEF FieldNodes, MagicPrelude
  <2>2. q = <<>>
    <3>1. ToSet(q) = HomesOf({}) /\ DOMAIN q = 1 .. Len(q) /\ Len(q) \in Nat /\ q \in Seq(HomesOf({}))
      BY <1>1, <1>2, <1>3, <1>5, LayersListed
    <3>2. HomesOf({}) = {}
      BY DEF HomesOf
    <3>3. Len(q) = 0
      BY <3>1, <3>2 DEF ToSet
    <3>4. QED
      BY <3>1, <3>3, EmptySeq
  <2>3. ResolveField(model, f, None).found
    BY <1>1, <2>1, <2>2 DEF ResolveField
  <2>4. QED
    BY <2>1, <2>3, LookedUp
<1>6. QED
  BY <1>4, <1>5

-----------------------------------------------------------------------------
(* The views of a module, and where their edges come from                  *)

HadViews(m) == IF last["views"][m] = None THEN {} ELSE Views(m)

\* What m has is its views, when they are all that was written of it.
ViewsExact == \A m \in Modules : m \in pure["views"] =>
                \A x \in DOMAIN graph.views :
                  graph.views[x].module = m => Key(x) \in Keys(HadViews(m))

\* The content s of y has a view with this edge to its base.
Drawn(e, y, s) == /\ y \in Modules /\ s \in Contents[y]
                  /\ \E v \in Sources[y][s].views : Key(e[1]) = Key(v) /\ Key(e[2]) = BaseKey(v)
HasSource(e) == LET y == graph.views[e[1]].module IN
                  \E s : Drawn(e, y, s) /\ (y \in pure["views"] => last["views"][y] = s)
EdgesFrom == \A e \in graph.extends : HasSource(e)

LEMMA ViewsExactInit ==
  ASSUME Init
  PROVE  ViewsExact /\ EdgesFrom
<1>1. graph.views = Empty /\ graph.extends = {}
  BY DEF Init, GraphInit
<1>2. QED
  BY <1>1 DEF ViewsExact, EdgesFrom, Empty

\* A step that leaves the views.
LEMMA ViewsStayExact ==
  ASSUME GraphOK, ViewsExact, EdgesFrom, SameViews(graph, graph'),
         \A m \in Modules : m \in pure'["views"] =>
           m \in pure["views"] /\ last'["views"][m] = last["views"][m]
  PROVE  ViewsExact' /\ EdgesFrom'
<1>1. graph'.views = graph.views /\ graph'.extends = graph.extends
  BY DEF SameViews
<1>2. ASSUME NEW m \in Modules, m \in pure'["views"], NEW x \in DOMAIN graph'.views,
             graph'.views[x].module = m
      PROVE  Key(x) \in Keys(HadViews(m)')
  <2>1. HadViews(m)' = HadViews(m)
    BY <1>2 DEF HadViews, Views, SaidIn
  <2>2. QED
    BY <1>1, <1>2, <2>1 DEF ViewsExact
<1>3. ASSUME NEW e \in graph'.extends PROVE HasSource(e)'
  <2>1. PICK y : y = graph.views[e[1]].module
    OBVIOUS
  <2>2. PICK s : Drawn(e, y, s) /\ (y \in pure["views"] => last["views"][y] = s)
    BY <1>1, <1>3, <2>1 DEF EdgesFrom, HasSource
  <2>3. y \in Modules
    BY <2>2 DEF Drawn
  <2>4. y \in pure'["views"] => last'["views"][y] = s
    BY <2>2, <2>3
  <2>5. graph'.views[e[1]].module = y
    BY <1>1, <2>1
  <2>6. QED
    BY <2>2, <2>4, <2>5 DEF HasSource, Drawn
<1>4. ViewsExact'
  BY <1>2 DEF ViewsExact
<1>5. EdgesFrom'
  BY <1>3 DEF EdgesFrom
<1>6. QED
  BY <1>4, <1>5

\* The views D of m are written.
LEMMA ViewsWrittenExact ==
  ASSUME ReadAsWritten, HistOK, ViewsExact, ViewsMove
  PROVE  ViewsExact'
<1>1. PICK m \in Modules : LayerWritten("views", m) /\ ViewsStep(m)
  BY DEF ViewsMove
<1>2. Afresh("views", m)
  BY <1>1, AfreshIs DEF Layers
<1>3. PICK D : D = ToSet(Parse(m).views)
  OBVIOUS
<1>4. ViewsAdded(graph, graph', m, D)
  BY <1>1, <1>3 DEF ViewsStep
<1>5. D = Sources[m][disk[m]].views /\ last'["views"][m] = disk[m] /\ disk[m] # None
  BY <1>2, <1>3 DEF Afresh, ReadAsWritten, Parse
<1>6. HadViews(m)' = D
  BY <1>5 DEF HadViews, Views, SaidIn
<1>7. ASSUME NEW y \in Modules, y \in pure'["views"], NEW x \in DOMAIN graph'.views,
             graph'.views[x].module = y
      PROVE  Key(x) \in Keys(HadViews(y)')
  <2>1. y \in pure["views"] /\ (y = m => last["views"][m] \in {None, disk[m]})
    BY <1>2, <1>7 DEF Afresh, Layers
  <2>2. y # Unresolved
    BY <1>7, GraphAssumption
  <2>3. CASE Key(x) \in Keys(D)
    <3>1. Mine(graph', m, x) \/ IsStub(graph', x)
      BY <1>4, <2>3 DEF ViewsAdded
    <3>2. y = m
      BY <1>7, <2>2, <3>1 DEF Mine, IsStub
    <3>3. QED
      BY <1>6, <2>3, <3>2
  <2>4. CASE Key(x) \notin Keys(D)
    <3>1. x \in DOMAIN graph.views
      <4>1. x \notin DOMAIN graph.views => Mine(graph', m, x) \/ IsStub(graph', x)
        BY <1>4 DEF ViewsAdded
      <4>2. (graph'.views[x].module = m /\ Key(x) \notin Keys(D)) => x \in DOMAIN graph.views \/ m = Unresolved
        BY <1>4 DEF ViewsAdded
      <4>3. m # Unresolved
        BY GraphAssumption
      <4>4. QED
        BY <1>7, <2>2, <2>4, <4>1, <4>2, <4>3 DEF Mine, IsStub
    <3>2. graph'.views[x] = graph.views[x]
      BY <1>4, <2>4, <3>1 DEF ViewsAdded
    <3>3. Key(x) \in Keys(HadViews(y))
      BY <1>7, <2>1, <3>1, <3>2 DEF ViewsExact
    <3>4. y # m
      <4>1. y = m => HadViews(y) \subseteq D
        BY <1>5, <2>1 DEF HadViews, Views, SaidIn
      <4>2. QED
        BY <2>4, <3>3, <4>1 DEF Keys
    <3>5. last'["views"][y] = last["views"][y]
      BY <1>2, <1>7, <3>4 DEF Afresh, Layers
    <3>6. HadViews(y)' = HadViews(y)
      BY <3>5 DEF HadViews, Views, SaidIn
    <3>7. QED
      BY <3>3, <3>6
  <2>5. QED
    BY <2>3, <2>4
<1>8. QED
  BY <1>7 DEF ViewsExact

LEMMA EdgesWrittenFrom ==
  ASSUME ReadAsWritten, OwnIds, HistOK, GraphOK, EdgesFrom, ViewsMove
  PROVE  EdgesFrom'
<1>1. PICK m \in Modules : LayerWritten("views", m) /\ ViewsStep(m)
  BY DEF ViewsMove
<1>2. Afresh("views", m)
  BY <1>1, AfreshIs DEF Layers
<1>3. PICK D : D = ToSet(Parse(m).views)
  OBVIOUS
<1>4. ViewsAdded(graph, graph', m, D)
  BY <1>1, <1>3 DEF ViewsStep
<1>5. /\ D = Sources[m][disk[m]].views /\ last'["views"][m] = disk[m] /\ disk[m] # None
      /\ disk[m] \in Contents[m]
  BY <1>2, <1>3 DEF Afresh, ReadAsWritten, Parse
<1>6. Tied(graph, graph', m, D)
  BY <1>4 DEF ViewsAdded
<1>7. ASSUME NEW e \in graph'.extends, e \notin graph.extends PROVE HasSource(e)'
  <2>1. Mine(graph', m, e[1]) /\ \E v \in D : Key(e[1]) = Key(v) /\ Key(e[2]) = BaseKey(v)
    BY <1>6, <1>7 DEF Tied
  <2>2. graph'.views[e[1]].module = m
    BY <2>1 DEF Mine
  <2>3. Drawn(e, m, disk[m])
    BY <1>5, <2>1 DEF Drawn
  <2>4. QED
    BY <1>5, <2>2, <2>3 DEF HasSource, Drawn
<1>8. ASSUME NEW e \in graph.extends PROVE HasSource(e)'
  <2>1. PICK y : y = graph.views[e[1]].module
    OBVIOUS
  <2>2. PICK s : Drawn(e, y, s) /\ (y \in pure["views"] => last["views"][y] = s)
    BY <1>8, <2>1 DEF EdgesFrom, HasSource
  <2>3. e[1] \in DOMAIN graph.views
    BY <1>8 DEF GraphOK
  <2>4. PICK v \in Sources[y][s].views : Key(e[1]) = Key(v)
    BY <2>2 DEF Drawn
  <2>5. y \in Modules /\ s \in Contents[y] /\ s # None
    BY <2>2, GraphAssumption DEF Drawn
  <2>6. graph'.views[e[1]].module = y
    <3>1. CASE Key(e[1]) \in Keys(D)
      <4>1. Mine(graph', m, e[1])
        BY <1>6, <2>3, <3>1 DEF Tied
      <4>2. PICK b \in D : Key(e[1]) = Key(b)
        BY <3>1 DEF Keys
      <4>3. <<v.kind, v.xmlid>> = <<b.kind, b.xmlid>>
        BY <2>4, <4>2 DEF Key
      <4>4. y = m
        BY <1>5, <2>4, <2>5, <4>2, <4>3 DEF OwnIds
      <4>5. QED
        BY <4>1, <4>4 DEF Mine
    <3>2. CASE Key(e[1]) \notin Keys(D)
      BY <1>4, <2>1, <2>3, <3>2 DEF ViewsAdded
    <3>3. QED
      BY <3>1, <3>2
  <2>7. y \in pure'["views"] => last'["views"][y] = s
    <3>1. y \in pure'["views"] => y \in pure["views"] /\ (y = m => last["views"][m] \in {None, disk[m]})
      BY <1>2, <2>5 DEF Afresh, Layers
    <3>2. y # m => last'["views"][y] = last["views"][y]
      BY <1>2, <2>5 DEF Afresh, Layers
    <3>3. QED
      BY <1>5, <2>2, <2>5, <3>1, <3>2
  <2>8. QED
    BY <2>2, <2>6, <2>7 DEF HasSource, Drawn
<1>9. QED
  BY <1>7, <1>8 DEF EdgesFrom

LEMMA ViewsDeletedExact ==
  ASSUME HistOK, GraphOK, IndexedOK, ViewsExact, EdgesFrom, DeleteMove
  PROVE  ViewsExact' /\ EdgesFrom'
<1>1. PICK r \in Repos :
        /\ Deleted(graph, graph', IndexedOf(graph, r))
        /\ last' = [l \in Layers |-> [m \in Modules |->
                      IF m \in Home(r) /\ l # "sheets" THEN None ELSE last[l][m]]]
        /\ pure' = [l \in Layers |-> IF l = "sheets" THEN pure[l]
                                     ELSE pure[l] \cup IndexedOf(graph, r)]
  BY DEF DeleteMove
<1>2. PICK S : S = IndexedOf(graph, r)
  OBVIOUS
<1>3. /\ DOMAIN graph'.views = {x \in DOMAIN graph.views : graph.views[x].module \notin S}
      /\ \A x \in DOMAIN graph'.views : graph'.views[x] = graph.views[x]
      /\ graph'.extends = {e \in graph.extends : graph.views[e[1]].module \notin S
                                                  /\ graph.views[e[2]].module \notin S}
  BY <1>1, <1>2 DEF Deleted
<1>4. ASSUME NEW m \in Modules, m \in pure'["views"], m \notin S
      PROVE  m \in pure["views"] /\ last'["views"][m] = last["views"][m]
  <2>1. m \in pure["views"]
    BY <1>1, <1>2, <1>4 DEF Layers
  <2>2. last'["views"][m] = IF m \in Home(r) THEN None ELSE last["views"][m]
    BY <1>1 DEF Layers
  <2>3. m \in Home(r) => last["views"][m] = None
    BY <1>2, <1>4 DEF IndexedOK, IndexedOf, Home, Graphic
  <2>4. QED
    BY <2>1, <2>2, <2>3
<1>5. ASSUME NEW m \in Modules, m \in pure'["views"], NEW x \in DOMAIN graph'.views,
             graph'.views[x].module = m
      PROVE  Key(x) \in Keys(HadViews(m)')
  <2>1. x \in DOMAIN graph.views /\ graph.views[x].module = m /\ m \notin S
    BY <1>3, <1>5
  <2>2. m \in pure["views"] /\ last'["views"][m] = last["views"][m]
    BY <1>4, <1>5, <2>1
  <2>3. HadViews(m)' = HadViews(m)
    BY <2>2 DEF HadViews, Views, SaidIn
  <2>4. QED
    BY <1>5, <2>1, <2>2, <2>3 DEF ViewsExact
<1>6. ASSUME NEW e \in graph'.extends PROVE HasSource(e)'
  <2>1. PICK y : y = graph.views[e[1]].module
    OBVIOUS
  <2>2. e \in graph.extends /\ y \notin S
    BY <1>3, <1>6, <2>1
  <2>3. PICK s : Drawn(e, y, s) /\ (y \in pure["views"] => last["views"][y] = s)
    BY <2>1, <2>2 DEF EdgesFrom, HasSource
  <2>4. graph'.views[e[1]].module = y
    BY <1>3, <2>1, <2>2 DEF GraphOK
  <2>5. y \in Modules
    BY <2>3 DEF Drawn
  <2>6. y \in pure'["views"] => last'["views"][y] = s
    BY <1>4, <2>2, <2>3, <2>5
  <2>7. QED
    BY <2>3, <2>4, <2>6 DEF HasSource, Drawn
<1>7. ViewsExact'
  BY <1>5 DEF ViewsExact
<1>8. EdgesFrom'
  BY <1>6 DEF EdgesFrom
<1>9. QED
  BY <1>7, <1>8

LEMMA ViewsExactStep ==
  ASSUME ReadAsWritten, OwnIds, HistOK, GraphOK, IndexedOK, ViewsExact, EdgesFrom, GraphMove
  PROVE  ViewsExact' /\ EdgesFrom'
<1>1. CASE QuietStep
  <2>1. SameViews(graph, graph') /\ pure' = pure /\ last' = last
    BY <1>1 DEF QuietStep, SameViews
  <2>2. QED
    BY <2>1, ViewsStayExact
<1>2. ASSUME NEW l \in Layers, NEW m, LayerWritten(l, m), l # "views", SameViews(graph, graph')
      PROVE  ViewsExact' /\ EdgesFrom'
  <2>1. Afresh(l, m)
    BY <1>2, AfreshIs
  <2>2. \A y \in Modules : y \in pure'["views"] =>
          y \in pure["views"] /\ last'["views"][y] = last["views"][y]
    BY <1>2, <2>1 DEF Afresh, Layers
  <2>3. QED
    BY <1>2, <2>2, ViewsStayExact
<1>3. CASE ModelsMove
  <2>1. PICK m \in Modules : LayerWritten("models", m) /\ ModelsStep(m)
    BY <1>3 DEF ModelsMove
  <2>2. SameViews(graph, graph')
    BY <2>1 DEF ModelsStep, ModelsAdded
  <2>3. QED
    BY <1>2, <2>1, <2>2 DEF Layers
<1>4. CASE ViewsMove
  BY <1>4, ViewsWrittenExact, EdgesWrittenFrom
<1>5. CASE JsMove
  <2>1. PICK m \in Modules : LayerWritten("js", m) /\ JsStep(m)
    BY <1>5 DEF JsMove
  <2>2. SameViews(graph, graph')
    BY <2>1 DEF JsStep, CompsAdded, PatchesAdded, SameViews
  <2>3. QED
    BY <1>2, <2>1, <2>2 DEF Layers
<1>6. CASE SheetsMove
  <2>1. SameViews(graph, graph') /\ pure' = pure
    BY <1>6 DEF SheetsMove, BatchWritten
  <2>2. last'["views"] = last["views"]
    BY <1>6 DEF SheetsMove, HistOK, Layers
  <2>3. QED
    BY <2>1, <2>2, ViewsStayExact
<1>7. CASE EndMove
  <2>1. PICK gone \in SUBSET Modules :
          /\ Dropped(graph, graph', gone)
          /\ last' = [l \in Layers |-> [m \in Modules |-> IF m \in gone THEN None ELSE last[l][m]]]
          /\ pure' = [l \in Layers |-> pure[l] \ gone]
    BY <1>7 DEF EndMove
  <2>2. SameViews(graph, graph')
    BY <2>1 DEF Dropped
  <2>3. \A m \in Modules : m \in pure'["views"] =>
          m \in pure["views"] /\ last'["views"][m] = last["views"][m]
    BY <2>1 DEF Layers
  <2>4. QED
    BY <2>2, <2>3, ViewsStayExact
<1>8. CASE DeleteMove
  BY <1>8, ViewsDeletedExact
<1>9. QED
  BY <1>1, <1>3, <1>4, <1>5, <1>6, <1>7, <1>8 DEF GraphMove

-----------------------------------------------------------------------------
(* Who follows the pager of a module's views or templates sees all of them *)

ViewsOf(m)    == {x \in DOMAIN graph.views : x.kind = "view" /\ graph.views[x].module = m}
XmlIds(S)     == {x.xmlid : x \in S}
OfKind(m, kind) == {v \in Views(m) : v.kind = kind}

LEMMA ViewsListed ==
  ASSUME GraphOK, DataOK(graph), NEW m \in Modules, NEW list, list = ListViews(None, m)
  PROVE  ListsAll(list, ViewsOf(m)) /\ list.total = Cardinality(ViewsOf(m))
<1>1. PICK S : S = ViewsOf(m)
  OBVIOUS
<1>2. S = {x \in DOMAIN graph.views : /\ x.kind = "view" /\ graph.views[x].module # Unresolved
                                      /\ None \in {None, graph.views[x].model}
                                      /\ m \in {None, graph.views[x].module}}
  <2>1. m # Unresolved /\ m # None
    BY GraphAssumption
  <2>2. QED
    BY <1>1, <2>1 DEF ViewsOf
<1>3. IsFiniteSet(S)
  BY <1>1, FS_Subset DEF ViewsOf, DataOK, ViewsOK, NumbersOK
<1>4. list.key = [x \in S |-> ViewKey(x)] /\ list.total = Cardinality(S)
  BY <1>2 DEF ListViews
<1>5. ASSUME NEW x \in S PROVE IsKey(list.key[x], 4)
  <2>1. graph.views[x].module = m /\ x.xmlid \in Names
    BY <1>1 DEF ViewsOf, DataOK, ViewsOK, NumbersOK
  <2>2. Alpha(x.xmlid) \in Int
    BY <2>1, AlphaIs
  <2>3. <<Alpha(x.xmlid)>> \in Seq(Int) /\ Len(<<Alpha(x.xmlid)>>) = 1
    BY <2>2
  <2>4. IsKey(ModuleRank(m) \o <<Alpha(x.xmlid)>>, 3 + 1)
    BY <2>3, RankedKey
  <2>5. list.key[x] = ModuleRank(m) \o <<Alpha(x.xmlid)>>
    BY <1>4, <2>1 DEF ViewKey
  <2>6. QED
    BY <2>4, <2>5
<1>6. Rows(list) = S
  BY <1>4 DEF Rows
<1>7. QED
  BY <1>1, <1>3, <1>4, <1>5, <1>6 DEF ListsAll

\* What the graph has of a module are its views.
LEMMA NodesAreSaid ==
  ASSUME WrittenOK, ViewsExact, NEW m \in Written("views"), m \in pure["views"], NEW kind
  PROVE  /\ \A x \in DOMAIN graph.views : (x.kind = kind /\ graph.views[x].module = m) =>
              \E v \in OfKind(m, kind) : v.xmlid = x.xmlid
         /\ \A v \in OfKind(m, kind) : \E x \in DOMAIN graph.views :
              x.kind = kind /\ x.xmlid = v.xmlid /\ graph.views[x].module = m
<1>1. m \in Modules /\ HadViews(m) = Views(m)
  BY DEF Written, HadViews
<1>2. ASSUME NEW x \in DOMAIN graph.views, x.kind = kind, graph.views[x].module = m
      PROVE  \E v \in OfKind(m, kind) : v.xmlid = x.xmlid
  <2>1. PICK v \in Views(m) : Key(x) = Key(v)
    BY <1>1, <1>2 DEF ViewsExact, Keys
  <2>2. v.kind = kind /\ v.xmlid = x.xmlid
    BY <1>2, <2>1 DEF Key
  <2>3. QED
    BY <2>2 DEF OfKind
<1>3. ASSUME NEW v \in OfKind(m, kind)
      PROVE  \E x \in DOMAIN graph.views : x.kind = kind /\ x.xmlid = v.xmlid /\ graph.views[x].module = m
  <2>1. v \in Views(m) /\ v.kind = kind
    BY DEF OfKind
  <2>2. PICK x \in ViewNodes(graph, v.kind, v.xmlid) : graph.views[x].module = m
    BY <2>1, ViewsAnswered
  <2>3. QED
    BY <2>1, <2>2 DEF ViewNodes
<1>4. QED
  BY <1>2, <1>3

LEMMA ViewsAreSeen ==
  ASSUME GraphOK, DataOK(graph), WrittenOK, ViewsExact, NEW m \in Written("views"), m \in pure["views"]
  PROVE  IdsShown(ModuleInspect("views", m)) = XmlIds(OfKind(m, "view"))
<1>1. m \in Modules
  BY DEF Written
<1>2. PICK list, S : list = ListViews(None, m) /\ S = ViewsOf(m)
  OBVIOUS
<1>3. ModuleInspect("views", m) = list
  BY <1>2 DEF ModuleInspect
<1>4. ListsAll(list, S) /\ list.total = Cardinality(S)
  BY <1>1, <1>2, ViewsListed
<1>5. Cardinality(S) \in Nat
  BY <1>4, FS_CardinalityType DEF ListsAll
<1>6. IdsShown(list) = {x.xmlid : x \in S}
  BY <1>4, <1>5, IdsAreShown
<1>7. XmlIds(ViewsOf(m)) = XmlIds(OfKind(m, "view"))
  <2>1. \A x \in ViewsOf(m) : \E v \in OfKind(m, "view") : v.xmlid = x.xmlid
    BY NodesAreSaid DEF ViewsOf
  <2>2. \A v \in OfKind(m, "view") : \E x \in ViewsOf(m) : x.xmlid = v.xmlid
    BY NodesAreSaid DEF ViewsOf
  <2>3. QED
    BY <2>1, <2>2 DEF XmlIds
<1>8. QED
  BY <1>2, <1>3, <1>6, <1>7 DEF XmlIds

\* Templates: each has one base, and so one row.
LEMMA OneRow ==
  ASSUME OneBase, HistOK, EdgesFrom, NEW m \in Modules, m \in pure["views"], NEW x \in TemplatesOf(m)
  PROVE  \E b : BasesShown(x) = {b}
<1>1. x.kind = "template" /\ graph.views[x].module = m
  BY DEF TemplatesOf
<1>2. ASSUME NEW a \in BasesOf(x), NEW b \in BasesOf(x) PROVE a = b
  <2>1. ASSUME NEW c \in BasesOf(x)
        PROVE  \E v : /\ v \in Sources[m][last["views"][m]].views /\ v.base = c
                      /\ v.kind = "template" /\ v.xmlid = x.xmlid
    <3>1. PICK e \in graph.extends : e[1] = x /\ c = e[2].xmlid
      BY <2>1 DEF BasesOf
    <3>2. HasSource(e)
      BY <3>1 DEF EdgesFrom
    <3>3. PICK s : Drawn(e, m, s) /\ last["views"][m] = s
      BY <1>1, <3>1, <3>2 DEF HasSource
    <3>4. PICK v \in Sources[m][s].views : Key(e[1]) = Key(v) /\ Key(e[2]) = BaseKey(v)
      BY <3>3 DEF Drawn
    <3>5. QED
      BY <1>1, <3>1, <3>3, <3>4 DEF Key, BaseKey
  <2>2. last["views"][m] \in Contents[m]
    <3>1. PICK e \in graph.extends : e[1] = x
      BY <1>2 DEF BasesOf
    <3>2. HasSource(e)
      BY <3>1 DEF EdgesFrom
    <3>3. QED
      BY <1>1, <3>1, <3>2 DEF HasSource, Drawn
  <2>3. PICK v : /\ v \in Sources[m][last["views"][m]].views /\ v.base = a
                 /\ v.kind = "template" /\ v.xmlid = x.xmlid
    BY <2>1
  <2>4. PICK u : /\ u \in Sources[m][last["views"][m]].views /\ u.base = b
                 /\ u.kind = "template" /\ u.xmlid = x.xmlid
    BY <2>1
  <2>5. QED
    BY <2>2, <2>3, <2>4 DEF OneBase
<1>3. CASE BasesOf(x) = {}
  BY <1>3 DEF BasesShown
<1>4. CASE BasesOf(x) # {}
  <2>1. PICK b : b \in BasesOf(x)
    BY <1>4
  <2>2. BasesOf(x) = {b}
    BY <1>2, <2>1
  <2>3. QED
    BY <1>4, <2>2 DEF BasesShown
<1>5. QED
  BY <1>3, <1>4

LEMMA RowsAreCounted ==
  ASSUME OneBase, HistOK, DataOK(graph), EdgesFrom, NEW m \in Modules, m \in pure["views"]
  PROVE  /\ IsFiniteSet(TemplatesOf(m)) /\ Cardinality(TemplateRows(m)) <= Cardinality(TemplatesOf(m))
         /\ XmlIds(TemplateRows(m)) = XmlIds(TemplatesOf(m))
<1>1. IsFiniteSet(TemplatesOf(m))
  BY FS_Subset DEF TemplatesOf, DataOK, ViewsOK, NumbersOK
<1>2. PICK f : f = [x \in TemplatesOf(m) |-> TemplateRow(x, CHOOSE b : BasesShown(x) = {b})]
  OBVIOUS
<1>3. ASSUME NEW x \in TemplatesOf(m) PROVE RowsOf(x) = {f[x]} /\ f[x].xmlid = x.xmlid
  <2>1. PICK c : c = CHOOSE b : BasesShown(x) = {b}
    OBVIOUS
  <2>2. \E b : BasesShown(x) = {b}
    BY OneRow
  <2>3. BasesShown(x) = {c}
    BY <2>1, <2>2
  <2>4. f[x] = TemplateRow(x, c)
    BY <1>2, <2>1
  <2>5. RowsOf(x) = {TemplateRow(x, c)}
    BY <2>3 DEF RowsOf
  <2>6. QED
    BY <2>4, <2>5 DEF TemplateRow
<1>4. TemplateRows(m) = {f[x] : x \in TemplatesOf(m)}
  BY <1>3 DEF TemplateRows
<1>5. f \in Surjection(TemplatesOf(m), TemplateRows(m))
  BY <1>2, <1>4 DEF Surjection
<1>6. Cardinality(TemplateRows(m)) <= Cardinality(TemplatesOf(m))
  BY <1>1, <1>5, FS_Surjection
<1>7. XmlIds(TemplateRows(m)) = XmlIds(TemplatesOf(m))
  BY <1>3, <1>4 DEF XmlIds
<1>8. QED
  BY <1>1, <1>6, <1>7

LEMMA TemplatesAreSeen ==
  ASSUME OneBase, HistOK, GraphOK, DataOK(graph), WrittenOK, ViewsExact, EdgesFrom,
         NEW m \in Written("views"), m \in pure["views"]
  PROVE  IdsShown(ModuleInspect("qweb", m)) = XmlIds(OfKind(m, "template"))
<1>1. m \in Modules
  BY DEF Written
<1>2. PICK list, S : list = ListQwebTemplates(m) /\ S = TemplateRows(m)
  OBVIOUS
<1>3. ModuleInspect("qweb", m) = list
  BY <1>2 DEF ModuleInspect
<1>4. ListsAll(list, S) /\ list.total = Cardinality(TemplatesOf(m))
  BY <1>2, TemplatesAre, TemplatesListed
<1>5. IsFiniteSet(TemplatesOf(m)) /\ Cardinality(S) <= Cardinality(TemplatesOf(m))
  BY <1>1, <1>2, RowsAreCounted
<1>6. list.total \in Nat /\ list.total >= Cardinality(S)
  <2>1. Cardinality(S) \in Nat /\ Cardinality(TemplatesOf(m)) \in Nat
    BY <1>4, <1>5, FS_CardinalityType DEF ListsAll
  <2>2. QED
    BY <1>4, <1>5, <2>1
<1>7. IdsShown(list) = {x.xmlid : x \in S}
  BY <1>4, <1>6, IdsAreShown
<1>8. XmlIds(TemplatesOf(m)) = XmlIds(OfKind(m, "template"))
  <2>1. \A x \in TemplatesOf(m) : \E v \in OfKind(m, "template") : v.xmlid = x.xmlid
    BY NodesAreSaid DEF TemplatesOf
  <2>2. \A v \in OfKind(m, "template") : \E x \in TemplatesOf(m) : x.xmlid = v.xmlid
    BY NodesAreSaid DEF TemplatesOf
  <2>3. QED
    BY <2>1, <2>2 DEF XmlIds
<1>9. XmlIds(S) = XmlIds(TemplatesOf(m))
  BY <1>1, <1>2, RowsAreCounted
<1>10. QED
  BY <1>3, <1>7, <1>8, <1>9 DEF XmlIds

-----------------------------------------------------------------------------
(* Pages are complete                                                      *)

LEMMA PagesAre ==
  ASSUME OneBase, HistOK, GraphOK, DataOK(graph), WrittenOK, ViewsExact, EdgesFrom
  PROVE  PagesAreComplete
<1>1. ASSUME NEW model \in UNION {NamesOf(m) : m \in Written("models")}
      PROVE  /\ AllSeen(ModelInspect("fields", model, None, None), Sure(FieldsOf(model)))
             /\ AllSeen(ModelInspect("methods", model, None, None), Sure(MethodsOf(model)))
             /\ \A f \in {x.name : x \in FieldsOf(model)} \cup MagicPrelude(model, None, None, 0) :
                  ResolveField(model, f, None).found /\ LookupField(model, f) # NotFound
  BY FieldsAreSeen, MethodsAreSeen, ShownFieldIs
<1>2. ASSUME NEW m \in Written("views") \cap pure["views"]
      PROVE  /\ IdsShown(ModuleInspect("views", m))
                  = {v.xmlid : v \in {v \in Views(m) : v.kind = "view"}}
             /\ IdsShown(ModuleInspect("qweb", m))
                  = {v.xmlid : v \in {v \in Views(m) : v.kind = "template"}}
  <2>1. IdsShown(ModuleInspect("views", m)) = XmlIds(OfKind(m, "view"))
    BY ViewsAreSeen
  <2>2. IdsShown(ModuleInspect("qweb", m)) = XmlIds(OfKind(m, "template"))
    BY TemplatesAreSeen
  <2>3. QED
    BY <2>1, <2>2 DEF XmlIds, OfKind
<1>3. AllSeen(ListJsPatches(None, None), Sure(graph.patches))
  BY PatchesAreSeen
<1>4. QED
  BY <1>1, <1>2, <1>3 DEF PagesAreComplete

\* Who follows the pager of a list that does not change meanwhile sees as many rows
\* as there are, whatever order each page gives to rows of equal keys; each field and
\* method of a model, and each patch, once, but those that two collected modules have
\* left of one name; the views and templates of a module, while what was written of
\* it is one content, in which no template has two bases. The fields shown are found
\* by the other tools (_list_fields, _list_methods, _list_views,
\* _list_qweb_templates, _list_js_patches, _resolve_field).
THEOREM PagesAreAlwaysComplete ==
  Unambiguous /\ ReadAsWritten /\ OwnIds /\ OneBase /\ Spec => []PagesAreComplete
<1> SUFFICES ASSUME Unambiguous, ReadAsWritten, OwnIds, OneBase PROVE Spec => []PagesAreComplete
  OBVIOUS
<1> DEFINE Base  == SoundInv /\ RunsAreOK /\ GraphOK /\ HistOK /\ WrittenOK /\ DataOK(graph)
           Known == ViewsExact /\ EdgesFrom /\ IndexedOK /\ AtWork
           Inv   == Base /\ Known
<1>1. Init => Inv
  BY SoundInit, GraphOKInit, HistInit, WrittenInit, DataInit, StemsInit, AtWorkInit, ViewsExactInit
<1>2. Inv /\ [Next]_vars => Inv'
  <2> SUFFICES ASSUME Inv, [Next]_vars PROVE Inv'
    OBVIOUS
  <2>1. GraphMove
    BY MovesAre DEF GraphOK
  <2>2. Base'
    BY <2>1, SoundStep, GraphOKStep, HistStep, WrittenStep, DataStep
  <2>3. Known'
    BY <2>1, ViewsExactStep, AtWorkStep, IndexedStep
  <2>4. QED
    BY <2>2, <2>3
<1>3. Inv => PagesAreComplete
  BY PagesAre
<1>4. QED
  BY <1>1, <1>2, <1>3, PTL DEF Spec

=============================================================================
