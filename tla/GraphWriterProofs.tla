---------------------------- MODULE GraphWriterProofs ---------------------------
(***************************************************************************)
(* Theorems about the knowledge graph that runs of the indexer write, for  *)
(* every value of the constants: its structure, the uses of deprecated     *)
(* symbols, and the invariant of what was written.                         *)
(*                                                                         *)
(* The writers fold over sets of names and over lists, so a proof about    *)
(* them goes by the trace of a fold (FoldTrace, ListFold).  Every step of  *)
(* the system is then one of a few moves of the graph (MovesAre), and each *)
(* theorem is an invariant of those moves.                                 *)
(***************************************************************************)
EXTENDS SpecLayerProofs

-----------------------------------------------------------------------------
(* Folds over sets, and the order of a list                                *)

\* Kahn's queue after one more module of S.
Kahn(S, a) ==
  IF a.queue = <<>> THEN a
  ELSE LET out   == Append(a.out, Head(a.queue))
           ready == {m \in S : /\ Head(a.queue) \in Parse(m).depends \cap S
                               /\ Parse(m).depends \cap S \subseteq ToSet(out)}
       IN  [out |-> out, queue |-> Tail(a.queue) \o Sorted(ready)]

\* What is near with one more step along the edges; where a path leads with one
\* more hop.
Near(edges, starts, near) == near \cup {e[2] : e \in {e \in edges : e[1] \in near \cup starts}}
Hop(path, at, i) ==
  LET info == LookupField(at.model, path[i]) IN
  CASE at.error # None  -> at
    [] at.error = None /\ info = NotFound -> [at EXCEPT !.error = "missing"]
    [] at.error = None /\ info # NotFound /\ i = Len(path) -> [at EXCEPT !.field = path[i]]
    [] OTHER -> CASE info.ttype \notin Relational -> [at EXCEPT !.error = "not_relational"]
                  [] info.ttype \in Relational /\ info.comodel = None ->
                       [at EXCEPT !.error = "dangling_comodel"]
                  [] OTHER -> [at EXCEPT !.model = info.comodel]

\* The folds of the model: what becomes of g with one more item x of l, and which
\* item of T is the last one.
Put(kind, m, l, g, x) ==
  CASE kind = "order"   -> Append(g, x)
    [] kind = "kahn"    -> Kahn(m, g)
    [] kind = "models"  -> WriteModel(g, m, l[x])
    [] kind = "views"   -> WriteView(g, m, l[x])
    [] kind = "comps"   -> WriteComp(g, m, l[x])
    [] kind = "patches" -> WritePatch(g, m, l[x])
    [] kind = "sheets"  -> WriteSheet(g, m, l[x])
    [] kind = "batch"   -> WriteStylesheets(g, l[x], Parse(l[x]))
    [] kind = "near"    -> Near(m, l, g)
    [] kind = "hop"     -> Hop(m, g, l[x])
LastOf(kind, l, T) == IF kind = "order" THEN LastBy(T, l) ELSE Max(T)

IsFold(h, kind, m, l, base, D) ==
  h = [s \in D |-> IF s = {} THEN base
                   ELSE Put(kind, m, l, h[s \ {LastOf(kind, l, s)}], LastOf(kind, l, s))]

\* Induction, over a set of numbers.
LEMMA Induction ==
  ASSUME NEW T, 0 \in T, \A k \in Nat : k \in T => k + 1 \in T
  PROVE  Nat \subseteq T
<1> SUFFICES ASSUME Nat \ T # {} PROVE FALSE
  OBVIOUS
<1>1. IsWellFoundedOn(Below, Nat)
  BY NatLessThanWellFounded DEF Below, OpToRel
<1>2. PICK x \in Nat \ T : \A y \in Nat \ T : ~ (<<y, x>> \in Below)
  BY <1>1, WFMin
<1>3. x # 0 /\ x - 1 \in Nat /\ x - 1 < x /\ (x - 1) + 1 = x
  OBVIOUS
<1>4. x - 1 \in T
  BY <1>2, <1>3 DEF Below
<1>5. QED
  BY <1>3, <1>4

\* The fold over a finite set is well defined.
LEMMA FoldExists ==
  ASSUME NEW kind, NEW m, NEW l, NEW base, NEW S, IsFiniteSet(S),
         \A s \in SUBSET S : s # {} => LastOf(kind, l, s) \in s
  PROVE  \E h : IsFold(h, kind, m, l, base, SUBSET S)
<1> DEFINE Size(n) == {s \in SUBSET S : Cardinality(s) <= n}
           T == {n \in Nat : \E h : IsFold(h, kind, m, l, base, Size(n))}
<1>1. \A s \in SUBSET S : IsFiniteSet(s) /\ Cardinality(s) \in Nat
  BY FS_Subset, FS_CardinalityType
<1>2. 0 \in T
  <2>1. Size(0) = {{}}
    BY <1>1, FS_EmptySet
  <2>2. PICK h : h = [s \in Size(0) |-> base]
    OBVIOUS
  <2>3. IsFold(h, kind, m, l, base, Size(0))
    BY <2>1, <2>2 DEF IsFold
  <2>4. QED
    BY <2>3
<1>3. ASSUME NEW n \in Nat, n \in T PROVE n + 1 \in T
  <2>1. PICK h : IsFold(h, kind, m, l, base, Size(n))
    BY <1>3
  <2>2. \A s \in Size(n + 1) : s # {} => s \ {LastOf(kind, l, s)} \in Size(n)
    <3>1. SUFFICES ASSUME NEW s \in Size(n + 1), s # {}
                   PROVE  s \ {LastOf(kind, l, s)} \in Size(n)
      OBVIOUS
    <3>2. PICK x : x = LastOf(kind, l, s)
      OBVIOUS
    <3>3. IsFiniteSet(s) /\ x \in s /\ s \in SUBSET S /\ Cardinality(s) \in Nat
      BY <1>1, <3>1, <3>2
    <3>4. Cardinality(s \ {x}) = Cardinality(s) - 1
      BY <3>3, FS_RemoveElement
    <3>5. QED
      BY <3>2, <3>3, <3>4
  <2>3. Size(n) \subseteq Size(n + 1)
    BY <1>1
  <2> HIDE DEF Size
  <2>4. PICK f : f = [s \in Size(n + 1) |-> IF s = {} THEN base
                        ELSE Put(kind, m, l, h[s \ {LastOf(kind, l, s)}], LastOf(kind, l, s))]
    OBVIOUS
  <2>5. \A s \in Size(n) : f[s] = h[s]
    BY <2>1, <2>3, <2>4 DEF IsFold
  <2>6. f = [s \in Size(n + 1) |-> IF s = {} THEN base
                        ELSE Put(kind, m, l, f[s \ {LastOf(kind, l, s)}], LastOf(kind, l, s))]
    BY <2>2, <2>4, <2>5
  <2>7. IsFold(f, kind, m, l, base, Size(n + 1))
    BY <2>6 DEF IsFold
  <2>8. QED
    BY <2>7
<1>4. Nat \subseteq T
  <2> HIDE DEF T
  <2>1. QED
    BY <1>2, <1>3, Induction
<1>5. Cardinality(S) \in Nat /\ Size(Cardinality(S)) = SUBSET S
  BY <1>1, FS_Subset
<1>6. PICK h : IsFold(h, kind, m, l, base, Size(Cardinality(S)))
  BY <1>4, <1>5
<1> HIDE DEF Size, T
<1>7. IsFold(h, kind, m, l, base, SUBSET S)
  BY <1>5, <1>6
<1>8. QED
  BY <1>7

\* A fold over a list goes from base, item by item, through the graphs t.
Trace(t, kind, m, l, base, n) ==
  /\ t[0] = base
  /\ \A i \in 1 .. n : t[i] = Put(kind, m, l, t[i - 1], i)

Ends(w, kind, m, l, base, n) == \E t : Trace(t, kind, m, l, base, n) /\ t[n] = w

LEMMA FoldTrace ==
  ASSUME NEW kind, kind # "order", NEW m, NEW l, NEW base, NEW n \in Nat,
         NEW h, IsFold(h, kind, m, l, base, SUBSET (1 .. n))
  PROVE  Ends(h[1 .. n], kind, m, l, base, n)
<1>1. PICK t : t = [i \in 0 .. n |-> h[1 .. i]]
  OBVIOUS
<1>2. t[0] = base
  <2>1. 1 .. 0 = {} /\ {} \in SUBSET (1 .. n)
    OBVIOUS
  <2>2. QED
    BY <1>1, <2>1 DEF IsFold
<1>3. ASSUME NEW i \in 1 .. n PROVE t[i] = Put(kind, m, l, t[i - 1], i)
  <2>1. 1 .. i \in SUBSET (1 .. n) /\ 1 .. i # {} /\ 1 .. i \subseteq 0 .. i
    OBVIOUS
  <2>2. Max(1 .. i) \in 1 .. i /\ \A y \in 1 .. i : y <= Max(1 .. i)
    <3>1. i \in Nat
      OBVIOUS
    <3>2. QED
      BY <2>1, <3>1, MaxIs
  <2>3. Max(1 .. i) = i
    BY <2>2
  <2>4. (1 .. i) \ {i} = 1 .. (i - 1)
    OBVIOUS
  <2>5. h[1 .. i] = Put(kind, m, l, h[1 .. (i - 1)], i)
    BY <2>1, <2>3, <2>4 DEF IsFold, LastOf
  <2>6. QED
    BY <1>1, <2>5
<1>4. Trace(t, kind, m, l, base, n)
  BY <1>2, <1>3 DEF Trace
<1>5. t[n] = h[1 .. n]
  BY <1>1
<1>6. QED
  BY <1>4, <1>5 DEF Ends

LEMMA ListFold ==
  ASSUME NEW kind, kind # "order", NEW m, NEW l, NEW base, NEW n \in Nat
  PROVE  \E h : IsFold(h, kind, m, l, base, SUBSET (1 .. n))
<1>1. IsFiniteSet(1 .. n)
  BY FS_Interval
<1>2. ASSUME NEW s \in SUBSET (1 .. n), s # {} PROVE LastOf(kind, l, s) \in s
  <2>1. s \subseteq 0 .. n
    OBVIOUS
  <2>2. QED
    BY <1>2, <2>1, MaxIs DEF LastOf
<1>3. QED
  BY <1>1, <1>2, FoldExists

\* The graphs the writes of a module begin with, and its components written.
Opened(g, m, c) == [WithStubs(g, c.depends) EXCEPT !.mods[m] = "indexed",
                                                   !.depends = @ \cup {m} \X c.depends]
ViewBase(g, m, c) == IF c.views = <<>> THEN g ELSE WithStubs(g, {m})
JsBase(g, m, c) == IF c.comps = <<>> /\ c.patches = <<>> THEN g ELSE WithStubs(g, {m})
WithComps(g, m, c) == FoldLeft(LAMBDA h, x : WriteComp(h, m, x), JsBase(g, m, c), c.comps)

\* What write_results does of the classes of a module, one after the other.
LEMMA ModelsFold ==
  ASSUME NEW g, NEW m, NEW c, NEW n \in Nat, DOMAIN c.models = 1 .. n
  PROVE  Ends(WriteParseResult(g, m, c), "models", m, c.models, Opened(g, m, c), n)
<1> DEFINE base == Opened(g, m, c)
           l == c.models
           Eq(h) == h = [s \in SUBSET (DOMAIN l) |-> IF s = {} THEN base
                           ELSE WriteModel(h[s \ {Max(s)}], m, l[Max(s)])]
<1>1. WriteParseResult(g, m, c) = (CHOOSE h : Eq(h))[DOMAIN l]
  BY DEF WriteParseResult, Opened, FoldLeft, MapThenFoldSet
<1>2. PICK kind : kind = "models"
  OBVIOUS
<1>3. \A h : Eq(h) <=> IsFold(h, kind, m, l, base, SUBSET (1 .. n))
  BY <1>2 DEF IsFold, Put, LastOf
<1> HIDE DEF base
<1>4. kind # "order" /\ DOMAIN l = 1 .. n
  BY <1>2
<1> HIDE DEF l, Eq
<1>5. \E h : Eq(h)
  BY <1>3, <1>4, ListFold
<1>6. PICK h : h = (CHOOSE x : Eq(x)) /\ Eq(h)
  BY <1>5
<1>7. IsFold(h, kind, m, l, base, SUBSET (1 .. n))
  BY <1>3, <1>6
<1>8. Ends(h[1 .. n], kind, m, l, base, n)
  BY <1>4, <1>7, FoldTrace
<1>9. QED
  BY <1>1, <1>2, <1>4, <1>6, <1>8 DEF base, l

\* What write_view_results does of the views of a module, one after the other.
LEMMA ViewsFold ==
  ASSUME NEW g, NEW m, NEW c, NEW n \in Nat, DOMAIN c.views = 1 .. n
  PROVE  Ends(WriteViewParseResult(g, m, c), "views", m, c.views, ViewBase(g, m, c), n)
<1> DEFINE base == ViewBase(g, m, c)
           l == c.views
           Eq(h) == h = [s \in SUBSET (DOMAIN l) |-> IF s = {} THEN base
                           ELSE WriteView(h[s \ {Max(s)}], m, l[Max(s)])]
<1>1. WriteViewParseResult(g, m, c) = (CHOOSE h : Eq(h))[DOMAIN l]
  BY DEF WriteViewParseResult, ViewBase, FoldLeft, MapThenFoldSet
<1>2. PICK kind : kind = "views"
  OBVIOUS
<1>3. \A h : Eq(h) <=> IsFold(h, kind, m, l, base, SUBSET (1 .. n))
  BY <1>2 DEF IsFold, Put, LastOf
<1> HIDE DEF base
<1>4. kind # "order" /\ DOMAIN l = 1 .. n
  BY <1>2
<1> HIDE DEF l, Eq
<1>5. \E h : Eq(h)
  BY <1>3, <1>4, ListFold
<1>6. PICK h : h = (CHOOSE x : Eq(x)) /\ Eq(h)
  BY <1>5
<1>7. IsFold(h, kind, m, l, base, SUBSET (1 .. n))
  BY <1>3, <1>6
<1>8. Ends(h[1 .. n], kind, m, l, base, n)
  BY <1>4, <1>7, FoldTrace
<1>9. QED
  BY <1>1, <1>2, <1>4, <1>6, <1>8 DEF base, l

\* What write_js_graph_results does of the components of a module, one after the other.
LEMMA CompsFold ==
  ASSUME NEW g, NEW m, NEW c, NEW n \in Nat, DOMAIN c.comps = 1 .. n
  PROVE  Ends(WithComps(g, m, c), "comps", m, c.comps, JsBase(g, m, c), n)
<1> DEFINE base == JsBase(g, m, c)
           l == c.comps
           Eq(h) == h = [s \in SUBSET (DOMAIN l) |-> IF s = {} THEN base
                           ELSE WriteComp(h[s \ {Max(s)}], m, l[Max(s)])]
<1>1. WithComps(g, m, c) = (CHOOSE h : Eq(h))[DOMAIN l]
  BY DEF WithComps, FoldLeft, MapThenFoldSet
<1>2. PICK kind : kind = "comps"
  OBVIOUS
<1>3. \A h : Eq(h) <=> IsFold(h, kind, m, l, base, SUBSET (1 .. n))
  BY <1>2 DEF IsFold, Put, LastOf
<1> HIDE DEF base
<1>4. kind # "order" /\ DOMAIN l = 1 .. n
  BY <1>2
<1> HIDE DEF l, Eq
<1>5. \E h : Eq(h)
  BY <1>3, <1>4, ListFold
<1>6. PICK h : h = (CHOOSE x : Eq(x)) /\ Eq(h)
  BY <1>5
<1>7. IsFold(h, kind, m, l, base, SUBSET (1 .. n))
  BY <1>3, <1>6
<1>8. Ends(h[1 .. n], kind, m, l, base, n)
  BY <1>4, <1>7, FoldTrace
<1>9. QED
  BY <1>1, <1>2, <1>4, <1>6, <1>8 DEF base, l

\* What it does of the patches then, one after the other.
LEMMA PatchesFold ==
  ASSUME NEW g, NEW m, NEW c, NEW n \in Nat, DOMAIN c.patches = 1 .. n
  PROVE  Ends(WriteJsGraphResult(g, m, c), "patches", m, c.patches, WithComps(g, m, c), n)
<1> DEFINE base == WithComps(g, m, c)
           l == c.patches
           Eq(h) == h = [s \in SUBSET (DOMAIN l) |-> IF s = {} THEN base
                           ELSE WritePatch(h[s \ {Max(s)}], m, l[Max(s)])]
<1>1. WriteJsGraphResult(g, m, c) = (CHOOSE h : Eq(h))[DOMAIN l]
  BY DEF WriteJsGraphResult, WithComps, JsBase, FoldLeft, MapThenFoldSet
<1>2. PICK kind : kind = "patches"
  OBVIOUS
<1>3. \A h : Eq(h) <=> IsFold(h, kind, m, l, base, SUBSET (1 .. n))
  BY <1>2 DEF IsFold, Put, LastOf
<1> HIDE DEF base
<1>4. kind # "order" /\ DOMAIN l = 1 .. n
  BY <1>2
<1> HIDE DEF l, Eq
<1>5. \E h : Eq(h)
  BY <1>3, <1>4, ListFold
<1>6. PICK h : h = (CHOOSE x : Eq(x)) /\ Eq(h)
  BY <1>5
<1>7. IsFold(h, kind, m, l, base, SUBSET (1 .. n))
  BY <1>3, <1>6
<1>8. Ends(h[1 .. n], kind, m, l, base, n)
  BY <1>4, <1>7, FoldTrace
<1>9. QED
  BY <1>1, <1>2, <1>4, <1>6, <1>8 DEF base, l

\* What write_stylesheets does of the stylesheets of a module, one after the other.
LEMMA SheetsFold ==
  ASSUME NEW g, NEW m, NEW c, NEW n \in Nat, DOMAIN c.sheets = 1 .. n
  PROVE  Ends(WriteStylesheets(g, m, c), "sheets", m, c.sheets, g, n)
<1> DEFINE base == g
           l == c.sheets
           Eq(h) == h = [s \in SUBSET (DOMAIN l) |-> IF s = {} THEN base
                           ELSE WriteSheet(h[s \ {Max(s)}], m, l[Max(s)])]
<1>1. WriteStylesheets(g, m, c) = (CHOOSE h : Eq(h))[DOMAIN l]
  BY DEF WriteStylesheets, FoldLeft, MapThenFoldSet
<1>2. PICK kind : kind = "sheets"
  OBVIOUS
<1>3. \A h : Eq(h) <=> IsFold(h, kind, m, l, base, SUBSET (1 .. n))
  BY <1>2 DEF IsFold, Put, LastOf
<1> HIDE DEF base
<1>4. kind # "order" /\ DOMAIN l = 1 .. n
  BY <1>2
<1> HIDE DEF l, Eq
<1>5. \E h : Eq(h)
  BY <1>3, <1>4, ListFold
<1>6. PICK h : h = (CHOOSE x : Eq(x)) /\ Eq(h)
  BY <1>5
<1>7. IsFold(h, kind, m, l, base, SUBSET (1 .. n))
  BY <1>3, <1>6
<1>8. Ends(h[1 .. n], kind, m, l, base, n)
  BY <1>4, <1>7, FoldTrace
<1>9. QED
  BY <1>1, <1>2, <1>4, <1>6, <1>8 DEF base, l

\* What the batch of the stylesheets does of the modules of a run, one after the other.
LEMMA BatchFold ==
  ASSUME NEW g, NEW m, NEW c, NEW n \in Nat, DOMAIN c = 1 .. n
  PROVE  Ends(FoldLeft(LAMBDA h, x : WriteStylesheets(h, x, Parse(x)), g, c), "batch", m, c, g, n)
<1> DEFINE base == g
           l == c
           Eq(h) == h = [s \in SUBSET (DOMAIN l) |-> IF s = {} THEN base
                           ELSE WriteStylesheets(h[s \ {Max(s)}], l[Max(s)], Parse(l[Max(s)]))]
<1>1. FoldLeft(LAMBDA h, x : WriteStylesheets(h, x, Parse(x)), g, c) = (CHOOSE h : Eq(h))[DOMAIN l]
  BY DEF FoldLeft, MapThenFoldSet
<1>2. PICK kind : kind = "batch"
  OBVIOUS
<1>3. \A h : Eq(h) <=> IsFold(h, kind, m, l, base, SUBSET (1 .. n))
  BY <1>2 DEF IsFold, Put, LastOf
<1> HIDE DEF base
<1>4. kind # "order" /\ DOMAIN l = 1 .. n
  BY <1>2
<1> HIDE DEF l, Eq
<1>5. \E h : Eq(h)
  BY <1>3, <1>4, ListFold
<1>6. PICK h : h = (CHOOSE x : Eq(x)) /\ Eq(h)
  BY <1>5
<1>7. IsFold(h, kind, m, l, base, SUBSET (1 .. n))
  BY <1>3, <1>6
<1>8. Ends(h[1 .. n], kind, m, l, base, n)
  BY <1>4, <1>7, FoldTrace
<1>9. QED
  BY <1>1, <1>2, <1>4, <1>6, <1>8 DEF base, l

-----------------------------------------------------------------------------
(* Sorting                                                                    *)

\* R orders some of the members of S before others.
Orders(R, S) ==
  /\ \A x \in S : <<x, x>> \notin R
  /\ \A x, y, z \in S : <<x, y>> \in R /\ <<y, z>> \in R => <<x, z>> \in R

LEMMA LastIs ==
  ASSUME NEW S, IsFiniteSet(S), NEW R, Orders(R, S), NEW U \in SUBSET S, U # {}
  PROVE  LastBy(U, R) \in U /\ \A y \in U : <<LastBy(U, R), y>> \notin R
<1> DEFINE Has(V) == \E x \in V : \A y \in V : <<x, y>> \notin R
           T == {n \in Nat : \A V \in SUBSET S : (Cardinality(V) = n /\ V # {}) => Has(V)}
<1>1. \A V \in SUBSET S : IsFiniteSet(V) /\ Cardinality(V) \in Nat
  BY FS_Subset, FS_CardinalityType
<1>2. 0 \in T
  BY <1>1, FS_EmptySet
<1>3. ASSUME NEW n \in Nat, n \in T PROVE n + 1 \in T
  <2>1. SUFFICES ASSUME NEW V \in SUBSET S, Cardinality(V) = n + 1 PROVE Has(V)
    OBVIOUS
  <2>2. PICK u \in V : TRUE
    BY <1>1, <2>1, FS_EmptySet
  <2>3. PICK W \in SUBSET S : W = V \ {u}
    OBVIOUS
  <2>4. Cardinality(W) = n
    BY <1>1, <2>1, <2>2, <2>3, FS_RemoveElement
  <2>5. CASE W = {}
    BY <2>2, <2>3, <2>5 DEF Orders
  <2>6. CASE W # {}
    <3>1. PICK x \in W : \A y \in W : <<x, y>> \notin R
      BY <1>3, <2>4, <2>6
    <3>2. CASE <<x, u>> \notin R
      BY <2>3, <3>1, <3>2
    <3>3. CASE <<x, u>> \in R
      <4>1. ASSUME NEW y \in V PROVE <<u, y>> \notin R
        <5>1. CASE y = u
          BY <2>2, <5>1 DEF Orders
        <5>2. CASE y # u
          <6>1. y \in W /\ x \in S /\ u \in S /\ y \in S
            BY <2>2, <2>3, <3>1, <5>2
          <6>2. <<x, y>> \notin R
            BY <3>1, <6>1
          <6>3. QED
            BY <3>3, <6>1, <6>2 DEF Orders
        <5>3. QED
          BY <5>1, <5>2
      <4>2. QED
        BY <2>2, <4>1
    <3>4. QED
      BY <3>2, <3>3
  <2>7. QED
    BY <2>5, <2>6
<1>4. Nat \subseteq T
  <2> HIDE DEF T
  <2>1. QED
    BY <1>2, <1>3, Induction
<1>5. Has(U)
  BY <1>1, <1>4
<1>6. QED
  BY <1>5 DEF LastBy

\* A sequence of the members of U, each once, in an order that respects R.
Ordered(q, U, R) ==
  /\ q \in Seq(U) /\ Len(q) = Cardinality(U)
  /\ \A x \in U : \E i \in 1 .. Len(q) : q[i] = x
  /\ \A i, j \in 1 .. Len(q) : i < j => q[i] # q[j] /\ <<q[j], q[i]>> \notin R

LEMMA AppendLast ==
  ASSUME NEW U, IsFiniteSet(U), NEW R, NEW x \in U, \A y \in U : <<x, y>> \notin R,
         NEW q, Ordered(q, U \ {x}, R)
  PROVE  Ordered(Append(q, x), U, R)
<1>1. PICK p : p = Append(q, x)
  OBVIOUS
<1>2. q \in Seq(U)
  BY SeqMonotonic DEF Ordered
<1>3. /\ p \in Seq(U) /\ Len(p) = Len(q) + 1 /\ p[Len(q) + 1] = x
      /\ \A i \in 1 .. Len(q) : p[i] = q[i]
  BY <1>1, <1>2, AppendProperties
<1>4. Cardinality(U) = Cardinality(U \ {x}) + 1 /\ Len(q) \in Nat
  <2>1. Cardinality(U) \in Nat /\ Cardinality(U \ {x}) = Cardinality(U) - 1
    BY FS_RemoveElement, FS_CardinalityType
  <2>2. QED
    BY <1>2, <2>1, LenProperties
<1>5. Len(p) = Cardinality(U)
  BY <1>3, <1>4 DEF Ordered
<1>6. \A i \in 1 .. Len(q) : q[i] \in U \ {x}
  BY ElementOfSeq DEF Ordered
<1>7. ASSUME NEW y \in U PROVE \E i \in 1 .. Len(p) : p[i] = y
  <2>1. CASE y = x
    BY <1>3, <1>4, <2>1
  <2>2. CASE y # x
    <3>1. PICK i \in 1 .. Len(q) : q[i] = y
      BY <2>2 DEF Ordered
    <3>2. i \in 1 .. Len(p) /\ p[i] = y
      BY <1>3, <1>4, <3>1
    <3>3. QED
      BY <3>2
  <2>3. QED
    BY <2>1, <2>2
<1>8. ASSUME NEW i \in 1 .. Len(p), NEW j \in 1 .. Len(p), i < j
      PROVE  p[i] # p[j] /\ <<p[j], p[i]>> \notin R
  <2>1. i \in 1 .. Len(q) /\ p[i] = q[i] /\ q[i] \in U /\ q[i] # x
    BY <1>3, <1>4, <1>6, <1>8
  <2>2. CASE j = Len(q) + 1
    BY <1>3, <2>1, <2>2
  <2>3. CASE j # Len(q) + 1
    <3>1. j \in 1 .. Len(q) /\ p[j] = q[j]
      BY <1>3, <1>4, <2>3
    <3>2. QED
      BY <1>8, <2>1, <3>1 DEF Ordered
  <2>4. QED
    BY <2>2, <2>3
<1>9. \A y \in U : \E i \in 1 .. Len(p) : p[i] = y
  BY <1>7
<1>10. \A i, j \in 1 .. Len(p) : i < j => p[i] # p[j] /\ <<p[j], p[i]>> \notin R
  BY <1>8
<1>11. Ordered(p, U, R)
  BY <1>3, <1>5, <1>9, <1>10 DEF Ordered
<1>12. QED
  BY <1>1, <1>11

LEMMA SortByIs ==
  ASSUME NEW S, IsFiniteSet(S), NEW R, Orders(R, S)
  PROVE  Ordered(SortBy(S, R), S, R)
<1> DEFINE Eq(h) == h = [s \in SUBSET S |-> IF s = {} THEN <<>>
                           ELSE Append(h[s \ {LastBy(s, R)}], LastBy(s, R))]
<1>1. SortBy(S, R) = (CHOOSE h : Eq(h))[S]
  BY DEF SortBy, MapThenFoldSet
<1>2. PICK kind, m, base : kind = "order" /\ m = 0 /\ base = <<>>
  OBVIOUS
<1>3. \A h : Eq(h) <=> IsFold(h, kind, m, R, base, SUBSET S)
  BY <1>2 DEF IsFold, Put, LastOf
<1>4. \A s \in SUBSET S : s # {} => LastOf(kind, R, s) \in s
  BY <1>2, LastIs DEF LastOf
<1>5. PICK h : h = (CHOOSE x : Eq(x)) /\ Eq(h)
  <2> HIDE DEF Eq
  <2>1. \E h : IsFold(h, kind, m, R, base, SUBSET S)
    BY <1>4, FoldExists
  <2>2. QED
    BY <1>3, <2>1
<1> DEFINE T == {n \in Nat : \A U \in SUBSET S : Cardinality(U) = n => Ordered(h[U], U, R)}
<1>6. \A V \in SUBSET S : IsFiniteSet(V) /\ Cardinality(V) \in Nat
  BY FS_Subset, FS_CardinalityType
<1>7. 0 \in T
  <2>1. ASSUME NEW U \in SUBSET S, Cardinality(U) = 0 PROVE Ordered(h[U], U, R)
    <3>1. U = {}
      BY <1>6, <2>1, FS_EmptySet
    <3>2. h[U] = <<>>
      BY <1>5, <3>1
    <3>3. QED
      BY <2>1, <3>1, <3>2 DEF Ordered
  <2>2. QED
    BY <2>1
<1>8. ASSUME NEW n \in Nat, n \in T PROVE n + 1 \in T
  <2>1. SUFFICES ASSUME NEW U \in SUBSET S, Cardinality(U) = n + 1 PROVE Ordered(h[U], U, R)
    OBVIOUS
  <2>2. U # {}
    BY <2>1, FS_EmptySet
  <2>3. PICK x : x = LastBy(U, R)
    OBVIOUS
  <2>4. x \in U /\ \A y \in U : <<x, y>> \notin R
    BY <2>2, <2>3, LastIs
  <2>5. Cardinality(U \ {x}) = n
    BY <1>6, <2>1, <2>4, FS_RemoveElement
  <2>6. Ordered(h[U \ {x}], U \ {x}, R)
    BY <1>8, <2>5
  <2>7. h[U] = Append(h[U \ {x}], x)
    BY <1>5, <2>2, <2>3
  <2>8. QED
    BY <1>6, <2>4, <2>6, <2>7, AppendLast
<1>9. Nat \subseteq T
  <2> HIDE DEF T
  <2>1. QED
    BY <1>7, <1>8, Induction
<1>10. QED
  BY <1>1, <1>5, <1>6, <1>9

\* Numbers in their order.
LEMMA SortedIs ==
  ASSUME NEW S \in SUBSET Nat, IsFiniteSet(S)
  PROVE  /\ Sorted(S) \in Seq(S) /\ Len(Sorted(S)) = Cardinality(S)
         /\ \A x \in S : \E i \in 1 .. Len(Sorted(S)) : Sorted(S)[i] = x
<1>1. PICK R : R = {p \in S \X S : p[1] < p[2]}
  OBVIOUS
<1>2. Orders(R, S)
  BY <1>1 DEF Orders
<1>3. Ordered(SortBy(S, R), S, R)
  BY <1>2, SortByIs
<1>4. QED
  BY <1>1, <1>3 DEF Sorted, Ordered

\* topological_sort gives modules of its own.
LEMMA KahnIs ==
  ASSUME NEW S \in SUBSET Nat, IsFiniteSet(S), NEW a, a.out \in Seq(S), a.queue \in Seq(S)
  PROVE  Kahn(S, a).out \in Seq(S) /\ Kahn(S, a).queue \in Seq(S)
<1>1. CASE a.queue = <<>>
  BY <1>1 DEF Kahn
<1>2. CASE a.queue # <<>>
  <2>1. PICK out : out = Append(a.out, Head(a.queue))
    OBVIOUS
  <2>2. PICK ready \in SUBSET S : ready =
          {m \in S : /\ Head(a.queue) \in Parse(m).depends \cap S
                     /\ Parse(m).depends \cap S \subseteq ToSet(out)}
    OBVIOUS
  <2>3. Kahn(S, a) = [out |-> out, queue |-> Tail(a.queue) \o Sorted(ready)]
    BY <1>2, <2>1, <2>2 DEF Kahn
  <2>4. Head(a.queue) \in S /\ Tail(a.queue) \in Seq(S)
    BY <1>2, HeadTailProperties
  <2>5. out \in Seq(S)
    BY <2>1, <2>4, AppendProperties
  <2>6. Sorted(ready) \in Seq(S)
    <3>1. ready \in SUBSET Nat /\ IsFiniteSet(ready)
      BY <2>2, FS_Subset
    <3>2. Sorted(ready) \in Seq(ready)
      BY <3>1, SortedIs
    <3>3. QED
      BY <2>2, <3>2, SeqMonotonic
  <2>7. Tail(a.queue) \o Sorted(ready) \in Seq(S)
    BY <2>4, <2>6, ConcatProperties
  <2>8. QED
    BY <2>3, <2>5, <2>7
<1>3. QED
  BY <1>1, <1>2

KahnBase(S) == [out |-> <<>>, queue |-> Sorted({m \in S : Parse(m).depends \cap S = {}})]

LEMMA KahnFold ==
  ASSUME NEW S, NEW l, NEW n \in Nat, DOMAIN l = 1 .. n, l = Sorted(1 .. Cardinality(S))
  PROVE  \E e : /\ Ends(e, "kahn", S, l, KahnBase(S), n)
                /\ TopologicalSort(S) = e.out \o Sorted(S \ ToSet(e.out))
<1> DEFINE Eq(h) == h = [s \in SUBSET (DOMAIN l) |-> IF s = {} THEN KahnBase(S)
                           ELSE Kahn(S, h[s \ {Max(s)}])]
           e == (CHOOSE h : Eq(h))[DOMAIN l]
<1>1. TopologicalSort(S) = e.out \o Sorted(S \ ToSet(e.out))
  BY DEF TopologicalSort, FoldLeft, MapThenFoldSet, KahnBase, Kahn
<1>2. PICK kind : kind = "kahn"
  OBVIOUS
<1>3. \A h : Eq(h) <=> IsFold(h, kind, S, l, KahnBase(S), SUBSET (1 .. n))
  BY <1>2 DEF IsFold, Put, LastOf
<1>4. kind # "order"
  BY <1>2
<1> HIDE DEF Eq
<1>5. \E h : Eq(h)
  BY <1>3, <1>4, ListFold
<1>6. PICK h : h = (CHOOSE x : Eq(x)) /\ Eq(h)
  BY <1>5
<1>7. IsFold(h, kind, S, l, KahnBase(S), SUBSET (1 .. n))
  BY <1>3, <1>6
<1>8. Ends(h[1 .. n], kind, S, l, KahnBase(S), n)
  BY <1>4, <1>7, FoldTrace
<1>9. QED
  BY <1>1, <1>2, <1>6, <1>8

LEMMA TopologicalSortIs ==
  ASSUME NEW S \in SUBSET Nat, IsFiniteSet(S), S # {}
  PROVE  TopologicalSort(S) \in Seq(S) /\ TopologicalSort(S) # <<>>
<1>1. PICK l : l = Sorted(1 .. Cardinality(S))
  OBVIOUS
<1>2. PICK n \in Nat : DOMAIN l = 1 .. n
  <2>1. Cardinality(S) \in Nat
    BY FS_CardinalityType
  <2>2. 1 .. Cardinality(S) \in SUBSET Nat /\ IsFiniteSet(1 .. Cardinality(S))
    BY <2>1, FS_Interval
  <2>3. l \in Seq(1 .. Cardinality(S))
    BY <1>1, <2>2, SortedIs
  <2>4. QED
    BY <2>3
<1>3. PICK e : /\ Ends(e, "kahn", S, l, KahnBase(S), n)
               /\ TopologicalSort(S) = e.out \o Sorted(S \ ToSet(e.out))
  BY <1>1, <1>2, KahnFold
<1>4. PICK t : Trace(t, "kahn", S, l, KahnBase(S), n) /\ t[n] = e
  BY <1>3 DEF Ends
<1> DEFINE T == {k \in Nat : k <= n => t[k].out \in Seq(S) /\ t[k].queue \in Seq(S)}
<1>5. 0 \in T
  <2>1. PICK U \in SUBSET S : U = {m \in S : Parse(m).depends \cap S = {}}
    OBVIOUS
  <2>2. U \in SUBSET Nat /\ IsFiniteSet(U)
    BY FS_Subset
  <2>3. Sorted(U) \in Seq(S)
    BY <2>2, SortedIs, SeqMonotonic
  <2>4. t[0] = [out |-> <<>>, queue |-> Sorted(U)]
    BY <1>4, <2>1 DEF Trace, KahnBase
  <2>5. t[0].out \in Seq(S) /\ t[0].queue \in Seq(S)
    BY <2>3, <2>4, EmptySeq
  <2>6. QED
    BY <2>5
<1>6. ASSUME NEW k \in Nat, k \in T PROVE k + 1 \in T
  <2>1. SUFFICES ASSUME k + 1 <= n PROVE t[k + 1].out \in Seq(S) /\ t[k + 1].queue \in Seq(S)
    OBVIOUS
  <2>2. t[k + 1] = Kahn(S, t[k])
    BY <1>4, <2>1 DEF Trace, Put
  <2>3. t[k].out \in Seq(S) /\ t[k].queue \in Seq(S)
    BY <1>6, <2>1
  <2>4. QED
    BY <2>2, <2>3, KahnIs
<1>7. e.out \in Seq(S)
  <2>1. Nat \subseteq T
    <3> HIDE DEF T
    <3>1. QED
      BY <1>5, <1>6, Induction
  <2>2. QED
    BY <1>4, <2>1
<1>8. PICK V \in SUBSET S : V = S \ ToSet(e.out)
  OBVIOUS
<1>9. V \in SUBSET Nat /\ IsFiniteSet(V)
  BY FS_Subset
<1>10. Sorted(V) \in Seq(V) /\ \A x \in V : \E i \in 1 .. Len(Sorted(V)) : Sorted(V)[i] = x
  BY <1>9, SortedIs
<1>11. Sorted(V) \in Seq(S)
  BY <1>10, SeqMonotonic
<1>12. TopologicalSort(S) \in Seq(S)
  <2>1. TopologicalSort(S) = e.out \o Sorted(V)
    BY <1>3, <1>8
  <2>2. e.out \o Sorted(V) \in Seq(S)
    BY <1>7, <1>11, ConcatProperties
  <2>3. QED
    BY <2>1, <2>2
<1>13. TopologicalSort(S) # <<>>
  <2>1. CASE e.out = <<>>
    <3>1. V = S
      BY <1>8, <2>1 DEF ToSet
    <3>2. Sorted(V) # <<>>
      <4>1. PICK x \in V : TRUE
        BY <3>1
      <4>2. PICK i \in 1 .. Len(Sorted(V)) : Sorted(V)[i] = x
        BY <1>10, <4>1
      <4>3. Len(Sorted(V)) # 0
        BY <4>2
      <4>4. QED
        BY <4>3, EmptySeq
    <3>3. QED
      BY <1>3, <1>7, <1>8, <1>11, <3>2, ConcatEqualIffEmpty
  <2>2. CASE e.out # <<>>
    BY <1>3, <1>7, <1>8, <1>11, <2>2, ConcatEqualIffEmpty
  <2>3. QED
    BY <2>1, <2>2
<1>14. QED
  BY <1>12, <1>13

-----------------------------------------------------------------------------
(* The graph, and what the node of a model and of a view is once written   *)

-----------------------------------------------------------------------------
(* What each write does                                                       *)

GraphKeys == {"mods", "depends", "models", "inherits", "delegates", "fields", "methods",
              "uses", "views", "extends", "targets", "comps", "compExtends", "bound",
              "patches", "patchEdges", "sheets", "imports", "definedIn"}
IsGraph(g) == DOMAIN g = GraphKeys

\* g and h agree on the parts of each layer.
SameMods(g, h)   == h.mods = g.mods /\ h.depends = g.depends
SameModels(g, h) ==
  /\ h.models = g.models /\ h.inherits = g.inherits /\ h.delegates = g.delegates
  /\ h.fields = g.fields /\ h.methods = g.methods /\ h.uses = g.uses
SameViews(g, h)  == h.views = g.views /\ h.extends = g.extends /\ h.targets = g.targets
SameJs(g, h)     ==
  /\ h.comps = g.comps /\ h.compExtends = g.compExtends /\ h.bound = g.bound
  /\ h.patches = g.patches /\ h.patchEdges = g.patchEdges
SameSheets(g, h) == h.sheets = g.sheets /\ h.imports = g.imports

\* h has all of f, unchanged but for the members of new.
Extends(h, f, new) ==
  /\ DOMAIN f \cup new \subseteq DOMAIN h
  /\ \A x \in DOMAIN f \ new : h[x] = f[x]

LEMMA StubsIs ==
  ASSUME NEW g, IsGraph(g), NEW ms, NEW h, h = WithStubs(g, ms)
  PROVE  /\ IsGraph(h) /\ h.depends = g.depends /\ h.definedIn = g.definedIn
         /\ SameModels(g, h) /\ SameViews(g, h) /\ SameJs(g, h) /\ SameSheets(g, h)
         /\ h.mods = [m \in Modules |-> IF m \in ms /\ g.mods[m] = "absent" THEN "stub"
                                        ELSE g.mods[m]]
BY DEF WithStubs, IsGraph, GraphKeys, SameModels, SameViews, SameJs, SameSheets

LEMMA OpenedIs ==
  ASSUME NEW g, IsGraph(g), NEW m \in Modules, NEW c, NEW h, h = Opened(g, m, c)
  PROVE  /\ IsGraph(h) /\ h.definedIn = g.definedIn
         /\ SameModels(g, h) /\ SameViews(g, h) /\ SameJs(g, h) /\ SameSheets(g, h)
         /\ h.depends = g.depends \cup {m} \X c.depends
         /\ h.mods = [y \in Modules |-> IF y = m THEN "indexed"
                                        ELSE IF y \in c.depends /\ g.mods[y] = "absent" THEN "stub"
                                        ELSE g.mods[y]]
<1>1. PICK f : f = WithStubs(g, c.depends)
  OBVIOUS
<1>2. /\ IsGraph(f) /\ f.depends = g.depends /\ f.definedIn = g.definedIn
      /\ SameModels(g, f) /\ SameViews(g, f) /\ SameJs(g, f) /\ SameSheets(g, f)
      /\ f.mods = [y \in Modules |-> IF y \in c.depends /\ g.mods[y] = "absent" THEN "stub"
                                     ELSE g.mods[y]]
  BY <1>1, StubsIs
<1>3. h = [f EXCEPT !.mods = [f.mods EXCEPT ![m] = "indexed"],
                    !.depends = f.depends \cup {m} \X c.depends]
  BY <1>1 DEF Opened
<1>4. /\ IsGraph(h) /\ h.mods = [f.mods EXCEPT ![m] = "indexed"]
      /\ h.depends = f.depends \cup {m} \X c.depends /\ h.definedIn = f.definedIn
      /\ SameModels(f, h) /\ SameViews(f, h) /\ SameJs(f, h) /\ SameSheets(f, h)
  BY <1>2, <1>3 DEF IsGraph, GraphKeys, SameModels, SameViews, SameJs, SameSheets
<1>5. QED
  BY <1>2, <1>4 DEF SameModels, SameViews, SameJs, SameSheets

\* The class d of m is written.
ModelId(m, d) == [name |-> d.name, module |-> m]
Member(m, d, n) == [name |-> n, model |-> d.name, module |-> m]
IsHeld(x) == x.module = Unresolved

ModelWritten(g, h, m, d) ==
  /\ IsGraph(h) /\ SameMods(g, h) /\ SameViews(g, h) /\ SameJs(g, h) /\ SameSheets(g, h)
  /\ h.definedIn = g.definedIn \cup {<<"Model", ModelId(m, d)>>}
  /\ Extends(h.models, g.models, {ModelId(m, d)})
  /\ h.models[ModelId(m, d)] =
       [def |-> \/ d.explicit /\ d.name \notin d.inherit
                \/ ModelId(m, d) \in DOMAIN g.models /\ g.models[ModelId(m, d)].def,
        unresolved |-> FALSE]
  /\ \A x \in DOMAIN h.models \ (DOMAIN g.models \cup {ModelId(m, d)}) :
       IsHeld(x) /\ h.models[x].unresolved /\ ~h.models[x].def
  /\ DOMAIN h.models \subseteq DOMAIN g.models \cup {ModelId(m, d)} \cup
       {ModelPlaceholder(n) : n \in d.inherit \cup {e[1] : e \in d.delegates}}
  /\ g.inherits \subseteq h.inherits /\ g.delegates \subseteq h.delegates
  /\ \A n \in d.inherit \ {d.name} : \A x \in ResolvedModels(g, n) :
       <<ModelId(m, d), x>> \in h.inherits
  /\ \A e \in d.delegates : \A x \in ResolvedModels(g, e[1]) :
       <<ModelId(m, d), e[2], x>> \in h.delegates
  /\ \A e \in h.inherits \ g.inherits : e[1] = ModelId(m, d) /\ e[2] \in DOMAIN h.models
  /\ Extends(h.fields, g.fields, {Member(m, d, n) : n \in DOMAIN d.fields})
  /\ DOMAIN h.fields = DOMAIN g.fields \cup {Member(m, d, n) : n \in DOMAIN d.fields}
  /\ \A n \in DOMAIN d.fields : h.fields[Member(m, d, n)] = d.fields[n]
  /\ DOMAIN h.methods = DOMAIN g.methods \cup {Member(m, d, n) : n \in DOMAIN d.methods}
  /\ h.uses = g.uses \cup UNION {{<<Member(m, d, n), s>> : s \in
                UNION {DeprecatedNamed(ref) : ref \in d.methods[n].refs}} :
                  n \in DOMAIN d.methods}

LEMMA WriteModelIs ==
  ASSUME NEW g, IsGraph(g), NEW m \in Modules, NEW d, NEW h, h = WriteModel(g, m, d)
  PROVE  ModelWritten(g, h, m, d)
<1> DEFINE id == ModelId(m, d)
           node == [def |-> (d.explicit /\ d.name \notin d.inherit)
                              \/ (id \in DOMAIN g.models /\ g.models[id].def),
                    unresolved |-> FALSE]
           g1 == [g EXCEPT !.models = Over([x \in {id} |-> node], @),
                           !.definedIn = @ \cup {<<"Model", id>>}]
           others == {n \in d.inherit : n # d.name}
           selfs == {x \in ModelsNamed(g1, d.name) : d.name \in d.inherit /\ x.module # m}
           parents == UNION {ParentsNamed(g1, n) : n \in others}
           hosts == UNION {{<<id, e[2], x>> : x \in ParentsNamed(g1, e[1])} : e \in d.delegates}
           linked == parents \cup {p[3] : p \in hosts}
           holders == [x \in {x \in linked : x.module = Unresolved} |->
                         [def |-> FALSE, unresolved |-> TRUE]]
           fieldOf == [x \in {Member(m, d, n) : n \in DOMAIN d.fields} |-> d.fields[x.name]]
           methOf == [x \in {Member(m, d, n) : n \in DOMAIN d.methods} |->
                        [super |-> d.methods[x.name].super, depends |-> d.methods[x.name].depends]]
           used == UNION {{<<Member(m, d, n), s>> : s \in
                       UNION {DeprecatedNamed(ref) : ref \in d.methods[n].refs}} :
                         n \in DOMAIN d.methods}
<1>1. h = [g1 EXCEPT !.models    = Over(g1.models, holders),
                     !.inherits  = g1.inherits \cup {<<id, x>> : x \in selfs \cup parents},
                     !.delegates = g1.delegates \cup hosts,
                     !.fields    = Over(fieldOf, g1.fields),
                     !.methods   = Over(methOf, g1.methods),
                     !.uses      = g1.uses \cup used]
  BY DEF WriteModel, ModelId, Member
<1>2. /\ IsGraph(g1) /\ g1.models = Over([x \in {id} |-> node], g.models)
      /\ g1.definedIn = g.definedIn \cup {<<"Model", id>>}
      /\ g1.inherits = g.inherits /\ g1.delegates = g.delegates /\ g1.fields = g.fields
      /\ g1.methods = g.methods /\ g1.uses = g.uses
      /\ SameMods(g, g1) /\ SameViews(g, g1) /\ SameJs(g, g1) /\ SameSheets(g, g1)
  <2> HIDE DEF node, id
  <2>1. QED
    BY DEF IsGraph, GraphKeys, SameMods, SameViews, SameJs, SameSheets
<1>3. \A x \in parents : x \in DOMAIN g1.models \/ IsHeld(x)
  <2> HIDE DEF g1
  <2>1. ASSUME NEW n, NEW x \in ParentsNamed(g1, n) PROVE x \in DOMAIN g1.models \/ IsHeld(x)
    BY DEF ParentsNamed, ModelPlaceholder, ResolvedModels, ModelsNamed, IsHeld
  <2>2. QED
    BY <2>1
<1>4. selfs \subseteq DOMAIN g1.models
  BY DEF ModelsNamed
<1>5. \A x \in DOMAIN holders : IsHeld(x) /\ holders[x] = [def |-> FALSE, unresolved |-> TRUE]
  BY DEF IsHeld
<1>6. \A x \in parents : IsHeld(x) => x \in DOMAIN holders
  BY DEF IsHeld
<1>20. DOMAIN holders \subseteq DOMAIN g1.models \cup
          {ModelPlaceholder(n) : n \in d.inherit \cup {e[1] : e \in d.delegates}}
  <2> HIDE DEF g1
  <2>1. \A n : ParentsNamed(g1, n) \subseteq DOMAIN g1.models \cup {ModelPlaceholder(n)}
    BY DEF ParentsNamed, ResolvedModels, ModelsNamed
  <2>2. \A x \in parents : x \in DOMAIN g1.models \cup {ModelPlaceholder(n) : n \in d.inherit}
    BY <2>1
  <2>3. ASSUME NEW p \in hosts
        PROVE  p[3] \in DOMAIN g1.models \cup
                 {ModelPlaceholder(n) : n \in {e[1] : e \in d.delegates}}
    <3>1. PICK e \in d.delegates : p \in {<<id, e[2], x>> : x \in ParentsNamed(g1, e[1])}
      OBVIOUS
    <3>2. PICK x \in ParentsNamed(g1, e[1]) : p = <<id, e[2], x>>
      BY <3>1
    <3>3. QED
      BY <2>1, <3>2
  <2> HIDE DEF parents, hosts
  <2>4. DOMAIN holders \subseteq linked
    OBVIOUS
  <2>5. QED
    BY <2>2, <2>3, <2>4
<1>21. /\ \A n \in d.inherit \ {d.name} : ResolvedModels(g1, n) \subseteq parents
       /\ \A e \in d.delegates : \A x \in ResolvedModels(g1, e[1]) : <<id, e[2], x>> \in hosts
  <2> HIDE DEF g1, id
  <2>1. \A n : ResolvedModels(g1, n) \subseteq ParentsNamed(g1, n)
    BY DEF ParentsNamed
  <2>2. QED
    BY <2>1
<1> HIDE DEF g1, selfs, parents, hosts, linked, holders, used
<1>7. /\ IsGraph(h) /\ h.models = Over(g1.models, holders) /\ h.definedIn = g1.definedIn
      /\ h.inherits = g1.inherits \cup {<<id, x>> : x \in selfs \cup parents}
      /\ h.fields = Over(fieldOf, g1.fields) /\ h.methods = Over(methOf, g1.methods)
      /\ h.uses = g1.uses \cup used /\ h.delegates = g1.delegates \cup hosts
      /\ SameMods(g1, h) /\ SameViews(g1, h) /\ SameJs(g1, h) /\ SameSheets(g1, h)
  <2> HIDE DEF fieldOf, methOf, id
  <2>1. QED
    BY <1>1, <1>2 DEF IsGraph, GraphKeys, SameMods, SameViews, SameJs, SameSheets
<1>8. /\ DOMAIN g1.models = DOMAIN g.models \cup {id} /\ g1.models[id] = node
      /\ \A x \in DOMAIN g.models \ {id} : g1.models[x] = g.models[x]
  <2> HIDE DEF node, id
  <2>1. QED
    BY <1>2 DEF Over
<1>9. /\ DOMAIN h.models = DOMAIN g1.models \cup DOMAIN holders
      /\ \A x \in DOMAIN g1.models : h.models[x] = g1.models[x]
      /\ \A x \in DOMAIN holders \ DOMAIN g1.models : h.models[x] = holders[x]
  BY <1>7 DEF Over
<1>10. /\ Extends(h.models, g.models, {id}) /\ h.models[id] = node
       /\ \A x \in DOMAIN h.models \ (DOMAIN g.models \cup {id}) :
              IsHeld(x) /\ h.models[x].unresolved /\ ~h.models[x].def
  <2>1. Extends(h.models, g.models, {id})
    <3> HIDE DEF node, id
    <3>1. QED
      BY <1>8, <1>9 DEF Extends
  <2>2. h.models[id] = node
    <3> HIDE DEF node, id
    <3>1. QED
      BY <1>8, <1>9
  <2>3. ASSUME NEW x \in DOMAIN h.models \ (DOMAIN g.models \cup {id})
        PROVE  IsHeld(x) /\ h.models[x].unresolved /\ ~h.models[x].def
    <3>1. x \in DOMAIN holders \ DOMAIN g1.models
      <4> HIDE DEF node, id
      <4>1. QED
        BY <1>8, <1>9
    <3>2. QED
      BY <1>5, <1>9, <3>1
  <2>4. QED
    BY <2>1, <2>2, <2>3
<1>11. g.inherits \subseteq h.inherits /\ g.delegates \subseteq h.delegates
  BY <1>2, <1>7
<1>22. DOMAIN h.models \subseteq DOMAIN g.models \cup {id} \cup
         {ModelPlaceholder(n) : n \in d.inherit \cup {e[1] : e \in d.delegates}}
  <2> HIDE DEF node, id
  <2>1. QED
    BY <1>8, <1>9, <1>20
<1>23. \A n : ResolvedModels(g, n) \subseteq ResolvedModels(g1, n)
  <2>1. ~g1.models[id].unresolved
    BY <1>8
  <2> HIDE DEF node, id
  <2>2. QED
    BY <1>8, <2>1 DEF ResolvedModels, ModelsNamed
<1>24. /\ \A n \in d.inherit \ {d.name} : \A x \in ResolvedModels(g, n) : <<id, x>> \in h.inherits
       /\ \A e \in d.delegates : \A x \in ResolvedModels(g, e[1]) :
            <<id, e[2], x>> \in h.delegates
  <2> HIDE DEF id, node
  <2>1. QED
    BY <1>7, <1>21, <1>23
<1>12. ASSUME NEW e \in h.inherits \ g.inherits PROVE e[1] = id /\ e[2] \in DOMAIN h.models
  <2>1. PICK x \in selfs \cup parents : e = <<id, x>>
    BY <1>2, <1>7
  <2>2. x \in DOMAIN h.models
    BY <1>3, <1>4, <1>6, <1>9
  <2>3. QED
    BY <2>1, <2>2
<1>13. /\ DOMAIN h.fields = DOMAIN g.fields \cup {Member(m, d, n) : n \in DOMAIN d.fields}
       /\ \A x \in {Member(m, d, n) : n \in DOMAIN d.fields} : h.fields[x] = d.fields[x.name]
       /\ \A x \in DOMAIN g.fields \ {Member(m, d, n) : n \in DOMAIN d.fields} :
            h.fields[x] = g.fields[x]
  BY <1>2, <1>7 DEF Over
<1>14. \A n \in DOMAIN d.fields : h.fields[Member(m, d, n)] = d.fields[n]
  <2>1. \A n : Member(m, d, n).name = n
    BY DEF Member
  <2>2. QED
    BY <1>13, <2>1
<1>15. DOMAIN h.methods = DOMAIN g.methods \cup {Member(m, d, n) : n \in DOMAIN d.methods}
  BY <1>2, <1>7 DEF Over
<1>16. Extends(h.fields, g.fields, {Member(m, d, n) : n \in DOMAIN d.fields})
  BY <1>13 DEF Extends
<1>17. h.uses = g.uses \cup used /\ h.definedIn = g.definedIn \cup {<<"Model", id>>}
  BY <1>2, <1>7
<1>18. SameMods(g, h) /\ SameViews(g, h) /\ SameJs(g, h) /\ SameSheets(g, h)
  BY <1>2, <1>7 DEF SameMods, SameViews, SameJs, SameSheets
<1>19. QED
  BY <1>7, <1>10, <1>11, <1>12, <1>13, <1>14, <1>15, <1>16, <1>17, <1>18, <1>22, <1>24 DEF used, ModelWritten

\* The view or template v of m is written: to the nodes of its name, or a new one.
NodesOf(g, v) == IF ViewNodes(g, v.kind, v.xmlid) = {}
                 THEN {[kind |-> v.kind, xmlid |-> v.xmlid, n |-> 1]}
                 ELSE ViewNodes(g, v.kind, v.xmlid)

LEMMA NodesAre ==
  ASSUME NEW g, NEW v
  PROVE  /\ NodesOf(g, v) # {} /\ ViewNodes(g, v.kind, v.xmlid) \subseteq NodesOf(g, v)
         /\ \A x \in NodesOf(g, v) : x.kind = v.kind /\ x.xmlid = v.xmlid
         /\ \A x \in NodesOf(g, v) \cap DOMAIN g.views : x \in ViewNodes(g, v.kind, v.xmlid)
<1>1. PICK hits : hits = ViewNodes(g, v.kind, v.xmlid)
  OBVIOUS
<1>2. \A x : x \in hits <=> x \in DOMAIN g.views /\ x.kind = v.kind /\ x.xmlid = v.xmlid
  BY <1>1 DEF ViewNodes
<1>3. PICK node : node = [kind |-> v.kind, xmlid |-> v.xmlid, n |-> 1]
  OBVIOUS
<1>4. node.kind = v.kind /\ node.xmlid = v.xmlid
  BY <1>3
<1>5. NodesOf(g, v) = IF hits = {} THEN {node} ELSE hits
  BY <1>1, <1>3 DEF NodesOf
<1>6. CASE hits = {}
  BY <1>1, <1>2, <1>4, <1>5, <1>6
<1>7. CASE hits # {}
  BY <1>1, <1>2, <1>5, <1>7
<1>8. QED
  BY <1>6, <1>7

\* A node beside those of D has the next number.
Numbered(x, D) == \E T \in SUBSET D : x.n = Max({0} \cup {y.n : y \in T}) + 1

ViewWritten(g, h, m, v, nodes) ==
  /\ IsGraph(h) /\ SameMods(g, h) /\ SameModels(g, h) /\ SameJs(g, h) /\ SameSheets(g, h)
  /\ h.definedIn = g.definedIn \cup {<<"View", x>> : x \in nodes}
  /\ h.targets = g.targets \cup nodes \X ModelsNamed(g, v.model)
  /\ Extends(h.views, g.views, nodes)
  /\ \A x \in nodes :
       /\ h.views[x].module = m /\ h.views[x].model = v.model
       /\ h.views[x].unresolved <=> /\ x \in ViewNodes(g, v.kind, v.xmlid)
                                    /\ g.views[x].unresolved
  /\ \A x \in DOMAIN h.views \ (DOMAIN g.views \cup nodes) :
       /\ x.kind = v.kind /\ x.xmlid = v.base /\ v.base # None
       /\ Numbered(x, DOMAIN g.views \cup nodes)
       /\ h.views[x] = [module |-> Unresolved, model |-> None, unresolved |-> TRUE]
  /\ g.extends \subseteq h.extends
  /\ h.extends \subseteq g.extends \cup nodes \X ViewNodes(h, v.kind, v.base)
  /\ v.base # None => \A x \in nodes : \A y \in DOMAIN h.views :
       (y \notin nodes /\ y \in ResolvedViews(g, v.kind, v.base)) => <<x, y>> \in h.extends
  /\ \/ v.base = None \/ ResolvedViews(g, v.kind, v.base) # {}
     => DOMAIN h.views = DOMAIN g.views \cup nodes
  /\ \E z : DOMAIN h.views \subseteq DOMAIN g.views \cup nodes \cup {z}

LEMMA WriteViewIs ==
  ASSUME NEW g, IsGraph(g), NEW m \in Modules, NEW v, NEW h, h = WriteView(g, m, v),
         NEW nodes, nodes = NodesOf(g, v)
  PROVE  ViewWritten(g, h, m, v, nodes)
<1> DEFINE hits == ViewNodes(g, v.kind, v.xmlid)
           own == IF hits = {} THEN {[kind |-> v.kind, xmlid |-> v.xmlid, n |-> 1]} ELSE hits
           new == [x \in nodes |-> [module |-> m, model |-> v.model,
                                    unresolved |-> x \in hits /\ g.views[x].unresolved]]
           g1 == [g EXCEPT
                 !.views = Over(new, g.views),
                 !.definedIn = g.definedIn \cup {<<"View", x>> : x \in nodes},
                 !.targets = g.targets \cup nodes \X ModelsNamed(g, v.model)]
           based == ViewNodes(g1, v.kind, v.base)
           bases == ResolvedViews(g1, v.kind, v.base)
           stubs == {x \in based : g1.views[x].module = Unresolved}
           held == IF stubs # {} THEN stubs
                   ELSE {[kind |-> v.kind, xmlid |-> v.base, n |-> Max({0} \cup {x.n : x \in based}) + 1]}
           holder == [x \in held |-> [module |-> Unresolved, model |-> None, unresolved |-> TRUE]]
<1>1. h = CASE v.base = None -> g1
            [] v.base # None /\ bases # {} -> [g1 EXCEPT !.extends = @ \cup nodes \X bases]
            [] OTHER -> [g1 EXCEPT !.views = Over(@, holder), !.extends = @ \cup nodes \X held]
  <2> DEFINE F(ns) ==
        LET k1 == [g EXCEPT
                     !.views = Over([x \in ns |-> [module |-> m, model |-> v.model,
                                       unresolved |-> x \in hits /\ g.views[x].unresolved]], g.views),
                     !.definedIn = g.definedIn \cup {<<"View", x>> : x \in ns},
                     !.targets = g.targets \cup ns \X ModelsNamed(g, v.model)]
            near == ViewNodes(k1, v.kind, v.base)
            found == ResolvedViews(k1, v.kind, v.base)
            waits == {x \in near : k1.views[x].module = Unresolved}
            kept  == IF waits # {} THEN waits
                     ELSE {[kind |-> v.kind, xmlid |-> v.base, n |-> Max({0} \cup {x.n : x \in near}) + 1]}
        IN  CASE v.base = None -> k1
              [] v.base # None /\ found # {} -> [k1 EXCEPT !.extends = @ \cup ns \X found]
              [] OTHER -> [k1 EXCEPT
                   !.views   = Over(@, [x \in kept |-> [module |-> Unresolved, model |-> None,
                                                        unresolved |-> TRUE]]),
                   !.extends = @ \cup ns \X kept]
  <2>1. WriteView(g, m, v) = F(own)
    BY DEF WriteView
  <2>2. nodes = own
    BY DEF NodesOf
  <2>3. h = F(nodes)
    <3> HIDE DEF F, own
    <3>1. QED
      BY <2>1, <2>2
  <2>4. QED
    BY <2>3
<1>2. /\ IsGraph(g1) /\ g1.views = Over(new, g.views) /\ g1.extends = g.extends
      /\ g1.definedIn = g.definedIn \cup {<<"View", x>> : x \in nodes}
      /\ g1.targets = g.targets \cup nodes \X ModelsNamed(g, v.model)
      /\ SameMods(g, g1) /\ SameModels(g, g1) /\ SameJs(g, g1) /\ SameSheets(g, g1)
  <2> HIDE DEF new
  <2>1. QED
    BY DEF IsGraph, GraphKeys, SameMods, SameModels, SameJs, SameSheets
<1> HIDE DEF g1
<1>12. ASSUME NEW x \in nodes
       PROVE  /\ new[x].module = m /\ new[x].model = v.model
              /\ new[x].unresolved <=> x \in ViewNodes(g, v.kind, v.xmlid) /\ g.views[x].unresolved
  OBVIOUS
<1>3. /\ DOMAIN g1.views = DOMAIN g.views \cup nodes
      /\ \A x \in nodes : g1.views[x] = new[x]
      /\ \A x \in DOMAIN g.views \ nodes : g1.views[x] = g.views[x]
  <2>1. DOMAIN new = nodes
    OBVIOUS
  <2> HIDE DEF new
  <2>2. QED
    BY <1>2, <2>1 DEF Over
<1>4. /\ ResolvedViews(g, v.kind, v.base) \ nodes \subseteq bases
      /\ ResolvedViews(g, v.kind, v.base) # {} => bases # {}
  <2>1. ASSUME NEW x \in nodes \cap DOMAIN g.views, ~g.views[x].unresolved
        PROVE  ~g1.views[x].unresolved
    <3>1. new[x].unresolved = (x \in hits /\ g.views[x].unresolved)
      OBVIOUS
    <3> HIDE DEF new
    <3>2. g1.views[x] = new[x]
      BY <1>3
    <3>3. QED
      BY <2>1, <3>1, <3>2
  <2> HIDE DEF new
  <2>2. QED
    BY <1>3, <2>1 DEF ResolvedViews, ViewNodes
<1>5. bases \subseteq ViewNodes(g1, v.kind, v.base)
  BY DEF ResolvedViews
<1>6. \A x \in held : x.kind = v.kind /\ x.xmlid = v.base
  BY DEF ViewNodes
<1>11. \E z : held \subseteq DOMAIN g1.views \cup {z}
  <2>1. stubs \subseteq DOMAIN g1.views
    BY DEF ViewNodes
  <2>2. QED
    BY <2>1
<1>13. ASSUME NEW x \in held \ DOMAIN g1.views PROVE Numbered(x, DOMAIN g1.views)
  <2>1. stubs \subseteq DOMAIN g1.views /\ based \subseteq DOMAIN g1.views
    BY DEF ViewNodes
  <2>2. x.n = Max({0} \cup {y.n : y \in based}) + 1
    BY <1>13, <2>1
  <2>3. QED
    BY <2>1, <2>2 DEF Numbered
<1> HIDE DEF bases, held, new
<1>7. CASE v.base = None
  <2>1. h = g1
    BY <1>1, <1>7
  <2>2. QED
    BY <1>2, <1>3, <1>7, <1>12, <2>1 DEF Extends, ViewWritten
<1>8. CASE v.base # None /\ bases # {}
  <2>1. h = [g1 EXCEPT !.extends = @ \cup nodes \X bases]
    BY <1>1, <1>8
  <2>2. /\ IsGraph(h) /\ h.views = g1.views /\ h.extends = g1.extends \cup nodes \X bases
        /\ h.definedIn = g1.definedIn /\ h.targets = g1.targets
        /\ SameMods(g1, h) /\ SameModels(g1, h) /\ SameJs(g1, h) /\ SameSheets(g1, h)
    BY <1>2, <2>1 DEF IsGraph, GraphKeys, SameMods, SameModels, SameJs, SameSheets
  <2>3. SameMods(g, h) /\ SameModels(g, h) /\ SameJs(g, h) /\ SameSheets(g, h)
    BY <1>2, <2>2 DEF SameMods, SameModels, SameJs, SameSheets
  <2>4. ViewNodes(h, v.kind, v.base) = ViewNodes(g1, v.kind, v.base)
    BY <2>2 DEF ViewNodes
  <2>5. QED
    BY <1>2, <1>3, <1>4, <1>5, <1>8, <1>12, <2>2, <2>3, <2>4 DEF Extends, ViewWritten
<1>9. CASE v.base # None /\ bases = {}
  <2>1. h = [g1 EXCEPT !.views = Over(@, holder), !.extends = @ \cup nodes \X held]
    BY <1>1, <1>9
  <2>2. /\ IsGraph(h) /\ h.views = Over(g1.views, holder) /\ h.extends = g1.extends \cup nodes \X held
        /\ h.definedIn = g1.definedIn /\ h.targets = g1.targets
        /\ SameMods(g1, h) /\ SameModels(g1, h) /\ SameJs(g1, h) /\ SameSheets(g1, h)
    <3> HIDE DEF holder
    <3>1. QED
      BY <1>2, <2>1 DEF IsGraph, GraphKeys, SameMods, SameModels, SameJs, SameSheets
  <2>3. SameMods(g, h) /\ SameModels(g, h) /\ SameJs(g, h) /\ SameSheets(g, h)
    BY <1>2, <2>2 DEF SameMods, SameModels, SameJs, SameSheets
  <2>4. /\ DOMAIN h.views = DOMAIN g1.views \cup held
        /\ \A x \in DOMAIN g1.views : h.views[x] = g1.views[x]
        /\ \A x \in held \ DOMAIN g1.views :
             h.views[x] = [module |-> Unresolved, model |-> None, unresolved |-> TRUE]
    BY <2>2 DEF Over
  <2>5. held \subseteq ViewNodes(h, v.kind, v.base)
    BY <1>6, <2>4 DEF ViewNodes
  <2>6. Extends(h.views, g.views, nodes)
    BY <1>3, <2>4 DEF Extends
  <2>7. \A x \in nodes :
          /\ h.views[x].module = m /\ h.views[x].model = v.model
          /\ h.views[x].unresolved <=> x \in ViewNodes(g, v.kind, v.xmlid) /\ g.views[x].unresolved
    BY <1>3, <1>12, <2>4
  <2>8. \A x \in DOMAIN h.views \ (DOMAIN g.views \cup nodes) :
              /\ x.kind = v.kind /\ x.xmlid = v.base /\ v.base # None
              /\ Numbered(x, DOMAIN g.views \cup nodes)
              /\ h.views[x] = [module |-> Unresolved, model |-> None, unresolved |-> TRUE]
    BY <1>3, <1>6, <1>9, <1>13, <2>4
  <2>9. /\ g.extends \subseteq h.extends
        /\ h.extends \subseteq g.extends \cup nodes \X ViewNodes(h, v.kind, v.base)
    BY <1>2, <2>2, <2>5
  <2>10. QED
    BY <1>2, <1>3, <1>4, <1>9, <1>11, <2>2, <2>3, <2>4, <2>6, <2>7, <2>8, <2>9 DEF ViewWritten
<1>10. QED
  BY <1>7, <1>8, <1>9

-----------------------------------------------------------------------------
(* What the nodes of the JS layers are once written, and what a deletion leaves*)

\* The component c of m is written.
CompId(m, c) == [name |-> c.name, module |-> m]
CompWritten(g, h, m, c) ==
  /\ IsGraph(h) /\ SameMods(g, h) /\ SameModels(g, h) /\ SameViews(g, h) /\ SameSheets(g, h)
  /\ h.definedIn = g.definedIn \cup {<<"OWLComp", CompId(m, c)>>}
  /\ h.patches = g.patches /\ h.patchEdges = g.patchEdges
  /\ DOMAIN h.comps = DOMAIN g.comps \cup {CompId(m, c)}
  /\ Extends(h.comps, g.comps, {CompId(m, c)})
  /\ h.comps[CompId(m, c)] = [unresolved |-> FALSE, bound |-> c.bound]
  /\ h.bound = g.bound \cup {CompId(m, c)} \X ModelsNamed(g, c.bound)

LEMMA WriteCompIs ==
  ASSUME NEW g, IsGraph(g), NEW m \in Modules, NEW c, NEW h, h = WriteComp(g, m, c)
  PROVE  CompWritten(g, h, m, c)
<1> DEFINE id == CompId(m, c)
           node == [x \in {id} |-> [unresolved |-> FALSE, bound |-> c.bound]]
           g1 == [g EXCEPT !.comps = Over(node, @),
                           !.definedIn = @ \cup {<<"OWLComp", id>>}]
<1>1. h = [g1 EXCEPT !.compExtends = @ \cup {id} \X CompsNamed(g1, c.extends),
                     !.bound       = @ \cup {id} \X ModelsNamed(g1, c.bound)]
  BY DEF WriteComp, CompId
<1>2. DOMAIN node = {id} /\ node[id] = [unresolved |-> FALSE, bound |-> c.bound]
  OBVIOUS
<1> HIDE DEF node, id
<1>3. /\ IsGraph(g1) /\ SameMods(g, g1) /\ SameModels(g, g1) /\ SameViews(g, g1) /\ SameSheets(g, g1)
      /\ g1.comps = Over(node, g.comps) /\ g1.definedIn = g.definedIn \cup {<<"OWLComp", id>>}
      /\ g1.patches = g.patches /\ g1.patchEdges = g.patchEdges /\ g1.bound = g.bound
  BY DEF IsGraph, GraphKeys, SameMods, SameModels, SameViews, SameSheets
<1>4. ModelsNamed(g1, c.bound) = ModelsNamed(g, c.bound)
  BY <1>3 DEF ModelsNamed, SameModels
<1> HIDE DEF g1
<1>5. /\ IsGraph(h) /\ SameMods(g1, h) /\ SameModels(g1, h) /\ SameViews(g1, h) /\ SameSheets(g1, h)
      /\ h.comps = g1.comps /\ h.definedIn = g1.definedIn /\ h.patches = g1.patches
      /\ h.patchEdges = g1.patchEdges /\ h.bound = g1.bound \cup {id} \X ModelsNamed(g1, c.bound)
  BY <1>1, <1>3 DEF IsGraph, GraphKeys, SameMods, SameModels, SameViews, SameSheets
<1>6. SameMods(g, h) /\ SameModels(g, h) /\ SameViews(g, h) /\ SameSheets(g, h)
  BY <1>3, <1>5 DEF SameMods, SameModels, SameViews, SameSheets
<1>7. /\ DOMAIN h.comps = DOMAIN g.comps \cup {id} /\ h.comps[id] = node[id]
      /\ \A x \in DOMAIN g.comps \ {id} : h.comps[x] = g.comps[x]
  BY <1>2, <1>3, <1>5 DEF Over
<1>8. Extends(h.comps, g.comps, {id})
  BY <1>7 DEF Extends
<1>9. QED
  BY <1>2, <1>3, <1>4, <1>5, <1>6, <1>7, <1>8 DEF id, CompWritten

\* The patch p of m is written.
PatchId(m, p) == [target |-> p.target, name |-> p.name, module |-> m]
PatchWritten(g, h, m, p) ==
  /\ IsGraph(h) /\ SameMods(g, h) /\ SameModels(g, h) /\ SameViews(g, h) /\ SameSheets(g, h)
  /\ h.definedIn = g.definedIn \cup {<<"JSPatch", PatchId(m, p)>>}
  /\ h.bound = g.bound /\ h.compExtends = g.compExtends
  /\ h.patches = g.patches \cup {PatchId(m, p)}
  /\ Extends(h.comps, g.comps, {})
  /\ \A x \in DOMAIN h.comps \ DOMAIN g.comps : IsHeld(x) /\ h.comps[x].unresolved
  /\ \E z : DOMAIN h.comps \subseteq DOMAIN g.comps \cup {z}
  /\ g.patchEdges \subseteq h.patchEdges
  /\ h.patchEdges \subseteq g.patchEdges \cup {PatchId(m, p)} \X (DOMAIN h.comps)
  /\ \A x \in CompsNamed(g, p.target) :
       ~g.comps[x].unresolved => <<PatchId(m, p), x>> \in h.patchEdges

LEMMA WritePatchIs ==
  ASSUME NEW g, IsGraph(g), NEW m \in Modules, NEW p, NEW h, h = WritePatch(g, m, p)
  PROVE  PatchWritten(g, h, m, p)
<1> DEFINE id == PatchId(m, p)
           found == {x \in CompsNamed(g, p.target) : ~g.comps[x].unresolved}
           held == [name |-> p.target, module |-> Unresolved]
           holder == [x \in {held} |-> [unresolved |-> TRUE, bound |-> None]]
           g1 == [g EXCEPT !.patches = @ \cup {id}, !.definedIn = @ \cup {<<"JSPatch", id>>}]
<1>1. h = IF found # {} THEN [g1 EXCEPT !.patchEdges = @ \cup {id} \X found]
          ELSE [g1 EXCEPT !.comps = Over(@, holder), !.patchEdges = @ \cup {<<id, held>>}]
  BY DEF WritePatch, PatchId
<1>2. DOMAIN holder = {held} /\ IsHeld(held) /\ holder[held].unresolved
  BY DEF IsHeld
<1> HIDE DEF holder, held, id
<1>3. /\ IsGraph(g1) /\ SameMods(g, g1) /\ SameModels(g, g1) /\ SameViews(g, g1) /\ SameSheets(g, g1)
      /\ g1.comps = g.comps /\ g1.definedIn = g.definedIn \cup {<<"JSPatch", id>>}
      /\ g1.patches = g.patches \cup {id} /\ g1.patchEdges = g.patchEdges /\ g1.bound = g.bound
      /\ g1.compExtends = g.compExtends
  BY DEF IsGraph, GraphKeys, SameMods, SameModels, SameViews, SameSheets
<1>4. found \subseteq DOMAIN g.comps
  BY DEF CompsNamed
<1> HIDE DEF g1
<1>5. CASE found # {}
  <2>1. h = [g1 EXCEPT !.patchEdges = @ \cup {id} \X found]
    BY <1>1, <1>5
  <2> HIDE DEF found
  <2>2. /\ IsGraph(h) /\ SameMods(g1, h) /\ SameModels(g1, h) /\ SameViews(g1, h) /\ SameSheets(g1, h)
        /\ h.comps = g1.comps /\ h.definedIn = g1.definedIn /\ h.patches = g1.patches
        /\ h.bound = g1.bound /\ h.compExtends = g1.compExtends
        /\ h.patchEdges = g1.patchEdges \cup {id} \X found
    BY <1>3, <2>1 DEF IsGraph, GraphKeys, SameMods, SameModels, SameViews, SameSheets
  <2>3. SameMods(g, h) /\ SameModels(g, h) /\ SameViews(g, h) /\ SameSheets(g, h)
    BY <1>3, <2>2 DEF SameMods, SameModels, SameViews, SameSheets
  <2>4. \A x \in CompsNamed(g, p.target) : ~g.comps[x].unresolved => <<id, x>> \in h.patchEdges
    BY <2>2 DEF found
  <2>5. Extends(h.comps, g.comps, {})
    BY <1>3, <2>2 DEF Extends
  <2>6. QED
    BY <1>3, <1>4, <2>2, <2>3, <2>4, <2>5 DEF id, PatchWritten
<1>6. CASE found = {}
  <2>1. h = [g1 EXCEPT !.comps = Over(@, holder), !.patchEdges = @ \cup {<<id, held>>}]
    BY <1>1, <1>6
  <2>2. /\ IsGraph(h) /\ SameMods(g1, h) /\ SameModels(g1, h) /\ SameViews(g1, h) /\ SameSheets(g1, h)
        /\ h.comps = Over(g1.comps, holder) /\ h.definedIn = g1.definedIn /\ h.patches = g1.patches
        /\ h.bound = g1.bound /\ h.compExtends = g1.compExtends
        /\ h.patchEdges = g1.patchEdges \cup {<<id, held>>}
    BY <1>3, <2>1 DEF IsGraph, GraphKeys, SameMods, SameModels, SameViews, SameSheets
  <2>3. SameMods(g, h) /\ SameModels(g, h) /\ SameViews(g, h) /\ SameSheets(g, h)
    BY <1>3, <2>2 DEF SameMods, SameModels, SameViews, SameSheets
  <2>4. /\ DOMAIN h.comps = DOMAIN g.comps \cup {held}
        /\ \A x \in DOMAIN g.comps : h.comps[x] = g.comps[x]
        /\ held \notin DOMAIN g.comps => h.comps[held] = holder[held]
    BY <1>2, <1>3, <2>2 DEF Over
  <2>5. Extends(h.comps, g.comps, {})
    BY <2>4 DEF Extends
  <2>6. QED
    BY <1>2, <1>3, <1>6, <2>2, <2>3, <2>4, <2>5 DEF id, PatchWritten
<1>7. QED
  BY <1>5, <1>6

\* The stylesheet s of m is written.
SheetId(m, s) == [path |-> s.path, module |-> m]
SheetWritten(g, h, m, s) ==
  /\ IsGraph(h) /\ SameModels(g, h) /\ SameViews(g, h) /\ SameJs(g, h)
  /\ h.definedIn = g.definedIn \cup {<<"Stylesheet", SheetId(m, s)>>}
  /\ h.depends = g.depends
  /\ h.mods = [y \in Modules |-> IF y = m /\ g.mods[y] = "absent" THEN "stub" ELSE g.mods[y]]
  /\ h.sheets = g.sheets \cup {SheetId(m, s)}
  /\ h.imports = g.imports \cup {SheetId(m, s)} \X
                   {x \in g.sheets \cup {SheetId(m, s)} : x.path \in s.imports}

LEMMA WriteSheetIs ==
  ASSUME NEW g, IsGraph(g), NEW m \in Modules, NEW s, NEW h, h = WriteSheet(g, m, s)
  PROVE  SheetWritten(g, h, m, s)
<1> DEFINE id == SheetId(m, s)
           g1 == [WithStubs(g, {m}) EXCEPT !.sheets = @ \cup {id},
                                           !.definedIn = @ \cup {<<"Stylesheet", id>>}]
<1>1. h = [g1 EXCEPT !.imports = @ \cup {id} \X {x \in g1.sheets : x.path \in s.imports}]
  BY DEF WriteSheet, SheetId
<1> HIDE DEF id
<1>2. PICK f : f = WithStubs(g, {m})
  OBVIOUS
<1>3. /\ IsGraph(f) /\ f.depends = g.depends /\ f.definedIn = g.definedIn
      /\ SameModels(g, f) /\ SameViews(g, f) /\ SameJs(g, f) /\ SameSheets(g, f)
      /\ f.mods = [y \in Modules |-> IF y \in {m} /\ g.mods[y] = "absent" THEN "stub" ELSE g.mods[y]]
  BY <1>2, StubsIs
<1>4. /\ IsGraph(g1) /\ SameMods(f, g1) /\ SameModels(f, g1) /\ SameViews(f, g1) /\ SameJs(f, g1)
      /\ g1.sheets = f.sheets \cup {id} /\ g1.definedIn = f.definedIn \cup {<<"Stylesheet", id>>}
      /\ g1.imports = f.imports
  BY <1>2, <1>3 DEF IsGraph, GraphKeys, SameMods, SameModels, SameViews, SameJs
<1> HIDE DEF g1
<1>5. /\ IsGraph(h) /\ SameMods(g1, h) /\ SameModels(g1, h) /\ SameViews(g1, h) /\ SameJs(g1, h)
      /\ h.sheets = g1.sheets /\ h.definedIn = g1.definedIn
      /\ h.imports = g1.imports \cup {id} \X {x \in g1.sheets : x.path \in s.imports}
  BY <1>1, <1>4 DEF IsGraph, GraphKeys, SameMods, SameModels, SameViews, SameJs
<1>6. SameModels(g, h) /\ SameViews(g, h) /\ SameJs(g, h) /\ SameMods(f, h)
  BY <1>3, <1>4, <1>5 DEF SameMods, SameModels, SameViews, SameJs
<1>7. h.depends = g.depends /\ h.mods = f.mods
  BY <1>3, <1>6 DEF SameMods
<1>8. g1.sheets = g.sheets \cup {id} /\ g1.imports = g.imports
  BY <1>3, <1>4 DEF SameSheets
<1>9. h.definedIn = g.definedIn \cup {<<"Stylesheet", id>>}
  BY <1>3, <1>4, <1>5
<1>10. QED
  BY <1>3, <1>5, <1>6, <1>7, <1>8, <1>9 DEF id, SheetWritten

\* Module nodes are deleted.
Dropped(g, h, ms) ==
  /\ IsGraph(h) /\ SameModels(g, h) /\ SameViews(g, h) /\ SameJs(g, h) /\ SameSheets(g, h)
  /\ h.mods = [m \in Modules |-> IF m \in ms THEN "absent" ELSE g.mods[m]]
  /\ h.depends = {e \in g.depends : e[1] \notin ms /\ e[2] \notin ms}
  /\ h.definedIn = {x \in g.definedIn : ModuleOfNode(g, x) \notin ms}

LEMMA DropIs ==
  ASSUME NEW g, IsGraph(g), NEW ms, NEW h, h = DropModules(g, ms)
  PROVE  Dropped(g, h, ms)
BY DEF Dropped, DropModules, IsGraph, GraphKeys, SameModels, SameViews, SameJs, SameSheets

\* The modules of r that are indexed.
IndexedOf(g, r) == {m \in Modules : g.mods[m] = "indexed" /\ RepoOf[m] = r}

\* What is left of the modules ms, and of the nodes below them.
Deleted(g, h, ms) ==
  /\ IsGraph(h) /\ SameSheets(g, h)
  /\ h.mods = [m \in Modules |-> IF m \in ms THEN "absent" ELSE g.mods[m]]
  /\ h.depends = {e \in g.depends : e[1] \notin ms /\ e[2] \notin ms}
  /\ h.definedIn = {x \in g.definedIn : ModuleOfNode(g, x) \notin ms}
  /\ DOMAIN h.models = {x \in DOMAIN g.models : x.module \notin ms}
  /\ \A x \in DOMAIN h.models : h.models[x] = g.models[x]
  /\ h.inherits = {e \in g.inherits : e[1].module \notin ms /\ e[2].module \notin ms}
  /\ h.delegates = {e \in g.delegates : e[1].module \notin ms /\ e[3].module \notin ms}
  /\ DOMAIN h.fields = {x \in DOMAIN g.fields : x.module \notin ms}
  /\ \A x \in DOMAIN h.fields : h.fields[x] = g.fields[x]
  /\ DOMAIN h.methods = {x \in DOMAIN g.methods : x.module \notin ms}
  /\ h.uses = {e \in g.uses : e[1].module \notin ms}
  /\ DOMAIN h.views = {x \in DOMAIN g.views : g.views[x].module \notin ms}
  /\ \A x \in DOMAIN h.views : h.views[x] = g.views[x]
  /\ h.extends = {e \in g.extends : /\ g.views[e[1]].module \notin ms
                                    /\ g.views[e[2]].module \notin ms}
  /\ h.targets = {e \in g.targets : g.views[e[1]].module \notin ms /\ e[2].module \notin ms}
  /\ DOMAIN h.comps = {x \in DOMAIN g.comps : x.module \notin ms}
  /\ \A x \in DOMAIN h.comps : h.comps[x] = g.comps[x]
  /\ h.bound = {e \in g.bound : e[1].module \notin ms /\ e[2].module \notin ms}
  /\ h.patches = {x \in g.patches : x.module \notin ms}
  /\ h.patchEdges = {e \in g.patchEdges : e[1].module \notin ms /\ e[2].module \notin ms}

\* The members of a table that are not of the modules ms, of which the views of g are.
Off(t, ms)         == [x \in {x \in DOMAIN t : ~(x.module \in ms)} |-> t[x]]
OffViews(g, t, ms) == [x \in {x \in DOMAIN t : ~(g.views[x].module \in ms)} |-> t[x]]

\* f without what belongs to the modules ms: how DeleteModulesScoped ends.
Scoped(g, f, ms) ==
  LET dead(x) == x.module \in ms
      vdead(x) == g.views[x].module \in ms
  IN  [f EXCEPT
        !.models      = Off(@, ms),
        !.inherits    = {e \in @ : ~dead(e[1]) /\ ~dead(e[2])},
        !.delegates   = {e \in @ : ~dead(e[1]) /\ ~dead(e[3])},
        !.fields      = Off(@, ms),
        !.methods     = Off(@, ms),
        !.uses        = {e \in @ : ~dead(e[1])},
        !.views       = OffViews(g, @, ms),
        !.extends     = {e \in @ : ~vdead(e[1]) /\ ~vdead(e[2])},
        !.targets     = {e \in @ : ~vdead(e[1]) /\ ~dead(e[2])},
        !.comps       = Off(@, ms),
        !.compExtends = {e \in @ : ~dead(e[1]) /\ ~dead(e[2])},
        !.bound       = {e \in @ : ~dead(e[1]) /\ ~dead(e[2])},
        !.patches     = {x \in @ : ~dead(x)},
        !.patchEdges  = {e \in @ : ~dead(e[1]) /\ ~dead(e[2])}]

LEMMA DeleteScopes ==
  ASSUME NEW g, NEW r
  PROVE  DeleteModulesScoped(g, r) = Scoped(g, DropModules(g, IndexedOf(g, r)), IndexedOf(g, r))
BY ZenonT(60) DEF DeleteModulesScoped, Scoped, IndexedOf, Off, OffViews, Without

\* h is g without what belongs to the modules ms, layer by layer.
ModelsOff(g, h, ms) ==
  /\ DOMAIN h.models = {x \in DOMAIN g.models : x.module \notin ms}
  /\ \A x \in DOMAIN h.models : h.models[x] = g.models[x]
  /\ h.inherits = {e \in g.inherits : e[1].module \notin ms /\ e[2].module \notin ms}
  /\ h.delegates = {e \in g.delegates : e[1].module \notin ms /\ e[3].module \notin ms}
  /\ DOMAIN h.fields = {x \in DOMAIN g.fields : x.module \notin ms}
  /\ \A x \in DOMAIN h.fields : h.fields[x] = g.fields[x]
  /\ DOMAIN h.methods = {x \in DOMAIN g.methods : x.module \notin ms}
  /\ h.uses = {e \in g.uses : e[1].module \notin ms}
ViewsOff(g, h, ms) ==
  /\ DOMAIN h.views = {x \in DOMAIN g.views : g.views[x].module \notin ms}
  /\ \A x \in DOMAIN h.views : h.views[x] = g.views[x]
  /\ h.extends = {e \in g.extends : /\ g.views[e[1]].module \notin ms
                                    /\ g.views[e[2]].module \notin ms}
  /\ h.targets = {e \in g.targets : g.views[e[1]].module \notin ms /\ e[2].module \notin ms}
JsOff(g, h, ms) ==
  /\ DOMAIN h.comps = {x \in DOMAIN g.comps : x.module \notin ms}
  /\ \A x \in DOMAIN h.comps : h.comps[x] = g.comps[x]
  /\ h.bound = {e \in g.bound : e[1].module \notin ms /\ e[2].module \notin ms}
  /\ h.patches = {x \in g.patches : x.module \notin ms}
  /\ h.patchEdges = {e \in g.patchEdges : e[1].module \notin ms /\ e[2].module \notin ms}

LEMMA ScopedKeeps ==
  ASSUME NEW g, NEW f, IsGraph(f), NEW ms, NEW h, h = Scoped(g, f, ms)
  PROVE  /\ IsGraph(h) /\ h.mods = f.mods /\ h.depends = f.depends /\ h.definedIn = f.definedIn
         /\ SameSheets(f, h)
<1>1. DOMAIN h = DOMAIN f
  BY DEF Scoped
<1>2. IsGraph(h)
  BY <1>1 DEF IsGraph
<1>3. h.mods = f.mods /\ h.depends = f.depends
  BY DEF IsGraph, GraphKeys, Scoped
<1>4. h.definedIn = f.definedIn
  BY DEF IsGraph, GraphKeys, Scoped
<1>5. SameSheets(f, h)
  BY DEF IsGraph, GraphKeys, Scoped, SameSheets
<1>6. QED
  BY <1>2, <1>3, <1>4, <1>5

LEMMA ScopedModels ==
  ASSUME NEW g, NEW f, IsGraph(f), SameModels(g, f), NEW ms, NEW h, h = Scoped(g, f, ms)
  PROVE  ModelsOff(g, h, ms)
<1>1. h.models = Off(f.models, ms)
  BY DEF IsGraph, GraphKeys, Scoped
<1>2. h.fields = Off(f.fields, ms)
  BY DEF IsGraph, GraphKeys, Scoped
<1>3. h.methods = Off(f.methods, ms)
  BY DEF IsGraph, GraphKeys, Scoped
<1>4. h.inherits = {e \in f.inherits : e[1].module \notin ms /\ e[2].module \notin ms}
  BY DEF IsGraph, GraphKeys, Scoped
<1>5. h.delegates = {e \in f.delegates : e[1].module \notin ms /\ e[3].module \notin ms}
  BY DEF IsGraph, GraphKeys, Scoped
<1>6. h.uses = {e \in f.uses : e[1].module \notin ms}
  BY DEF IsGraph, GraphKeys, Scoped
<1>7. /\ DOMAIN h.models = {x \in DOMAIN f.models : x.module \notin ms}
      /\ \A x \in DOMAIN h.models : h.models[x] = f.models[x]
  BY <1>1 DEF Off
<1>8. /\ DOMAIN h.fields = {x \in DOMAIN f.fields : x.module \notin ms}
      /\ \A x \in DOMAIN h.fields : h.fields[x] = f.fields[x]
  BY <1>2 DEF Off
<1>9. DOMAIN h.methods = {x \in DOMAIN f.methods : x.module \notin ms}
  BY <1>3 DEF Off
<1>10. /\ f.models = g.models /\ f.fields = g.fields /\ f.methods = g.methods
       /\ f.inherits = g.inherits /\ f.delegates = g.delegates /\ f.uses = g.uses
  BY DEF SameModels
<1>11. QED
  BY <1>4, <1>5, <1>6, <1>7, <1>8, <1>9, <1>10 DEF ModelsOff

LEMMA ScopedViews ==
  ASSUME NEW g, NEW f, IsGraph(f), SameViews(g, f), NEW ms, NEW h, h = Scoped(g, f, ms)
  PROVE  ViewsOff(g, h, ms)
<1>1. h.views = OffViews(g, f.views, ms)
  BY DEF IsGraph, GraphKeys, Scoped
<1>2. h.extends = {e \in f.extends : /\ g.views[e[1]].module \notin ms
                                     /\ g.views[e[2]].module \notin ms}
  BY DEF IsGraph, GraphKeys, Scoped
<1>3. h.targets = {e \in f.targets : g.views[e[1]].module \notin ms /\ e[2].module \notin ms}
  BY DEF IsGraph, GraphKeys, Scoped
<1>4. /\ DOMAIN h.views = {x \in DOMAIN f.views : g.views[x].module \notin ms}
      /\ \A x \in DOMAIN h.views : h.views[x] = f.views[x]
  BY <1>1 DEF OffViews
<1>5. f.views = g.views /\ f.extends = g.extends /\ f.targets = g.targets
  BY DEF SameViews
<1>6. QED
  BY <1>2, <1>3, <1>4, <1>5 DEF ViewsOff

LEMMA ScopedJs ==
  ASSUME NEW g, NEW f, IsGraph(f), SameJs(g, f), NEW ms, NEW h, h = Scoped(g, f, ms)
  PROVE  JsOff(g, h, ms)
<1>1. h.comps = Off(f.comps, ms)
  BY DEF IsGraph, GraphKeys, Scoped
<1>2. h.bound = {e \in f.bound : e[1].module \notin ms /\ e[2].module \notin ms}
  BY DEF IsGraph, GraphKeys, Scoped
<1>3. h.patches = {x \in f.patches : x.module \notin ms}
  BY DEF IsGraph, GraphKeys, Scoped
<1>4. h.patchEdges = {e \in f.patchEdges : e[1].module \notin ms /\ e[2].module \notin ms}
  BY DEF IsGraph, GraphKeys, Scoped
<1>5. /\ DOMAIN h.comps = {x \in DOMAIN f.comps : x.module \notin ms}
      /\ \A x \in DOMAIN h.comps : h.comps[x] = f.comps[x]
  BY <1>1 DEF Off
<1>6. /\ f.comps = g.comps /\ f.bound = g.bound /\ f.patches = g.patches
      /\ f.patchEdges = g.patchEdges
  BY DEF SameJs
<1>7. QED
  BY <1>2, <1>3, <1>4, <1>5, <1>6 DEF JsOff

LEMMA DeleteIs ==
  ASSUME NEW g, IsGraph(g), NEW r, NEW h, h = DeleteModulesScoped(g, r),
         NEW ms, ms = IndexedOf(g, r)
  PROVE  Deleted(g, h, ms)
<1>1. PICK f : f = DropModules(g, ms)
  OBVIOUS
<1>2. Dropped(g, f, ms)
  BY <1>1, DropIs
<1>3. h = Scoped(g, f, ms)
  BY <1>1, DeleteScopes
<1>4. /\ IsGraph(f) /\ SameModels(g, f) /\ SameViews(g, f) /\ SameJs(g, f) /\ SameSheets(g, f)
      /\ f.mods = [m \in Modules |-> IF m \in ms THEN "absent" ELSE g.mods[m]]
      /\ f.depends = {e \in g.depends : e[1] \notin ms /\ e[2] \notin ms}
      /\ f.definedIn = {x \in g.definedIn : ModuleOfNode(g, x) \notin ms}
  BY <1>2 DEF Dropped
<1>5. /\ IsGraph(h) /\ h.mods = f.mods /\ h.depends = f.depends /\ h.definedIn = f.definedIn
      /\ SameSheets(f, h)
  BY <1>3, <1>4, ScopedKeeps
<1>6. SameSheets(g, h)
  BY <1>4, <1>5 DEF SameSheets
<1>7. ModelsOff(g, h, ms)
  BY <1>3, <1>4, ScopedModels
<1>8. ViewsOff(g, h, ms)
  BY <1>3, <1>4, ScopedViews
<1>9. JsOff(g, h, ms)
  BY <1>3, <1>4, ScopedJs
<1>10. /\ h.mods = [m \in Modules |-> IF m \in ms THEN "absent" ELSE g.mods[m]]
       /\ h.depends = {e \in g.depends : e[1] \notin ms /\ e[2] \notin ms}
       /\ h.definedIn = {x \in g.definedIn : ModuleOfNode(g, x) \notin ms}
  BY <1>4, <1>5
<1>11. QED
  BY <1>5, <1>6, <1>7, <1>8, <1>9, <1>10 DEF Deleted, ModelsOff, ViewsOff, JsOff

-----------------------------------------------------------------------------
(* What writing the models of a module adds                                *)

-----------------------------------------------------------------------------
(* What the writes of a module do.                                            *)

\* h is g with the classes D of m.
Fields(m, D)  == UNION {{Member(m, d, n) : n \in DOMAIN d.fields}  : d \in D}
Methods(m, D) == UNION {{Member(m, d, n) : n \in DOMAIN d.methods} : d \in D}
UsesNow(m, d) == UNION {{<<Member(m, d, n), s>> : s \in
                   UNION {DeprecatedNamed(ref) : ref \in d.methods[n].refs}} : n \in DOMAIN d.methods}
AllUses(m, D) == UNION {UsesNow(m, d) : d \in D}
ModelIds(m, D) == {ModelId(m, d) : d \in D}
IsDefinition(d) == d.explicit /\ d.name \notin d.inherit
Linked(d) == d.inherit \cup {e[1] : e \in d.delegates}
AllLinked(D) == UNION {Linked(d) : d \in D}

ModelsAdded(g, h, m, D) ==
  /\ IsGraph(h) /\ SameViews(g, h) /\ SameJs(g, h) /\ SameSheets(g, h)
  /\ h.definedIn = g.definedIn \cup {<<"Model", x>> : x \in ModelIds(m, D)}
  /\ DOMAIN g.models \cup ModelIds(m, D) \subseteq DOMAIN h.models
  /\ DOMAIN h.models \subseteq DOMAIN g.models \cup ModelIds(m, D)
                                 \cup {ModelPlaceholder(n) : n \in AllLinked(D)}
  /\ \A x \in DOMAIN g.models \ ModelIds(m, D) : h.models[x] = g.models[x]
  /\ \A x \in ModelIds(m, D) :
       /\ ~h.models[x].unresolved
       /\ h.models[x].def <=> \/ \E d \in D : ModelId(m, d) = x /\ IsDefinition(d)
                              \/ x \in DOMAIN g.models /\ g.models[x].def
  /\ \A x \in DOMAIN h.models \ (DOMAIN g.models \cup ModelIds(m, D)) :
       IsHeld(x) /\ h.models[x].unresolved /\ ~h.models[x].def
  /\ g.inherits \subseteq h.inherits /\ g.delegates \subseteq h.delegates
  /\ \A d \in D : \A n \in d.inherit \ {d.name} : \A x \in ResolvedModels(g, n) :
       <<ModelId(m, d), x>> \in h.inherits
  /\ \A d \in D : \A e \in d.delegates : \A x \in ResolvedModels(g, e[1]) :
       <<ModelId(m, d), e[2], x>> \in h.delegates
  /\ \A e \in h.inherits \ g.inherits : e[1] \in ModelIds(m, D) /\ e[2] \in DOMAIN h.models
  /\ DOMAIN h.fields = DOMAIN g.fields \cup Fields(m, D)
  /\ \A x \in DOMAIN g.fields \ Fields(m, D) : h.fields[x] = g.fields[x]
  /\ \A x \in Fields(m, D) : \E d \in D : x.name \in DOMAIN d.fields /\ h.fields[x] = d.fields[x.name]
  /\ DOMAIN h.methods = DOMAIN g.methods \cup Methods(m, D)
  /\ h.uses = g.uses \cup AllUses(m, D)
ModelsWritten(g, h, m, D) == SameMods(g, h) /\ ModelsAdded(g, h, m, D)

LEMMA ResolvedKept ==
  ASSUME NEW g, NEW h, NEW ids, DOMAIN g.models \subseteq DOMAIN h.models,
         \A x \in DOMAIN g.models \ ids : h.models[x] = g.models[x],
         \A x \in ids : ~h.models[x].unresolved
  PROVE  \A n : ResolvedModels(g, n) \subseteq ResolvedModels(h, n)
BY DEF ResolvedModels, ModelsNamed

LEMMA OneMoreClass ==
  ASSUME NEW g, NEW h, NEW k, NEW m \in Modules, NEW D, NEW d,
         ModelsWritten(g, h, m, D), k = WriteModel(h, m, d)
  PROVE  ModelsWritten(g, k, m, D \cup {d})
<1>1. IsGraph(h)
  BY DEF ModelsWritten, ModelsAdded
<1> DEFINE id == ModelId(m, d)
<1>20. ModelWritten(h, k, m, d)
  BY <1>1, WriteModelIs
<1>2. /\ IsGraph(k) /\ SameMods(h, k) /\ SameViews(h, k) /\ SameJs(h, k) /\ SameSheets(h, k)
      /\ k.definedIn = h.definedIn \cup {<<"Model", id>>}
      /\ Extends(k.models, h.models, {id})
      /\ k.models[id] = [def |-> \/ d.explicit /\ d.name \notin d.inherit
                                 \/ id \in DOMAIN h.models /\ h.models[id].def,
                         unresolved |-> FALSE]
      /\ \A x \in DOMAIN k.models \ (DOMAIN h.models \cup {id}) :
           IsHeld(x) /\ k.models[x].unresolved /\ ~k.models[x].def
      /\ DOMAIN k.models \subseteq DOMAIN h.models \cup {id} \cup
           {ModelPlaceholder(n) : n \in d.inherit \cup {e[1] : e \in d.delegates}}
  BY <1>20 DEF ModelWritten
<1>3. /\ h.inherits \subseteq k.inherits /\ h.delegates \subseteq k.delegates
      /\ \A n \in d.inherit \ {d.name} : \A x \in ResolvedModels(h, n) : <<id, x>> \in k.inherits
      /\ \A e \in d.delegates : \A x \in ResolvedModels(h, e[1]) :
           <<id, e[2], x>> \in k.delegates
      /\ \A e \in k.inherits \ h.inherits : e[1] = id /\ e[2] \in DOMAIN k.models
  BY <1>20 DEF ModelWritten
<1> DEFINE fs == {Member(m, d, n) : n \in DOMAIN d.fields}
           ms == {Member(m, d, n) : n \in DOMAIN d.methods}
<1>4. /\ Extends(k.fields, h.fields, fs) /\ DOMAIN k.fields = DOMAIN h.fields \cup fs
      /\ \A n \in DOMAIN d.fields : k.fields[Member(m, d, n)] = d.fields[n]
      /\ DOMAIN k.methods = DOMAIN h.methods \cup ms
      /\ k.uses = h.uses \cup UsesNow(m, d)
  BY <1>20 DEF ModelWritten, UsesNow
<1>5. /\ ModelIds(m, D \cup {d}) = ModelIds(m, D) \cup {id}
      /\ Fields(m, D \cup {d}) = Fields(m, D) \cup fs
      /\ Methods(m, D \cup {d}) = Methods(m, D) \cup ms
      /\ AllUses(m, D \cup {d}) = AllUses(m, D) \cup UsesNow(m, d)
      /\ AllLinked(D \cup {d}) = AllLinked(D) \cup Linked(d)
  <2>1. ModelIds(m, D \cup {d}) = ModelIds(m, D) \cup {id}
    BY DEF ModelIds
  <2>2. Fields(m, D \cup {d}) = Fields(m, D) \cup fs
    BY DEF Fields
  <2>3. Methods(m, D \cup {d}) = Methods(m, D) \cup ms
    BY DEF Methods
  <2>4. AllUses(m, D \cup {d}) = AllUses(m, D) \cup UsesNow(m, d)
    BY DEF AllUses
  <2>5. AllLinked(D \cup {d}) = AllLinked(D) \cup Linked(d)
    BY DEF AllLinked
  <2>6. QED
    BY <2>1, <2>2, <2>3, <2>4, <2>5
<1>6. \A x \in fs : x.name \in DOMAIN d.fields /\ k.fields[x] = d.fields[x.name]
  <2>1. SUFFICES ASSUME NEW x \in fs PROVE x.name \in DOMAIN d.fields /\ k.fields[x] = d.fields[x.name]
    OBVIOUS
  <2>2. PICK n \in DOMAIN d.fields : x = Member(m, d, n)
    BY <2>1
  <2>3. x.name = n
    BY <2>2 DEF Member
  <2>4. k.fields[x] = d.fields[n]
    BY <1>4, <2>2
  <2>5. QED
    BY <2>3, <2>4
<1>7. /\ k.models[id].def <=> IsDefinition(d) \/ (id \in DOMAIN h.models /\ h.models[id].def)
      /\ ~k.models[id].unresolved
  BY <1>2 DEF IsDefinition
<1>8. \A n : ResolvedModels(g, n) \subseteq ResolvedModels(h, n)
  BY ResolvedKept DEF ModelsWritten, ModelsAdded
<1> HIDE DEF id, fs, ms
<1>9. /\ IsGraph(k) /\ SameMods(g, k) /\ SameViews(g, k) /\ SameJs(g, k) /\ SameSheets(g, k)
      /\ k.definedIn = g.definedIn \cup {<<"Model", x>> : x \in ModelIds(m, D \cup {d})}
  <2>1. SameMods(g, k) /\ SameViews(g, k) /\ SameJs(g, k) /\ SameSheets(g, k)
    BY <1>2 DEF ModelsWritten, ModelsAdded, SameMods, SameViews, SameJs, SameSheets
  <2>2. h.definedIn = g.definedIn \cup {<<"Model", x>> : x \in ModelIds(m, D)}
    BY DEF ModelsWritten, ModelsAdded
  <2>3. k.definedIn = g.definedIn \cup {<<"Model", x>> : x \in ModelIds(m, D) \cup {id}}
    BY <1>2, <2>2
  <2>4. QED
    BY <1>2, <1>5, <2>1, <2>3
<1>10. /\ DOMAIN g.models \cup ModelIds(m, D \cup {d}) \subseteq DOMAIN k.models
       /\ DOMAIN k.models \subseteq DOMAIN g.models \cup ModelIds(m, D \cup {d})
                 \cup {ModelPlaceholder(n) : n \in AllLinked(D \cup {d})}
       /\ \A x \in DOMAIN g.models \ ModelIds(m, D \cup {d}) : k.models[x] = g.models[x]
  <2>1. DOMAIN g.models \cup ModelIds(m, D \cup {d}) \subseteq DOMAIN k.models
    BY <1>2, <1>5 DEF ModelsWritten, ModelsAdded, Extends
  <2>2. DOMAIN k.models \subseteq DOMAIN h.models \cup {id} \cup {ModelPlaceholder(n) : n \in Linked(d)}
    BY <1>2 DEF Linked
  <2>3. DOMAIN h.models \subseteq DOMAIN g.models \cup ModelIds(m, D)
                                 \cup {ModelPlaceholder(n) : n \in AllLinked(D)}
    BY DEF ModelsWritten, ModelsAdded
  <2>4. DOMAIN k.models \subseteq DOMAIN g.models \cup ModelIds(m, D \cup {d})
                 \cup {ModelPlaceholder(n) : n \in AllLinked(D) \cup Linked(d)}
    <3>1. SUFFICES ASSUME NEW x \in DOMAIN k.models, x \notin DOMAIN g.models,
                          x \notin ModelIds(m, D \cup {d})
                   PROVE  \E n \in AllLinked(D) \cup Linked(d) : x = ModelPlaceholder(n)
      OBVIOUS
    <3>2. x \notin ModelIds(m, D) /\ x # id
      BY <1>5, <3>1
    <3>3. CASE x \in DOMAIN h.models
      BY <2>3, <3>1, <3>2, <3>3
    <3>4. CASE x \notin DOMAIN h.models
      BY <2>2, <3>1, <3>2, <3>4
    <3>5. QED
      BY <3>3, <3>4
  <2>5. \A x \in DOMAIN g.models \ ModelIds(m, D \cup {d}) : k.models[x] = g.models[x]
    BY <1>2, <1>5 DEF ModelsWritten, ModelsAdded, Extends
  <2>6. QED
    BY <1>5, <2>1, <2>4, <2>5
<1>11. ASSUME NEW x \in ModelIds(m, D \cup {d})
       PROVE  /\ ~k.models[x].unresolved
              /\ k.models[x].def <=> \/ \E c \in D \cup {d} : ModelId(m, c) = x /\ IsDefinition(c)
                                     \/ x \in DOMAIN g.models /\ g.models[x].def
  <2>1. CASE x = id
    <3>1. CASE id \in ModelIds(m, D)
      <4>1. /\ id \in DOMAIN h.models
            /\ h.models[id].def <=> \/ \E c \in D : ModelId(m, c) = id /\ IsDefinition(c)
                                    \/ id \in DOMAIN g.models /\ g.models[id].def
        BY <3>1 DEF ModelsWritten, ModelsAdded
      <4>2. QED
        BY <1>7, <2>1, <4>1 DEF id
    <3>2. CASE id \notin ModelIds(m, D)
      <4>1. id \in DOMAIN g.models => id \in DOMAIN h.models /\ h.models[id] = g.models[id]
        BY <3>2 DEF ModelsWritten, ModelsAdded
      <4>2. (id \in DOMAIN h.models /\ id \notin DOMAIN g.models) => ~h.models[id].def
        BY <3>2 DEF ModelsWritten, ModelsAdded
      <4>3. \A c \in D : ModelId(m, c) # id
        BY <3>2 DEF ModelIds
      <4>4. QED
        BY <1>7, <2>1, <4>1, <4>2, <4>3 DEF id
    <3>3. QED
      BY <3>1, <3>2
  <2>2. CASE x # id
    <3>1. x \in ModelIds(m, D) /\ x \in DOMAIN h.models
      BY <1>5, <1>11, <2>2 DEF ModelsWritten, ModelsAdded
    <3>2. k.models[x] = h.models[x]
      BY <1>2, <2>2, <3>1 DEF Extends
    <3>3. QED
      BY <2>2, <3>1, <3>2 DEF ModelsWritten, ModelsAdded, id
  <2>3. QED
    BY <2>1, <2>2
<1>12. \A x \in DOMAIN k.models \ (DOMAIN g.models \cup ModelIds(m, D \cup {d})) :
         IsHeld(x) /\ k.models[x].unresolved /\ ~k.models[x].def
  BY <1>2, <1>5 DEF ModelsWritten, ModelsAdded, Extends
<1>13. g.inherits \subseteq k.inherits /\ g.delegates \subseteq k.delegates
  BY <1>3 DEF ModelsWritten, ModelsAdded
<1>14. ASSUME NEW c \in D \cup {d}
       PROVE  /\ \A n \in c.inherit \ {c.name} : \A x \in ResolvedModels(g, n) :
                   <<ModelId(m, c), x>> \in k.inherits
              /\ \A e \in c.delegates : \A x \in ResolvedModels(g, e[1]) :
                   <<ModelId(m, c), e[2], x>> \in k.delegates
  <2>1. CASE c \in D
    BY <1>3, <2>1 DEF ModelsWritten, ModelsAdded
  <2>2. CASE c = d
    BY <1>3, <1>8, <2>2 DEF id
  <2>3. QED
    BY <2>1, <2>2
<1>15. \A e \in k.inherits \ g.inherits :
         e[1] \in ModelIds(m, D \cup {d}) /\ e[2] \in DOMAIN k.models
  BY <1>2, <1>3, <1>5 DEF ModelsWritten, ModelsAdded, Extends
<1>16. /\ DOMAIN k.fields = DOMAIN g.fields \cup Fields(m, D \cup {d})
       /\ DOMAIN k.methods = DOMAIN g.methods \cup Methods(m, D \cup {d})
       /\ k.uses = g.uses \cup AllUses(m, D \cup {d})
  <2>1. DOMAIN k.fields = DOMAIN g.fields \cup Fields(m, D \cup {d})
    BY <1>4, <1>5 DEF ModelsWritten, ModelsAdded
  <2>2. DOMAIN k.methods = DOMAIN g.methods \cup Methods(m, D \cup {d})
    BY <1>4, <1>5 DEF ModelsWritten, ModelsAdded
  <2>3. h.uses = g.uses \cup AllUses(m, D)
    BY DEF ModelsWritten, ModelsAdded
  <2>4. k.uses = h.uses \cup UsesNow(m, d)
    BY <1>4
  <2>5. k.uses = g.uses \cup (AllUses(m, D) \cup UsesNow(m, d))
    BY <2>3, <2>4
  <2>6. AllUses(m, D \cup {d}) = AllUses(m, D) \cup UsesNow(m, d)
    BY <1>5
  <2>7. k.uses = g.uses \cup AllUses(m, D \cup {d})
    BY <2>5, <2>6
  <2>8. QED
    BY <2>1, <2>2, <2>7
<1>17. \A x \in DOMAIN g.fields \ Fields(m, D \cup {d}) : k.fields[x] = g.fields[x]
  BY <1>4, <1>5 DEF ModelsWritten, ModelsAdded, Extends
<1>18. ASSUME NEW x \in Fields(m, D \cup {d})
       PROVE  \E c \in D \cup {d} : x.name \in DOMAIN c.fields /\ k.fields[x] = c.fields[x.name]
  <2>1. CASE x \in fs
    BY <1>6, <2>1
  <2>2. CASE x \notin fs
    <3>1. x \in Fields(m, D) /\ x \in DOMAIN h.fields
      BY <1>5, <1>18, <2>2 DEF ModelsWritten, ModelsAdded
    <3>2. k.fields[x] = h.fields[x]
      BY <1>4, <2>2, <3>1 DEF Extends
    <3>3. QED
      BY <3>1, <3>2 DEF ModelsWritten, ModelsAdded
  <2>3. QED
    BY <2>1, <2>2
<1>19. QED
  BY <1>9, <1>10, <1>11, <1>12, <1>13, <1>14, <1>15, <1>16, <1>17, <1>18 DEF ModelsWritten, ModelsAdded

\* The graph when the n-th item of the list has been written.
FirstOf(l, n) == {l[i] : i \in 1 .. n}

LEMMA ModelsAreWritten ==
  ASSUME NEW g, IsGraph(g), NEW m \in Modules, NEW l, NEW n \in Nat,
         NEW w, Ends(w, "models", m, l, g, n)
  PROVE  ModelsWritten(g, w, m, FirstOf(l, n))
<1>1. PICK t : Trace(t, "models", m, l, g, n) /\ t[n] = w
  BY DEF Ends
<1> DEFINE T == {i \in Nat : i <= n => ModelsWritten(g, t[i], m, FirstOf(l, i))}
<1>2. 0 \in T
  <2>1. t[0] = g /\ FirstOf(l, 0) = {}
    BY <1>1 DEF Trace, FirstOf
  <2>2. ModelsWritten(g, g, m, {})
    BY DEF ModelsWritten, ModelsAdded, ModelIds, Fields, Methods, AllUses, SameMods, SameViews, SameJs, SameSheets
  <2>3. QED
    BY <2>1, <2>2
<1>3. ASSUME NEW i \in Nat, i \in T PROVE i + 1 \in T
  <2>1. SUFFICES ASSUME i + 1 <= n PROVE ModelsWritten(g, t[i + 1], m, FirstOf(l, i + 1))
    OBVIOUS
  <2>2. t[i + 1] = WriteModel(t[i], m, l[i + 1])
    BY <1>1, <2>1 DEF Trace, Put
  <2>3. FirstOf(l, i + 1) = FirstOf(l, i) \cup {l[i + 1]}
    <3>1. 1 .. (i + 1) = 1 .. i \cup {i + 1}
      OBVIOUS
    <3>2. QED
      BY <3>1 DEF FirstOf
  <2>4. ModelsWritten(g, t[i], m, FirstOf(l, i))
    BY <1>3, <2>1
  <2>5. QED
    BY <2>2, <2>3, <2>4, OneMoreClass
<1>4. Nat \subseteq T
  <2> HIDE DEF T
  <2>1. QED
    BY <1>2, <1>3, Induction
<1>5. QED
  BY <1>1, <1>4

-----------------------------------------------------------------------------
(* What writing the views of a module adds                                 *)

\* The views D of m are written to g, and h is the outcome. A node of a view of D
\* is m's, or a placeholder made on the way.
Key(x) == <<x.kind, x.xmlid>>
BaseKey(v) == <<v.kind, v.base>>
Keys(D) == {Key(v) : v \in D}
Mine(h, m, x) == h.views[x].module = m /\ <<"View", x>> \in h.definedIn
IsStub(h, x) == h.views[x] = [module |-> Unresolved, model |-> None, unresolved |-> TRUE]
\* The edges of a node x of v, to the models and bases of g.
HasEdges(g, h, v, x) ==
  /\ {x} \X ModelsNamed(g, v.model) \subseteq h.targets
  /\ (v.base # None /\ v.base # v.xmlid) =>
       {x} \X ResolvedViews(g, v.kind, v.base) \subseteq h.extends

\* The nodes have numbers, the nodes of the views of D are m's, and the edges made
\* are from a view of D to its base.
NumbersOK(g) == IsFiniteSet(DOMAIN g.views) /\ \A x \in DOMAIN g.views : x.n \in Nat
Tied(g, h, m, D) ==
  /\ NumbersOK(g) => NumbersOK(h)
  /\ \A x \in DOMAIN g.views : Key(x) \in Keys(D) => Mine(h, m, x)
  /\ \A e \in h.extends \ g.extends :
       Mine(h, m, e[1]) /\ \E v \in D : Key(e[1]) = Key(v) /\ Key(e[2]) = BaseKey(v)

ViewsAdded(g, h, m, D) ==
  /\ Tied(g, h, m, D)
  /\ IsGraph(h) /\ SameModels(g, h) /\ SameJs(g, h) /\ SameSheets(g, h)
  /\ DOMAIN g.views \subseteq DOMAIN h.views
  /\ IsFiniteSet(DOMAIN g.views) => IsFiniteSet(DOMAIN h.views)
  /\ g.definedIn \subseteq h.definedIn
  /\ \A e \in h.definedIn \ g.definedIn : \E x \in DOMAIN h.views : e = <<"View", x>>
  /\ \A x \in DOMAIN g.views : /\ Key(x) \notin Keys(D) => h.views[x] = g.views[x]
                               /\ ~g.views[x].unresolved => ~h.views[x].unresolved
  /\ \A x \in DOMAIN h.views :
       /\ Key(x) \in Keys(D) => Mine(h, m, x) \/ IsStub(h, x)
       /\ x \notin DOMAIN g.views => Mine(h, m, x) \/ IsStub(h, x)
       /\ (x \notin DOMAIN g.views /\ h.views[x].unresolved) =>
            \E v \in D : /\ v.base # None /\ Key(x) = BaseKey(v)
                         /\ ResolvedViews(g, v.kind, v.base) = {}
       /\ (h.views[x].module = m /\ Key(x) \notin Keys(D)) =>
            x \in DOMAIN g.views \/ m = Unresolved
  /\ \A v \in D : \E x \in DOMAIN h.views : /\ Key(x) = Key(v) /\ Mine(h, m, x)
                                            /\ HasEdges(g, h, v, x)
  /\ g.targets \subseteq h.targets
  /\ h.targets \subseteq g.targets \cup (DOMAIN h.views) \X (DOMAIN g.models)
  /\ g.extends \subseteq h.extends
  /\ h.extends \subseteq g.extends \cup (DOMAIN h.views) \X (DOMAIN h.views)
ViewsWritten(g, h, m, D) == SameMods(g, h) /\ ViewsAdded(g, h, m, D)

LEMMA NextNumber ==
  ASSUME NEW D, IsFiniteSet(D), \A x \in D : x.n \in Nat, NEW x, Numbered(x, D)
  PROVE  x.n \in Nat
<1>1. PICK T \in SUBSET D : x.n = Max({0} \cup {y.n : y \in T}) + 1
  BY DEF Numbered
<1>2. PICK S : S = {0} \cup {y.n : y \in T}
  OBVIOUS
<1>3. S \in SUBSET Nat /\ S # {}
  BY <1>2
<1>4. IsFiniteSet(S)
  <2>1. PICK f : f = [y \in T |-> y.n]
    OBVIOUS
  <2>2. f \in Surjection(T, {y.n : y \in T})
    BY <2>1 DEF Surjection
  <2>3. IsFiniteSet(T)
    BY FS_Subset
  <2>4. IsFiniteSet({y.n : y \in T}) /\ IsFiniteSet({0})
    BY <2>2, <2>3, FS_Surjection, FS_Singleton
  <2>5. QED
    BY <1>2, <2>4, FS_Union
<1>5. PICK R : R = {p \in S \X S : p[1] < p[2]}
  OBVIOUS
<1>6. Orders(R, S)
  BY <1>3, <1>5 DEF Orders
<1>7. LastBy(S, R) \in S /\ \A y \in S : <<LastBy(S, R), y>> \notin R
  BY <1>3, <1>4, <1>6, LastIs
<1>8. \A y \in S : LastBy(S, R) >= y
  <2>1. PICK l : l = LastBy(S, R)
    OBVIOUS
  <2>2. l \in S /\ \A y \in S : <<l, y>> \notin R
    BY <1>7, <2>1
  <2>3. ASSUME NEW y \in S PROVE l >= y
    <3>1. y \in Nat /\ l \in Nat
      BY <1>3, <2>2
    <3>2. <<l, y>> \in S \X S
      BY <2>2
    <3>3. ~(l < y)
      BY <1>5, <2>2, <3>2
    <3>4. QED
      BY <3>1, <3>3
  <2>4. QED
    BY <2>1, <2>3
<1>9. Max(S) \in S
  BY <1>7, <1>8 DEF Max
<1>10. QED
  BY <1>1, <1>2, <1>3, <1>9

LEMMA NumbersKept ==
  ASSUME NEW h, NEW k, NEW m, NEW v, NEW nodes, nodes = NodesOf(h, v), ViewWritten(h, k, m, v, nodes),
         NumbersOK(h)
  PROVE  NumbersOK(k)
<1>1. PICK z : DOMAIN k.views \subseteq DOMAIN h.views \cup nodes \cup {z}
  BY DEF ViewWritten
<1>2. PICK y : nodes \subseteq DOMAIN h.views \cup {y}
  BY DEF NodesOf, ViewNodes
<1>3. IsFiniteSet({y} \cup {z})
  BY FS_Singleton, FS_AddElement
<1>4. DOMAIN k.views \subseteq DOMAIN h.views \cup ({y} \cup {z})
  BY <1>1, <1>2
<1>5. IsFiniteSet(DOMAIN h.views \cup ({y} \cup {z}))
  BY <1>3, FS_Union DEF NumbersOK
<1>6. IsFiniteSet(DOMAIN k.views)
  BY <1>4, <1>5, FS_Subset
<1>7. \A x \in nodes : x.n \in Nat
  <2>1. PICK node : node = [kind |-> v.kind, xmlid |-> v.xmlid, n |-> 1]
    OBVIOUS
  <2>2. nodes \subseteq DOMAIN h.views \/ nodes = {node}
    BY <2>1 DEF NodesOf, ViewNodes
  <2>3. node.n = 1
    BY <2>1
  <2>4. QED
    BY <2>2, <2>3 DEF NumbersOK
<1>8. PICK D : D = DOMAIN h.views \cup nodes
  OBVIOUS
<1>9. IsFiniteSet(D) /\ \A x \in D : x.n \in Nat
  <2>1. D \subseteq DOMAIN h.views \cup ({y} \cup {z})
    BY <1>2, <1>8
  <2>2. QED
    BY <1>5, <1>7, <1>8, <2>1, FS_Subset DEF NumbersOK
<1>10. \A x \in DOMAIN k.views \ D : Numbered(x, D)
  BY <1>8 DEF ViewWritten
<1>11. \A x \in DOMAIN k.views : x.n \in Nat
  BY <1>9, <1>10, NextNumber
<1>12. QED
  BY <1>6, <1>11 DEF NumbersOK

LEMMA OneMoreTied ==
  ASSUME NEW g, NEW h, NEW k, NEW m \in Modules, NEW D, NEW v, NEW nodes, nodes = NodesOf(h, v),
         ViewsWritten(g, h, m, D), ViewWritten(h, k, m, v, nodes)
  PROVE  Tied(g, k, m, D \cup {v})
<1>1. Keys(D \cup {v}) = Keys(D) \cup {Key(v)}
  BY DEF Keys
<1>2. NumbersOK(g) => NumbersOK(k)
  BY NumbersKept DEF ViewsWritten, ViewsAdded, Tied
<1>3. \A x \in nodes : Key(x) = Key(v)
  BY NodesAre DEF Key
<1>4. \A x \in DOMAIN h.views : Key(x) = Key(v) => x \in nodes
  BY NodesAre DEF ViewNodes, Key
<1>5. \A x \in nodes : Mine(k, m, x)
  BY DEF ViewWritten, Mine
<1>6. \A x \in DOMAIN h.views : Mine(h, m, x) => Mine(k, m, x)
  <2>1. \A x \in DOMAIN h.views \ nodes : k.views[x] = h.views[x]
    BY DEF ViewWritten, Extends
  <2>2. h.definedIn \subseteq k.definedIn
    BY DEF ViewWritten
  <2>3. QED
    BY <1>5, <2>1, <2>2 DEF Mine
<1>7. DOMAIN g.views \subseteq DOMAIN h.views
  BY DEF ViewsWritten, ViewsAdded
<1>8. ASSUME NEW x \in DOMAIN g.views, Key(x) \in Keys(D \cup {v}) PROVE Mine(k, m, x)
  <2>1. CASE x \in nodes
    BY <1>5, <2>1
  <2>2. CASE x \notin nodes
    <3>1. Key(x) \in Keys(D)
      BY <1>1, <1>4, <1>7, <1>8, <2>2
    <3>2. Mine(h, m, x)
      BY <3>1 DEF ViewsWritten, ViewsAdded, Tied
    <3>3. QED
      BY <1>6, <1>7, <3>2
  <2>3. QED
    BY <2>1, <2>2
<1>9. ASSUME NEW e \in k.extends \ g.extends
      PROVE  Mine(k, m, e[1]) /\ \E u \in D \cup {v} : Key(e[1]) = Key(u) /\ Key(e[2]) = BaseKey(u)
  <2>1. CASE e \in h.extends
    <3>1. Mine(h, m, e[1]) /\ \E u \in D : Key(e[1]) = Key(u) /\ Key(e[2]) = BaseKey(u)
      BY <1>9, <2>1 DEF ViewsWritten, ViewsAdded, Tied
    <3>2. h.extends \subseteq g.extends \cup (DOMAIN h.views) \X (DOMAIN h.views)
      BY DEF ViewsWritten, ViewsAdded
    <3>3. e[1] \in DOMAIN h.views
      BY <1>9, <2>1, <3>2
    <3>4. QED
      BY <1>6, <3>1, <3>3
  <2>2. CASE e \notin h.extends
    <3>1. e \in nodes \X ViewNodes(k, v.kind, v.base)
      BY <1>9, <2>2 DEF ViewWritten
    <3>2. e[1] \in nodes /\ e[2] \in ViewNodes(k, v.kind, v.base)
      BY <3>1
    <3>3. Key(e[2]) = BaseKey(v)
      BY <3>2 DEF ViewNodes, Key, BaseKey
    <3>4. QED
      BY <1>3, <1>5, <3>2, <3>3
  <2>3. QED
    BY <2>1, <2>2
<1>10. QED
  BY <1>2, <1>8, <1>9 DEF Tied

LEMMA OneMoreView ==
  ASSUME NEW g, NEW h, NEW k, NEW m \in Modules, NEW D, NEW v,
         ViewsWritten(g, h, m, D), k = WriteView(h, m, v)
  PROVE  ViewsWritten(g, k, m, D \cup {v})
<1>1. IsGraph(h)
  BY DEF ViewsWritten, ViewsAdded
<1>2. PICK nodes : nodes = NodesOf(h, v)
  OBVIOUS
<1>3. ViewWritten(h, k, m, v, nodes)
  BY <1>1, <1>2, WriteViewIs
<1>4. /\ nodes # {} /\ ViewNodes(h, v.kind, v.xmlid) \subseteq nodes
      /\ \A x \in nodes : Key(x) = Key(v)
      /\ \A x \in nodes \cap DOMAIN h.views : x \in ViewNodes(h, v.kind, v.xmlid)
  BY <1>2, NodesAre DEF Key
<1>5. \A x \in DOMAIN h.views : Key(x) = Key(v) => x \in nodes
  BY <1>4 DEF ViewNodes, Key
<1>6. Keys(D \cup {v}) = Keys(D) \cup {Key(v)}
  BY DEF Keys
<1>7. /\ IsGraph(k) /\ SameMods(g, k) /\ SameModels(g, k) /\ SameJs(g, k) /\ SameSheets(g, k)
  <2>1. IsGraph(k) /\ SameMods(h, k) /\ SameModels(h, k) /\ SameJs(h, k) /\ SameSheets(h, k)
    BY <1>3 DEF ViewWritten
  <2>2. SameMods(g, h) /\ SameModels(g, h) /\ SameJs(g, h) /\ SameSheets(g, h)
    BY DEF ViewsWritten, ViewsAdded
  <2>3. QED
    BY <2>1, <2>2 DEF SameMods, SameModels, SameJs, SameSheets
<1>8. /\ DOMAIN h.views \cup nodes \subseteq DOMAIN k.views
      /\ \A x \in DOMAIN h.views \ nodes : k.views[x] = h.views[x]
      /\ k.definedIn = h.definedIn \cup {<<"View", x>> : x \in nodes}
      /\ \A x \in nodes : k.views[x].module = m
  <2>1. Extends(k.views, h.views, nodes)
    BY <1>3 DEF ViewWritten
  <2>2. k.definedIn = h.definedIn \cup {<<"View", x>> : x \in nodes}
    BY <1>3 DEF ViewWritten
  <2>4. \A x \in nodes : k.views[x].module = m
    BY <1>3 DEF ViewWritten
  <2>5. QED
    BY <2>1, <2>2, <2>4 DEF Extends
<1>9. \A x \in nodes : k.views[x].unresolved <=> x \in DOMAIN h.views /\ h.views[x].unresolved
  <2>1. \A x \in nodes : k.views[x].unresolved <=>
          (x \in ViewNodes(h, v.kind, v.xmlid) /\ h.views[x].unresolved)
    BY <1>3 DEF ViewWritten
  <2>2. \A x \in ViewNodes(h, v.kind, v.xmlid) : x \in DOMAIN h.views
    BY DEF ViewNodes
  <2>3. QED
    BY <1>4, <2>1, <2>2
<1>10. \A x \in DOMAIN k.views \ (DOMAIN h.views \cup nodes) :
         Key(x) = BaseKey(v) /\ v.base # None /\ IsStub(k, x)
  BY <1>3 DEF ViewWritten, Key, BaseKey, IsStub
<1>11. \A x \in nodes : Mine(k, m, x)
  BY <1>8 DEF Mine
<1>12. \A x \in DOMAIN h.views : /\ Mine(h, m, x) => Mine(k, m, x)
                                 /\ IsStub(h, x) => Mine(k, m, x) \/ IsStub(k, x)
  BY <1>8, <1>11 DEF Mine, IsStub
<1>13. /\ DOMAIN g.views \subseteq DOMAIN k.views /\ g.definedIn \subseteq k.definedIn
       /\ \A e \in k.definedIn \ g.definedIn : \E x \in DOMAIN k.views : e = <<"View", x>>
  BY <1>8 DEF ViewsWritten, ViewsAdded
<1>14. IsFiniteSet(DOMAIN g.views) => IsFiniteSet(DOMAIN k.views)
  <2>1. SUFFICES ASSUME IsFiniteSet(DOMAIN h.views) PROVE IsFiniteSet(DOMAIN k.views)
    BY DEF ViewsWritten, ViewsAdded
  <2>2. PICK z : DOMAIN k.views \subseteq DOMAIN h.views \cup nodes \cup {z}
    BY <1>3 DEF ViewWritten
  <2>3. PICK y : nodes \subseteq DOMAIN h.views \cup {y}
    BY <1>2 DEF NodesOf, ViewNodes
  <2>4. IsFiniteSet({y, z})
    <3>1. IsFiniteSet({y}) /\ IsFiniteSet({y} \cup {z})
      BY FS_Singleton, FS_AddElement
    <3>2. {y, z} = {y} \cup {z}
      OBVIOUS
    <3>3. QED
      BY <3>1, <3>2
  <2>5. DOMAIN k.views \subseteq DOMAIN h.views \cup {y, z}
    BY <2>2, <2>3
  <2>6. QED
    BY <2>1, <2>4, <2>5, FS_Union, FS_Subset
<1>15. ASSUME NEW x \in DOMAIN g.views
       PROVE  /\ Key(x) \notin Keys(D \cup {v}) => k.views[x] = g.views[x]
              /\ ~g.views[x].unresolved => ~k.views[x].unresolved
  <2>1. x \in DOMAIN h.views
    BY DEF ViewsWritten, ViewsAdded
  <2>2. CASE x \in nodes
    BY <1>4, <1>6, <1>9, <2>1, <2>2 DEF ViewsWritten, ViewsAdded
  <2>3. CASE x \notin nodes
    BY <1>6, <1>8, <2>1, <2>3 DEF ViewsWritten, ViewsAdded
  <2>4. QED
    BY <2>2, <2>3
<1>16. \A y, z : ResolvedViews(g, y, z) \subseteq ResolvedViews(h, y, z)
  BY DEF ViewsWritten, ViewsAdded, ResolvedViews, ViewNodes
<1>17. ASSUME NEW x \in DOMAIN k.views
       PROVE  /\ Key(x) \in Keys(D \cup {v}) => Mine(k, m, x) \/ IsStub(k, x)
              /\ x \notin DOMAIN g.views => Mine(k, m, x) \/ IsStub(k, x)
              /\ (x \notin DOMAIN g.views /\ k.views[x].unresolved) =>
                    \E u \in D \cup {v} : /\ u.base # None /\ Key(x) = BaseKey(u)
                                          /\ ResolvedViews(g, u.kind, u.base) = {}
              /\ (k.views[x].module = m /\ Key(x) \notin Keys(D \cup {v})) =>
                    x \in DOMAIN g.views \/ m = Unresolved
  <2>1. CASE x \in nodes
    <3>1. (x \notin DOMAIN g.views /\ k.views[x].unresolved) =>
                    \E u \in D : /\ u.base # None /\ Key(x) = BaseKey(u)
                                 /\ ResolvedViews(g, u.kind, u.base) = {}
      BY <1>9, <2>1 DEF ViewsWritten, ViewsAdded
    <3>2. QED
      BY <1>4, <1>6, <1>11, <2>1, <3>1
  <2>2. CASE x \in DOMAIN h.views \ nodes
    <3>1. k.views[x] = h.views[x] /\ Key(x) # Key(v)
      BY <1>5, <1>8, <2>2
    <3>2. Key(x) \in Keys(D \cup {v}) => Key(x) \in Keys(D)
      BY <1>6, <3>1
    <3>3. /\ Key(x) \in Keys(D) => Mine(h, m, x) \/ IsStub(h, x)
          /\ x \notin DOMAIN g.views => Mine(h, m, x) \/ IsStub(h, x)
          /\ (x \notin DOMAIN g.views /\ h.views[x].unresolved) =>
                    \E u \in D : /\ u.base # None /\ Key(x) = BaseKey(u)
                                 /\ ResolvedViews(g, u.kind, u.base) = {}
          /\ (h.views[x].module = m /\ Key(x) \notin Keys(D)) =>
                x \in DOMAIN g.views \/ m = Unresolved
      BY <2>2 DEF ViewsWritten, ViewsAdded
    <3>4. QED
      BY <1>6, <1>12, <2>2, <3>1, <3>2, <3>3
  <2>3. CASE x \in DOMAIN k.views \ (DOMAIN h.views \cup nodes)
    <3>1. Key(x) = BaseKey(v) /\ v.base # None /\ IsStub(k, x)
      BY <1>10, <2>3
    <3>2. ResolvedViews(h, v.kind, v.base) = {}
      BY <1>3, <2>3 DEF ViewWritten
    <3>3. ResolvedViews(g, v.kind, v.base) = {}
      BY <1>16, <3>2
    <3>4. k.views[x].module = m => m = Unresolved
      BY <3>1 DEF IsStub
    <3>5. QED
      BY <3>1, <3>3, <3>4
  <2>4. QED
    BY <2>1, <2>2, <2>3
<1>18. h.targets \subseteq k.targets /\ h.extends \subseteq k.extends
  BY <1>3 DEF ViewWritten
<1>19. ASSUME NEW u \in D \cup {v}
       PROVE  \E x \in DOMAIN k.views : Key(x) = Key(u) /\ Mine(k, m, x) /\ HasEdges(g, k, u, x)
  <2>1. CASE u \in D
    <3>1. PICK x \in DOMAIN h.views : Key(x) = Key(u) /\ Mine(h, m, x) /\ HasEdges(g, h, u, x)
      BY <2>1 DEF ViewsWritten, ViewsAdded
    <3>2. HasEdges(g, k, u, x)
      BY <1>18, <3>1 DEF HasEdges
    <3>3. QED
      BY <1>8, <1>12, <3>1, <3>2
  <2>2. CASE u = v
    <3>1. PICK x \in nodes : TRUE
      BY <1>4
    <3>2. {x} \X ModelsNamed(g, v.model) \subseteq k.targets
      <4>1. ModelsNamed(g, v.model) = ModelsNamed(h, v.model)
        BY DEF ViewsWritten, ViewsAdded, SameModels, ModelsNamed
      <4>2. k.targets = h.targets \cup nodes \X ModelsNamed(h, v.model)
        BY <1>3 DEF ViewWritten
      <4>3. QED
        BY <3>1, <4>1, <4>2
    <3>3. ASSUME v.base # None, v.base # v.xmlid, NEW y \in ResolvedViews(g, v.kind, v.base)
          PROVE  <<x, y>> \in k.extends
      <4>1. y \in ResolvedViews(h, v.kind, v.base)
        BY <1>16, <3>3
      <4>2. y \in DOMAIN h.views /\ y.xmlid = v.base
        BY <4>1 DEF ResolvedViews, ViewNodes
      <4>3. y \notin nodes /\ y \in DOMAIN k.views
        <5>1. Key(y) # Key(v)
          BY <3>3, <4>2 DEF Key
        <5>2. QED
          BY <1>4, <1>8, <4>2, <5>1
      <4>4. QED
        BY <1>3, <3>1, <3>3, <4>1, <4>3 DEF ViewWritten
    <3>4. HasEdges(g, k, v, x)
      BY <3>2, <3>3 DEF HasEdges
    <3>5. x \in DOMAIN k.views /\ Key(x) = Key(v) /\ Mine(k, m, x)
      BY <1>4, <1>8, <1>11, <3>1
    <3>6. QED
      BY <2>2, <3>4, <3>5
  <2>3. QED
    BY <2>1, <2>2
<1>20. /\ g.targets \subseteq k.targets /\ g.extends \subseteq k.extends
  BY <1>18 DEF ViewsWritten, ViewsAdded
<1>21. k.targets \subseteq h.targets \cup (DOMAIN k.views) \X (DOMAIN g.models)
  <2>1. k.targets = h.targets \cup nodes \X ModelsNamed(h, v.model)
    BY <1>3 DEF ViewWritten
  <2>2. ModelsNamed(h, v.model) \subseteq DOMAIN g.models
    BY DEF ViewsWritten, ViewsAdded, SameModels, ModelsNamed
  <2>3. nodes \subseteq DOMAIN k.views
    BY <1>8
  <2>4. QED
    BY <2>1, <2>2, <2>3
<1>22. k.targets \subseteq g.targets \cup (DOMAIN k.views) \X (DOMAIN g.models)
  BY <1>8, <1>21 DEF ViewsWritten, ViewsAdded
<1>23. k.extends \subseteq g.extends \cup (DOMAIN k.views) \X (DOMAIN k.views)
  <2>1. h.extends \subseteq g.extends \cup (DOMAIN k.views) \X (DOMAIN k.views)
    BY <1>8 DEF ViewsWritten, ViewsAdded
  <2>2. k.extends \subseteq h.extends \cup nodes \X ViewNodes(k, v.kind, v.base)
    BY <1>3 DEF ViewWritten
  <2>3. ViewNodes(k, v.kind, v.base) \subseteq DOMAIN k.views /\ nodes \subseteq DOMAIN k.views
    BY <1>8 DEF ViewNodes
  <2>4. QED
    BY <2>1, <2>2, <2>3
<1>24. Tied(g, k, m, D \cup {v})
  BY <1>2, <1>3, OneMoreTied
<1>25. QED
  BY <1>24, <1>7, <1>13, <1>14, <1>15, <1>17, <1>19, <1>20, <1>22, <1>23 DEF ViewsWritten, ViewsAdded

-----------------------------------------------------------------------------
(* What writing the JS layers and the stylesheets of a module adds         *)

LEMMA ViewsAreWritten ==
  ASSUME NEW g, IsGraph(g), NEW m \in Modules, NEW l, NEW n \in Nat,
         NEW w, Ends(w, "views", m, l, g, n)
  PROVE  ViewsWritten(g, w, m, FirstOf(l, n))
<1>1. PICK t : Trace(t, "views", m, l, g, n) /\ t[n] = w
  BY DEF Ends
<1> DEFINE T == {i \in Nat : i <= n => ViewsWritten(g, t[i], m, FirstOf(l, i))}
<1>2. 0 \in T
  <2>1. t[0] = g /\ FirstOf(l, 0) = {}
    BY <1>1 DEF Trace, FirstOf
  <2>2. ViewsWritten(g, g, m, {})
    BY DEF ViewsWritten, ViewsAdded, Tied, Keys, SameMods, SameModels, SameJs, SameSheets
  <2>3. QED
    BY <2>1, <2>2
<1>3. ASSUME NEW i \in Nat, i \in T PROVE i + 1 \in T
  <2>1. SUFFICES ASSUME i + 1 <= n PROVE ViewsWritten(g, t[i + 1], m, FirstOf(l, i + 1))
    OBVIOUS
  <2>2. t[i + 1] = WriteView(t[i], m, l[i + 1])
    BY <1>1, <2>1 DEF Trace, Put
  <2>3. FirstOf(l, i + 1) = FirstOf(l, i) \cup {l[i + 1]}
    <3>1. 1 .. (i + 1) = 1 .. i \cup {i + 1}
      OBVIOUS
    <3>2. QED
      BY <3>1 DEF FirstOf
  <2>4. ViewsWritten(g, t[i], m, FirstOf(l, i))
    BY <1>3, <2>1
  <2>5. QED
    BY <2>2, <2>3, <2>4, OneMoreView
<1>4. Nat \subseteq T
  <2> HIDE DEF T
  <2>1. QED
    BY <1>2, <1>3, Induction
<1>5. QED
  BY <1>1, <1>4

\* The components D of m are written to g, and h is the outcome.
CompIds(m, D) == {CompId(m, c) : c \in D}
CompsAdded(g, h, m, D) ==
  /\ IsGraph(h) /\ SameModels(g, h) /\ SameViews(g, h) /\ SameSheets(g, h)
  /\ h.definedIn = g.definedIn \cup {<<"OWLComp", x>> : x \in CompIds(m, D)}
  /\ h.patches = g.patches /\ h.patchEdges = g.patchEdges
  /\ DOMAIN h.comps = DOMAIN g.comps \cup CompIds(m, D)
  /\ \A x \in DOMAIN g.comps \ CompIds(m, D) : h.comps[x] = g.comps[x]
  /\ \A x \in CompIds(m, D) : /\ ~h.comps[x].unresolved
                              /\ \E c \in D : c.name = x.name /\ h.comps[x].bound = c.bound
  /\ g.bound \subseteq h.bound
  /\ \A c \in D : {CompId(m, c)} \X ModelsNamed(g, c.bound) \subseteq h.bound
CompsWritten(g, h, m, D) == SameMods(g, h) /\ CompsAdded(g, h, m, D)

LEMMA OneMoreComp ==
  ASSUME NEW g, NEW h, NEW k, NEW m \in Modules, NEW D, NEW c,
         CompsWritten(g, h, m, D), k = WriteComp(h, m, c)
  PROVE  CompsWritten(g, k, m, D \cup {c})
<1>1. IsGraph(h)
  BY DEF CompsWritten, CompsAdded
<1>2. CompWritten(h, k, m, c)
  BY <1>1, WriteCompIs
<1>3. PICK id : id = CompId(m, c)
  OBVIOUS
<1>4. CompIds(m, D \cup {c}) = CompIds(m, D) \cup {id}
  BY <1>3 DEF CompIds
<1>5. IsGraph(k) /\ SameMods(g, k) /\ SameModels(g, k) /\ SameViews(g, k) /\ SameSheets(g, k)
  <2>1. IsGraph(k) /\ SameMods(h, k) /\ SameModels(h, k) /\ SameViews(h, k) /\ SameSheets(h, k)
    BY <1>2 DEF CompWritten
  <2>2. SameMods(g, h) /\ SameModels(g, h) /\ SameViews(g, h) /\ SameSheets(g, h)
    BY DEF CompsWritten, CompsAdded
  <2>3. QED
    BY <2>1, <2>2 DEF SameMods, SameModels, SameViews, SameSheets
<1>6. k.definedIn = g.definedIn \cup {<<"OWLComp", x>> : x \in CompIds(m, D) \cup {id}}
  <2>1. k.definedIn = h.definedIn \cup {<<"OWLComp", id>>}
    BY <1>2, <1>3 DEF CompWritten
  <2>2. h.definedIn = g.definedIn \cup {<<"OWLComp", x>> : x \in CompIds(m, D)}
    BY DEF CompsWritten, CompsAdded
  <2>3. QED
    BY <2>1, <2>2
<1>7. k.patches = g.patches /\ k.patchEdges = g.patchEdges
  BY <1>2 DEF CompWritten, CompsWritten, CompsAdded
<1>8. DOMAIN k.comps = DOMAIN h.comps \cup {id} /\ \A x \in DOMAIN h.comps \ {id} : k.comps[x] = h.comps[x]
  BY <1>2, <1>3 DEF CompWritten, Extends
<1>9. ~k.comps[id].unresolved /\ k.comps[id].bound = c.bound /\ id.name = c.name
  BY <1>2, <1>3 DEF CompWritten, CompId
<1>10. /\ DOMAIN k.comps = DOMAIN g.comps \cup CompIds(m, D \cup {c})
       /\ \A x \in DOMAIN g.comps \ CompIds(m, D \cup {c}) : k.comps[x] = g.comps[x]
  BY <1>4, <1>8 DEF CompsWritten, CompsAdded
<1>11. \A x \in CompIds(m, D \cup {c}) :
         /\ ~k.comps[x].unresolved
         /\ \E d \in D \cup {c} : d.name = x.name /\ k.comps[x].bound = d.bound
  <2>1. \A x \in CompIds(m, D) \ {id} :
          /\ x \in DOMAIN h.comps /\ ~h.comps[x].unresolved
          /\ \E d \in D : d.name = x.name /\ h.comps[x].bound = d.bound
    BY DEF CompsWritten, CompsAdded
  <2>2. QED
    BY <1>4, <1>8, <1>9, <2>1
<1>12. k.bound = h.bound \cup {id} \X ModelsNamed(g, c.bound)
  <2>1. ModelsNamed(h, c.bound) = ModelsNamed(g, c.bound)
    BY DEF CompsWritten, CompsAdded, SameModels, ModelsNamed
  <2>2. QED
    BY <1>2, <1>3, <2>1 DEF CompWritten
<1>13. g.bound \subseteq k.bound
  BY <1>12 DEF CompsWritten, CompsAdded
<1>14. ASSUME NEW d \in D \cup {c} PROVE {CompId(m, d)} \X ModelsNamed(g, d.bound) \subseteq k.bound
  <2>1. CASE d = c
    BY <1>3, <1>12, <2>1
  <2>2. CASE d \in D
    <3>1. {CompId(m, d)} \X ModelsNamed(g, d.bound) \subseteq h.bound
      BY <2>2 DEF CompsWritten, CompsAdded
    <3>2. QED
      BY <1>12, <3>1
  <2>3. QED
    BY <2>1, <2>2
<1>15. QED
  BY <1>4, <1>5, <1>6, <1>7, <1>10, <1>11, <1>13, <1>14 DEF CompsWritten, CompsAdded

LEMMA CompsAreWritten ==
  ASSUME NEW g, IsGraph(g), NEW m \in Modules, NEW l, NEW n \in Nat,
         NEW w, Ends(w, "comps", m, l, g, n)
  PROVE  CompsWritten(g, w, m, FirstOf(l, n))
<1>1. PICK t : Trace(t, "comps", m, l, g, n) /\ t[n] = w
  BY DEF Ends
<1> DEFINE T == {i \in Nat : i <= n => CompsWritten(g, t[i], m, FirstOf(l, i))}
<1>2. 0 \in T
  <2>1. t[0] = g /\ FirstOf(l, 0) = {}
    BY <1>1 DEF Trace, FirstOf
  <2>2. CompsWritten(g, g, m, {})
    BY DEF CompsWritten, CompsAdded, CompIds, SameMods, SameModels, SameViews, SameSheets
  <2>3. QED
    BY <2>1, <2>2
<1>3. ASSUME NEW i \in Nat, i \in T PROVE i + 1 \in T
  <2>1. SUFFICES ASSUME i + 1 <= n PROVE CompsWritten(g, t[i + 1], m, FirstOf(l, i + 1))
    OBVIOUS
  <2>2. t[i + 1] = WriteComp(t[i], m, l[i + 1])
    BY <1>1, <2>1 DEF Trace, Put
  <2>3. FirstOf(l, i + 1) = FirstOf(l, i) \cup {l[i + 1]}
    <3>1. 1 .. (i + 1) = 1 .. i \cup {i + 1}
      OBVIOUS
    <3>2. QED
      BY <3>1 DEF FirstOf
  <2>4. CompsWritten(g, t[i], m, FirstOf(l, i))
    BY <1>3, <2>1
  <2>5. QED
    BY <2>2, <2>3, <2>4, OneMoreComp
<1>4. Nat \subseteq T
  <2> HIDE DEF T
  <2>1. QED
    BY <1>2, <1>3, Induction
<1>5. QED
  BY <1>1, <1>4

\* The patches D of m are written to g, and h is the outcome.
PatchIds(m, D) == {PatchId(m, p) : p \in D}
PatchesAdded(g, h, m, D) ==
  /\ IsGraph(h) /\ SameModels(g, h) /\ SameViews(g, h) /\ SameSheets(g, h)
  /\ h.definedIn = g.definedIn \cup {<<"JSPatch", x>> : x \in PatchIds(m, D)}
  /\ h.bound = g.bound
  /\ h.patches = g.patches \cup PatchIds(m, D)
  /\ DOMAIN g.comps \subseteq DOMAIN h.comps
  /\ \A x \in DOMAIN g.comps : h.comps[x] = g.comps[x]
  /\ \A x \in DOMAIN h.comps \ DOMAIN g.comps : IsHeld(x) /\ h.comps[x].unresolved
  /\ IsFiniteSet(DOMAIN g.comps) => IsFiniteSet(DOMAIN h.comps)
  /\ g.patchEdges \subseteq h.patchEdges
  /\ h.patchEdges \subseteq g.patchEdges \cup PatchIds(m, D) \X (DOMAIN h.comps)
  /\ \A p \in D : \A x \in CompsNamed(g, p.target) :
       ~g.comps[x].unresolved => <<PatchId(m, p), x>> \in h.patchEdges
PatchesWritten(g, h, m, D) == SameMods(g, h) /\ PatchesAdded(g, h, m, D)

LEMMA OneMorePatch ==
  ASSUME NEW g, NEW h, NEW k, NEW m \in Modules, NEW D, NEW p,
         PatchesWritten(g, h, m, D), k = WritePatch(h, m, p)
  PROVE  PatchesWritten(g, k, m, D \cup {p})
<1>1. IsGraph(h)
  BY DEF PatchesWritten, PatchesAdded
<1>2. PatchWritten(h, k, m, p)
  BY <1>1, WritePatchIs
<1>3. PICK id : id = PatchId(m, p)
  OBVIOUS
<1>4. PatchIds(m, D \cup {p}) = PatchIds(m, D) \cup {id}
  BY <1>3 DEF PatchIds
<1>5. IsGraph(k) /\ SameMods(g, k) /\ SameModels(g, k) /\ SameViews(g, k) /\ SameSheets(g, k)
  <2>1. IsGraph(k) /\ SameMods(h, k) /\ SameModels(h, k) /\ SameViews(h, k) /\ SameSheets(h, k)
    BY <1>2 DEF PatchWritten
  <2>2. SameMods(g, h) /\ SameModels(g, h) /\ SameViews(g, h) /\ SameSheets(g, h)
    BY DEF PatchesWritten, PatchesAdded
  <2>3. QED
    BY <2>1, <2>2 DEF SameMods, SameModels, SameViews, SameSheets
<1>6. k.definedIn = g.definedIn \cup {<<"JSPatch", x>> : x \in PatchIds(m, D) \cup {id}}
  <2>1. k.definedIn = h.definedIn \cup {<<"JSPatch", id>>}
    BY <1>2, <1>3 DEF PatchWritten
  <2>2. h.definedIn = g.definedIn \cup {<<"JSPatch", x>> : x \in PatchIds(m, D)}
    BY DEF PatchesWritten, PatchesAdded
  <2>3. QED
    BY <2>1, <2>2
<1>7. k.bound = g.bound /\ k.patches = g.patches \cup PatchIds(m, D \cup {p})
  BY <1>2, <1>3, <1>4 DEF PatchWritten, PatchesWritten, PatchesAdded
<1>8. /\ DOMAIN h.comps \subseteq DOMAIN k.comps
      /\ \A x \in DOMAIN h.comps : k.comps[x] = h.comps[x]
      /\ \A x \in DOMAIN k.comps \ DOMAIN h.comps : IsHeld(x) /\ k.comps[x].unresolved
  BY <1>2 DEF PatchWritten, Extends
<1>9. /\ DOMAIN g.comps \subseteq DOMAIN k.comps
      /\ \A x \in DOMAIN g.comps : k.comps[x] = g.comps[x]
      /\ \A x \in DOMAIN k.comps \ DOMAIN g.comps : IsHeld(x) /\ k.comps[x].unresolved
  BY <1>8 DEF PatchesWritten, PatchesAdded
<1>10. IsFiniteSet(DOMAIN g.comps) => IsFiniteSet(DOMAIN k.comps)
  <2>1. PICK z : DOMAIN k.comps \subseteq DOMAIN h.comps \cup {z}
    BY <1>2 DEF PatchWritten
  <2>2. IsFiniteSet(DOMAIN h.comps) => IsFiniteSet(DOMAIN h.comps \cup {z})
    BY FS_AddElement
  <2>3. QED
    BY <2>1, <2>2, FS_Subset DEF PatchesWritten, PatchesAdded
<1>11. h.patchEdges \subseteq k.patchEdges
  BY <1>2 DEF PatchWritten
<1>12. k.patchEdges \subseteq h.patchEdges \cup {id} \X (DOMAIN k.comps)
  BY <1>2, <1>3 DEF PatchWritten
<1>13. g.patchEdges \subseteq k.patchEdges
  BY <1>11 DEF PatchesWritten, PatchesAdded
<1>14. k.patchEdges \subseteq g.patchEdges \cup PatchIds(m, D \cup {p}) \X (DOMAIN k.comps)
  <2>1. h.patchEdges \subseteq g.patchEdges \cup PatchIds(m, D) \X (DOMAIN h.comps)
    BY DEF PatchesWritten, PatchesAdded
  <2>2. ASSUME NEW e \in k.patchEdges
        PROVE  e \in g.patchEdges \cup PatchIds(m, D \cup {p}) \X (DOMAIN k.comps)
    <3>1. CASE e \in h.patchEdges
      BY <1>4, <1>8, <2>1, <3>1
    <3>2. CASE e \in {id} \X (DOMAIN k.comps)
      BY <1>4, <3>2
    <3>3. QED
      BY <1>12, <3>1, <3>2
  <2>3. QED
    BY <2>2
<1>15. ASSUME NEW q \in D \cup {p}, NEW x \in CompsNamed(g, q.target), ~g.comps[x].unresolved
       PROVE  <<PatchId(m, q), x>> \in k.patchEdges
  <2>1. CASE q \in D
    <3>1. <<PatchId(m, q), x>> \in h.patchEdges
      BY <1>15, <2>1 DEF PatchesWritten, PatchesAdded
    <3>2. QED
      BY <1>11, <3>1
  <2>2. CASE q = p
    <3>1. x \in DOMAIN g.comps /\ x.name = p.target
      BY <2>2 DEF CompsNamed
    <3>2. x \in CompsNamed(h, p.target) /\ ~h.comps[x].unresolved
      BY <1>15, <3>1 DEF CompsNamed, PatchesWritten, PatchesAdded
    <3>3. QED
      BY <1>2, <2>2, <3>2 DEF PatchWritten
  <2>3. QED
    BY <2>1, <2>2
<1>16. QED
  BY <1>4, <1>5, <1>6, <1>7, <1>9, <1>10, <1>13, <1>14, <1>15 DEF PatchesWritten, PatchesAdded

LEMMA PatchesAreWritten ==
  ASSUME NEW g, IsGraph(g), NEW m \in Modules, NEW l, NEW n \in Nat,
         NEW w, Ends(w, "patches", m, l, g, n)
  PROVE  PatchesWritten(g, w, m, FirstOf(l, n))
<1>1. PICK t : Trace(t, "patches", m, l, g, n) /\ t[n] = w
  BY DEF Ends
<1> DEFINE T == {i \in Nat : i <= n => PatchesWritten(g, t[i], m, FirstOf(l, i))}
<1>2. 0 \in T
  <2>1. t[0] = g /\ FirstOf(l, 0) = {}
    BY <1>1 DEF Trace, FirstOf
  <2>2. PatchesWritten(g, g, m, {})
    BY DEF PatchesWritten, PatchesAdded, PatchIds, SameMods, SameModels, SameViews, SameSheets
  <2>3. QED
    BY <2>1, <2>2
<1>3. ASSUME NEW i \in Nat, i \in T PROVE i + 1 \in T
  <2>1. SUFFICES ASSUME i + 1 <= n PROVE PatchesWritten(g, t[i + 1], m, FirstOf(l, i + 1))
    OBVIOUS
  <2>2. t[i + 1] = WritePatch(t[i], m, l[i + 1])
    BY <1>1, <2>1 DEF Trace, Put
  <2>3. FirstOf(l, i + 1) = FirstOf(l, i) \cup {l[i + 1]}
    <3>1. 1 .. (i + 1) = 1 .. i \cup {i + 1}
      OBVIOUS
    <3>2. QED
      BY <3>1 DEF FirstOf
  <2>4. PatchesWritten(g, t[i], m, FirstOf(l, i))
    BY <1>3, <2>1
  <2>5. QED
    BY <2>2, <2>3, <2>4, OneMorePatch
<1>4. Nat \subseteq T
  <2> HIDE DEF T
  <2>1. QED
    BY <1>2, <1>3, Induction
<1>5. QED
  BY <1>1, <1>4

\* The stylesheets D of m are written to g, and h is the outcome.
SheetIds(m, D) == {SheetId(m, s) : s \in D}
IsMods(f) == f = [y \in Modules |-> f[y]]
StubbedMods(g, h) ==
  /\ IsMods(h.mods)
  /\ \A y \in Modules : h.mods[y] = g.mods[y] \/ (g.mods[y] = "absent" /\ h.mods[y] = "stub")
SheetsWritten(g, h, m, D) ==
  /\ IsGraph(h) /\ SameModels(g, h) /\ SameViews(g, h) /\ SameJs(g, h)
  /\ h.definedIn = g.definedIn \cup {<<"Stylesheet", x>> : x \in SheetIds(m, D)}
  /\ h.depends = g.depends
  /\ IsMods(g.mods) => StubbedMods(g, h)
  /\ h.sheets = g.sheets \cup SheetIds(m, D)
  /\ g.imports \subseteq h.imports

LEMMA OneMoreSheet ==
  ASSUME NEW g, NEW h, NEW k, NEW m \in Modules, NEW D, NEW s,
         SheetsWritten(g, h, m, D), k = WriteSheet(h, m, s)
  PROVE  SheetsWritten(g, k, m, D \cup {s})
<1>1. IsGraph(h)
  BY DEF SheetsWritten
<1>2. SheetWritten(h, k, m, s)
  BY <1>1, WriteSheetIs
<1>3. PICK id : id = SheetId(m, s)
  OBVIOUS
<1>4. SheetIds(m, D \cup {s}) = SheetIds(m, D) \cup {id}
  BY <1>3 DEF SheetIds
<1>5. IsGraph(k) /\ SameModels(g, k) /\ SameViews(g, k) /\ SameJs(g, k)
  <2>1. IsGraph(k) /\ SameModels(h, k) /\ SameViews(h, k) /\ SameJs(h, k)
    BY <1>2 DEF SheetWritten
  <2>2. SameModels(g, h) /\ SameViews(g, h) /\ SameJs(g, h)
    BY DEF SheetsWritten
  <2>3. QED
    BY <2>1, <2>2 DEF SameModels, SameViews, SameJs
<1>6. k.definedIn = g.definedIn \cup {<<"Stylesheet", x>> : x \in SheetIds(m, D) \cup {id}}
  <2>1. k.definedIn = h.definedIn \cup {<<"Stylesheet", id>>}
    BY <1>2, <1>3 DEF SheetWritten
  <2>2. h.definedIn = g.definedIn \cup {<<"Stylesheet", x>> : x \in SheetIds(m, D)}
    BY DEF SheetsWritten
  <2>3. QED
    BY <2>1, <2>2
<1>7. k.depends = g.depends /\ k.sheets = g.sheets \cup SheetIds(m, D \cup {s})
  BY <1>2, <1>3, <1>4 DEF SheetWritten, SheetsWritten
<1>8. g.imports \subseteq k.imports
  <2>1. h.imports \subseteq k.imports
    BY <1>2 DEF SheetWritten
  <2>2. QED
    BY <2>1 DEF SheetsWritten
<1>9. IsMods(g.mods) => StubbedMods(g, k)
  <2>1. k.mods = [y \in Modules |-> IF y = m /\ h.mods[y] = "absent" THEN "stub" ELSE h.mods[y]]
    BY <1>2 DEF SheetWritten
  <2>2. QED
    BY <2>1 DEF SheetsWritten, StubbedMods, IsMods
<1>10. QED
  BY <1>4, <1>5, <1>6, <1>7, <1>8, <1>9 DEF SheetsWritten

LEMMA SheetsAreWritten ==
  ASSUME NEW g, IsGraph(g), NEW m \in Modules, NEW l, NEW n \in Nat,
         NEW w, Ends(w, "sheets", m, l, g, n)
  PROVE  SheetsWritten(g, w, m, FirstOf(l, n))
<1>1. PICK t : Trace(t, "sheets", m, l, g, n) /\ t[n] = w
  BY DEF Ends
<1> DEFINE T == {i \in Nat : i <= n => SheetsWritten(g, t[i], m, FirstOf(l, i))}
<1>2. 0 \in T
  <2>1. t[0] = g /\ FirstOf(l, 0) = {}
    BY <1>1 DEF Trace, FirstOf
  <2>2. SheetsWritten(g, g, m, {})
    BY DEF SheetsWritten, SheetIds, StubbedMods, SameModels, SameViews, SameJs
  <2>3. QED
    BY <2>1, <2>2
<1>3. ASSUME NEW i \in Nat, i \in T PROVE i + 1 \in T
  <2>1. SUFFICES ASSUME i + 1 <= n PROVE SheetsWritten(g, t[i + 1], m, FirstOf(l, i + 1))
    OBVIOUS
  <2>2. t[i + 1] = WriteSheet(t[i], m, l[i + 1])
    BY <1>1, <2>1 DEF Trace, Put
  <2>3. FirstOf(l, i + 1) = FirstOf(l, i) \cup {l[i + 1]}
    <3>1. 1 .. (i + 1) = 1 .. i \cup {i + 1}
      OBVIOUS
    <3>2. QED
      BY <3>1 DEF FirstOf
  <2>4. SheetsWritten(g, t[i], m, FirstOf(l, i))
    BY <1>3, <2>1
  <2>5. QED
    BY <2>2, <2>3, <2>4, OneMoreSheet
<1>4. Nat \subseteq T
  <2> HIDE DEF T
  <2>1. QED
    BY <1>2, <1>3, Induction
<1>5. QED
  BY <1>1, <1>4

-----------------------------------------------------------------------------
(* The results that a run writes, and its module steps                     *)

\* The Module node of m, and what its stubs hold, is made before.
LEMMA ModelsRebase ==
  ASSUME NEW g, NEW o, NEW h, NEW m, NEW D, ModelsAdded(o, h, m, D),
         SameModels(g, o), SameViews(g, o), SameJs(g, o), SameSheets(g, o),
         o.definedIn = g.definedIn
  PROVE  ModelsAdded(g, h, m, D)
<1>1. /\ o.models = g.models /\ o.inherits = g.inherits /\ o.delegates = g.delegates
      /\ o.fields = g.fields /\ o.methods = g.methods /\ o.uses = g.uses
  BY DEF SameModels
<1>2. \A n : ResolvedModels(o, n) = ResolvedModels(g, n)
  BY <1>1 DEF ResolvedModels, ModelsNamed
<1>3. SameViews(g, h) /\ SameJs(g, h) /\ SameSheets(g, h)
  <2>1. SameViews(o, h) /\ SameJs(o, h) /\ SameSheets(o, h)
    BY DEF ModelsAdded
  <2>2. QED
    BY <2>1 DEF SameViews, SameJs, SameSheets
<1>4. QED
  BY <1>1, <1>2, <1>3 DEF ModelsAdded

LEMMA ViewsRebase ==
  ASSUME NEW g, NEW o, NEW h, NEW m, NEW D,
         SameModels(g, o), SameViews(g, o), SameJs(g, o), SameSheets(g, o),
         o.definedIn = g.definedIn
  PROVE  ViewsAdded(o, h, m, D) => ViewsAdded(g, h, m, D)
<1>0. SUFFICES ASSUME ViewsAdded(o, h, m, D) PROVE ViewsAdded(g, h, m, D)
  OBVIOUS
<1>1. o.views = g.views /\ o.extends = g.extends /\ o.targets = g.targets /\ o.models = g.models
  BY DEF SameViews, SameModels
<1>2. /\ \A y, z : ResolvedViews(o, y, z) = ResolvedViews(g, y, z)
      /\ \A n : ModelsNamed(o, n) = ModelsNamed(g, n)
  BY <1>1 DEF ResolvedViews, ViewNodes, ModelsNamed
<1>3. SameModels(g, h) /\ SameJs(g, h) /\ SameSheets(g, h)
  <2>1. SameModels(o, h) /\ SameJs(o, h) /\ SameSheets(o, h)
    BY <1>0 DEF ViewsAdded
  <2>2. QED
    BY <2>1 DEF SameModels, SameJs, SameSheets
<1>4. \A v, x : HasEdges(o, h, v, x) <=> HasEdges(g, h, v, x)
  BY <1>2 DEF HasEdges
<1>5. Tied(g, h, m, D)
  BY <1>0, <1>1 DEF ViewsAdded, Tied, NumbersOK
<1>6. /\ IsGraph(h) /\ DOMAIN g.views \subseteq DOMAIN h.views
      /\ IsFiniteSet(DOMAIN g.views) => IsFiniteSet(DOMAIN h.views)
      /\ g.definedIn \subseteq h.definedIn
      /\ \A e \in h.definedIn \ g.definedIn : \E x \in DOMAIN h.views : e = <<"View", x>>
  BY <1>0, <1>1 DEF ViewsAdded
<1>7. \A x \in DOMAIN g.views :
        /\ Key(x) \notin Keys(D) => h.views[x] = g.views[x]
        /\ ~g.views[x].unresolved => ~h.views[x].unresolved
  BY <1>0, <1>1 DEF ViewsAdded
<1>8. \A x \in DOMAIN h.views :
        /\ Key(x) \in Keys(D) => Mine(h, m, x) \/ IsStub(h, x)
        /\ x \notin DOMAIN g.views => Mine(h, m, x) \/ IsStub(h, x)
        /\ (x \notin DOMAIN g.views /\ h.views[x].unresolved) =>
             \E v \in D : /\ v.base # None /\ Key(x) = BaseKey(v)
                          /\ ResolvedViews(g, v.kind, v.base) = {}
        /\ (h.views[x].module = m /\ Key(x) \notin Keys(D)) =>
             x \in DOMAIN g.views \/ m = Unresolved
  <2>1. \A x \in DOMAIN h.views :
          /\ Key(x) \in Keys(D) => Mine(h, m, x) \/ IsStub(h, x)
          /\ x \notin DOMAIN o.views => Mine(h, m, x) \/ IsStub(h, x)
          /\ (x \notin DOMAIN o.views /\ h.views[x].unresolved) =>
               \E v \in D : /\ v.base # None /\ Key(x) = BaseKey(v)
                            /\ ResolvedViews(o, v.kind, v.base) = {}
          /\ (h.views[x].module = m /\ Key(x) \notin Keys(D)) =>
               x \in DOMAIN o.views \/ m = Unresolved
    BY <1>0, Zenon DEF ViewsAdded
  <2>2. QED
    BY <1>1, <1>2, <2>1
<1>9. \A v \in D : \E x \in DOMAIN h.views : /\ Key(x) = Key(v) /\ Mine(h, m, x)
                                             /\ HasEdges(g, h, v, x)
  BY <1>0, <1>4 DEF ViewsAdded
<1>10. /\ g.targets \subseteq h.targets
       /\ h.targets \subseteq g.targets \cup (DOMAIN h.views) \X (DOMAIN g.models)
       /\ g.extends \subseteq h.extends
       /\ h.extends \subseteq g.extends \cup (DOMAIN h.views) \X (DOMAIN h.views)
  BY <1>0, <1>1 DEF ViewsAdded
<1>11. QED
  BY <1>3, <1>5, <1>6, <1>7, <1>8, <1>9, <1>10, Zenon DEF ViewsAdded

LEMMA CompsRebase ==
  ASSUME NEW g, NEW o, NEW h, NEW m, NEW D, CompsAdded(o, h, m, D),
         SameModels(g, o), SameViews(g, o), SameJs(g, o), SameSheets(g, o),
         o.definedIn = g.definedIn
  PROVE  CompsAdded(g, h, m, D)
<1>1. /\ o.comps = g.comps /\ o.bound = g.bound /\ o.patches = g.patches
      /\ o.patchEdges = g.patchEdges /\ o.models = g.models
  BY DEF SameJs, SameModels
<1>2. \A n : ModelsNamed(o, n) = ModelsNamed(g, n)
  BY <1>1 DEF ModelsNamed
<1>3. SameModels(g, h) /\ SameViews(g, h) /\ SameSheets(g, h)
  <2>1. SameModels(o, h) /\ SameViews(o, h) /\ SameSheets(o, h)
    BY DEF CompsAdded
  <2>2. QED
    BY <2>1 DEF SameModels, SameViews, SameSheets
<1>4. QED
  BY <1>1, <1>2, <1>3 DEF CompsAdded

-----------------------------------------------------------------------------
(* Runs                                                                       *)

RunRecord == [pc : RunPhases, mods : Seq(Modules), todo : Seq(Modules), gc : BOOLEAN]
RunsAreOK ==
  /\ DOMAIN disk = Modules /\ \A m \in Modules : disk[m] \in Contents[m] \cup {None}
  /\ run \in [Repos -> RunRecord]
  /\ \A r \in Repos :
       /\ run[r].pc # "idle" => /\ run[r].mods # <<>>
                                /\ \A m \in ToSet(run[r].mods) : RepoOf[m] = r /\ disk[m] # None
       /\ run[r].pc \in {"models", "views", "js"} =>
            run[r].todo # <<>> /\ ToSet(run[r].todo) \subseteq ToSet(run[r].mods)
  /\ dirty \subseteq Modules /\ edits \in 0 .. MaxEdits /\ ops \in 0 .. MaxOps

LEMMA IdleWorkerIs == IdleWorker \in RunRecord /\ IdleWorker.pc = "idle"
BY EmptySeq DEF IdleWorker, RunRecord, RunPhases, Layers

\* The module at the head of a run.
LEMMA HeadIs ==
  ASSUME RunsAreOK, NEW r \in Repos, run[r].pc \in {"models", "views", "js"},
         NEW m, m = Head(run[r].todo)
  PROVE  m \in Modules /\ RepoOf[m] = r /\ disk[m] \in Contents[m]
<1>1. /\ run[r].todo \in Seq(Modules) /\ run[r].todo # <<>>
      /\ ToSet(run[r].todo) \subseteq ToSet(run[r].mods)
  BY DEF RunsAreOK, RunRecord
<1>2. m \in Modules /\ 1 \in DOMAIN run[r].todo /\ m = run[r].todo[1]
  BY <1>1, HeadTailProperties, EmptySeq, LenProperties
<1>3. m \in ToSet(run[r].mods)
  BY <1>1, <1>2 DEF ToSet
<1>4. RepoOf[m] = r /\ disk[m] # None
  BY <1>3 DEF RunsAreOK
<1>5. QED
  BY <1>2, <1>4 DEF RunsAreOK

\* The lists the parsers make of a module.
LEMMA ParsedLists ==
  ASSUME NEW m \in Modules, disk[m] \in Contents[m], NEW c, c = Parse(m)
  PROVE  /\ \E n \in Nat : DOMAIN c.models  = 1 .. n /\ FirstOf(c.models, n)  = ToSet(c.models)
         /\ \E n \in Nat : DOMAIN c.views   = 1 .. n /\ FirstOf(c.views, n)   = ToSet(c.views)
         /\ \E n \in Nat : DOMAIN c.comps   = 1 .. n /\ FirstOf(c.comps, n)   = ToSet(c.comps)
         /\ \E n \in Nat : DOMAIN c.patches = 1 .. n /\ FirstOf(c.patches, n) = ToSet(c.patches)
         /\ \E n \in Nat : DOMAIN c.sheets  = 1 .. n /\ FirstOf(c.sheets, n)  = ToSet(c.sheets)
<1>1. c = Results[m][disk[m]]
  BY DEF Parse
<1>2. /\ IsList(c.models) /\ IsList(c.views) /\ IsList(c.comps) /\ IsList(c.patches)
      /\ IsList(c.sheets)
  BY <1>1, ResultsAssumption
<1>3. ASSUME NEW q, IsList(q)
      PROVE  \E n \in Nat : DOMAIN q = 1 .. n /\ FirstOf(q, n) = ToSet(q)
  <2>1. Len(q) \in Nat /\ DOMAIN q = 1 .. Len(q)
    BY <1>3, LenProperties DEF IsList
  <2>2. FirstOf(q, Len(q)) = ToSet(q)
    BY <2>1 DEF FirstOf, ToSet
  <2>3. QED
    BY <2>1, <2>2
<1>4. QED
  BY <1>2, <1>3

-----------------------------------------------------------------------------
(* What a step does to the graph                                              *)

ModelsStep(m) ==
  LET c == Parse(m) IN
  /\ graph'.mods = [y \in Modules |-> IF y = m THEN "indexed"
                                      ELSE IF y \in c.depends /\ graph.mods[y] = "absent" THEN "stub"
                                      ELSE graph.mods[y]]
  /\ graph'.depends = graph.depends \cup {m} \X c.depends
  /\ ModelsAdded(graph, graph', m, ToSet(c.models))

LEMMA WriteResultsIs ==
  ASSUME RunsAreOK, IsGraph(graph), NEW r \in Repos, WriteResults(r),
         NEW m, m = Head(run[r].todo)
  PROVE  /\ m \in Modules /\ RepoOf[m] = r /\ disk[m] \in Contents[m]
         /\ Wrote("models", m) /\ ModelsStep(m)
<1>1. m \in Modules /\ RepoOf[m] = r /\ disk[m] \in Contents[m]
  BY HeadIs DEF WriteResults
<1>2. graph' = WriteParseResult(graph, m, Parse(m)) /\ Wrote("models", m)
  BY DEF WriteResults
<1>3. PICK c : c = Parse(m)
  OBVIOUS
<1>4. PICK n \in Nat : DOMAIN c.models = 1 .. n /\ FirstOf(c.models, n) = ToSet(c.models)
  BY <1>1, <1>3, ParsedLists
<1>5. PICK o : o = Opened(graph, m, c)
  OBVIOUS
<1>6. Ends(graph', "models", m, c.models, o, n)
  BY <1>2, <1>3, <1>4, <1>5, ModelsFold
<1>7. /\ IsGraph(o) /\ o.definedIn = graph.definedIn
      /\ SameModels(graph, o) /\ SameViews(graph, o) /\ SameJs(graph, o) /\ SameSheets(graph, o)
      /\ o.depends = graph.depends \cup {m} \X c.depends
      /\ o.mods = [y \in Modules |-> IF y = m THEN "indexed"
                                     ELSE IF y \in c.depends /\ graph.mods[y] = "absent" THEN "stub"
                                     ELSE graph.mods[y]]
  BY <1>1, <1>5, OpenedIs
<1>8. ModelsWritten(o, graph', m, ToSet(c.models))
  BY <1>1, <1>4, <1>6, <1>7, ModelsAreWritten
<1>9. ModelsAdded(graph, graph', m, ToSet(c.models))
  BY <1>7, <1>8, ModelsRebase DEF ModelsWritten
<1>10. graph'.mods = o.mods /\ graph'.depends = o.depends
  BY <1>8 DEF ModelsWritten, SameMods
<1>11. QED
  BY <1>1, <1>2, <1>3, <1>7, <1>9, <1>10 DEF ModelsStep

\* The Module node of m is merged, or not.
LEMMA MaybeStubs ==
  ASSUME NEW g, IsGraph(g), IsMods(g.mods), NEW m, NEW o, o = g \/ o = WithStubs(g, {m})
  PROVE  /\ IsGraph(o) /\ o.definedIn = g.definedIn /\ o.depends = g.depends
         /\ SameModels(g, o) /\ SameViews(g, o) /\ SameJs(g, o) /\ SameSheets(g, o)
         /\ StubbedMods(g, o)
<1>1. CASE o = g
  BY <1>1 DEF StubbedMods, SameModels, SameViews, SameJs, SameSheets
<1>2. CASE o = WithStubs(g, {m})
  <2>1. /\ IsGraph(o) /\ o.definedIn = g.definedIn /\ o.depends = g.depends
        /\ SameModels(g, o) /\ SameViews(g, o) /\ SameJs(g, o) /\ SameSheets(g, o)
        /\ o.mods = [y \in Modules |-> IF y \in {m} /\ g.mods[y] = "absent" THEN "stub"
                                       ELSE g.mods[y]]
    BY <1>2, StubsIs
  <2>2. StubbedMods(g, o)
    BY <2>1 DEF StubbedMods, IsMods
  <2>3. QED
    BY <2>1, <2>2
<1>3. QED
  BY <1>1, <1>2

ViewsStep(m) ==
  /\ StubbedMods(graph, graph') /\ graph'.depends = graph.depends
  /\ ViewsAdded(graph, graph', m, ToSet(Parse(m).views))

LEMMA WriteViewResultsIs ==
  ASSUME RunsAreOK, IsGraph(graph), IsMods(graph.mods),
         NEW r \in Repos, WriteViewResults(r), NEW m, m = Head(run[r].todo)
  PROVE  /\ m \in Modules /\ RepoOf[m] = r /\ disk[m] \in Contents[m]
         /\ Wrote("views", m) /\ ViewsStep(m)
<1>1. m \in Modules /\ RepoOf[m] = r /\ disk[m] \in Contents[m]
  BY HeadIs DEF WriteViewResults
<1>2. graph' = WriteViewParseResult(graph, m, Parse(m)) /\ Wrote("views", m)
  BY DEF WriteViewResults
<1>3. PICK c : c = Parse(m)
  OBVIOUS
<1>4. PICK n \in Nat : DOMAIN c.views = 1 .. n /\ FirstOf(c.views, n) = ToSet(c.views)
  BY <1>1, <1>3, ParsedLists
<1>5. PICK o : o = ViewBase(graph, m, c)
  OBVIOUS
<1>6. Ends(graph', "views", m, c.views, o, n)
  BY <1>2, <1>3, <1>4, <1>5, ViewsFold
<1>7. /\ IsGraph(o) /\ o.definedIn = graph.definedIn /\ o.depends = graph.depends
      /\ SameModels(graph, o) /\ SameViews(graph, o) /\ SameJs(graph, o) /\ SameSheets(graph, o)
      /\ StubbedMods(graph, o)
  <2>1. o = graph \/ o = WithStubs(graph, {m})
    BY <1>5 DEF ViewBase
  <2>2. QED
    BY <2>1, MaybeStubs
<1>8. ViewsWritten(o, graph', m, ToSet(c.views))
  BY <1>1, <1>4, <1>6, <1>7, ViewsAreWritten
<1>9. ViewsAdded(graph, graph', m, ToSet(c.views))
  BY <1>7, <1>8, ViewsRebase DEF ViewsWritten
<1>10. StubbedMods(graph, graph') /\ graph'.depends = graph.depends
  BY <1>7, <1>8 DEF ViewsWritten, SameMods, StubbedMods
<1>11. QED
  BY <1>1, <1>2, <1>3, <1>9, <1>10 DEF ViewsStep

JsStep(m) ==
  /\ StubbedMods(graph, graph') /\ graph'.depends = graph.depends
  /\ \E w : /\ CompsAdded(graph, w, m, ToSet(Parse(m).comps))
            /\ PatchesAdded(w, graph', m, ToSet(Parse(m).patches))

LEMMA WriteJsResultsIs ==
  ASSUME RunsAreOK, IsGraph(graph), IsMods(graph.mods),
         NEW r \in Repos, WriteJsGraphResults(r), NEW m, m = Head(run[r].todo)
  PROVE  /\ m \in Modules /\ RepoOf[m] = r /\ disk[m] \in Contents[m]
         /\ Wrote("js", m) /\ JsStep(m)
<1>1. m \in Modules /\ RepoOf[m] = r /\ disk[m] \in Contents[m]
  BY HeadIs DEF WriteJsGraphResults
<1>2. graph' = WriteJsGraphResult(graph, m, Parse(m)) /\ Wrote("js", m)
  BY DEF WriteJsGraphResults
<1>3. PICK c : c = Parse(m)
  OBVIOUS
<1>4. /\ \E n \in Nat : DOMAIN c.comps = 1 .. n /\ FirstOf(c.comps, n) = ToSet(c.comps)
      /\ \E n \in Nat : DOMAIN c.patches = 1 .. n /\ FirstOf(c.patches, n) = ToSet(c.patches)
  BY <1>1, <1>3, ParsedLists
<1>5. PICK k \in Nat : DOMAIN c.comps = 1 .. k /\ FirstOf(c.comps, k) = ToSet(c.comps)
  BY <1>4
<1>6. PICK n \in Nat : DOMAIN c.patches = 1 .. n /\ FirstOf(c.patches, n) = ToSet(c.patches)
  BY <1>4
<1>7. PICK o, w : o = JsBase(graph, m, c) /\ w = WithComps(graph, m, c)
  OBVIOUS
<1>8. /\ IsGraph(o) /\ o.definedIn = graph.definedIn /\ o.depends = graph.depends
      /\ SameModels(graph, o) /\ SameViews(graph, o) /\ SameJs(graph, o) /\ SameSheets(graph, o)
      /\ StubbedMods(graph, o)
  <2>1. o = graph \/ o = WithStubs(graph, {m})
    BY <1>7 DEF JsBase
  <2>2. QED
    BY <2>1, MaybeStubs
<1>9. Ends(w, "comps", m, c.comps, o, k)
  BY <1>5, <1>7, CompsFold
<1>10. CompsWritten(o, w, m, ToSet(c.comps))
  BY <1>1, <1>5, <1>8, <1>9, CompsAreWritten
<1>11. CompsAdded(graph, w, m, ToSet(c.comps))
  BY <1>8, <1>10, CompsRebase DEF CompsWritten
<1>12. Ends(graph', "patches", m, c.patches, w, n)
  BY <1>2, <1>3, <1>6, <1>7, PatchesFold
<1>13. IsGraph(w)
  BY <1>10 DEF CompsWritten, CompsAdded
<1>14. PatchesWritten(w, graph', m, ToSet(c.patches))
  BY <1>1, <1>6, <1>12, <1>13, PatchesAreWritten
<1>15. StubbedMods(graph, graph') /\ graph'.depends = graph.depends
  <2>1. w.mods = o.mods /\ w.depends = o.depends
    BY <1>10 DEF CompsWritten, SameMods
  <2>2. graph'.mods = w.mods /\ graph'.depends = w.depends
    BY <1>14 DEF PatchesWritten, SameMods
  <2>3. QED
    BY <1>8, <2>1, <2>2 DEF StubbedMods
<1>16. QED
  BY <1>1, <1>2, <1>3, <1>11, <1>14, <1>15 DEF JsStep, PatchesWritten

-----------------------------------------------------------------------------
(* The first graph, and the end of a run                                   *)

\* The stylesheets of the modules of a run are written.
BatchWritten(g, h) ==
  /\ IsGraph(h) /\ SameModels(g, h) /\ SameViews(g, h) /\ SameJs(g, h)
  /\ h.depends = g.depends /\ StubbedMods(g, h)
  /\ g.sheets \subseteq h.sheets /\ g.imports \subseteq h.imports
  /\ g.definedIn \subseteq h.definedIn
  /\ \A e \in h.definedIn \ g.definedIn : e[1] = "Stylesheet"

LEMMA OneMoreModule ==
  ASSUME NEW g, IsMods(g.mods), NEW h, BatchWritten(g, h), NEW m \in Modules,
         disk[m] \in Contents[m], NEW k, k = WriteStylesheets(h, m, Parse(m))
  PROVE  BatchWritten(g, k)
<1>1. PICK c : c = Parse(m)
  OBVIOUS
<1>2. PICK n \in Nat : DOMAIN c.sheets = 1 .. n /\ FirstOf(c.sheets, n) = ToSet(c.sheets)
  BY <1>1, ParsedLists
<1>3. Ends(k, "sheets", m, c.sheets, h, n)
  BY <1>1, <1>2, SheetsFold
<1>4. PICK D : SheetsWritten(h, k, m, D)
  BY <1>3, SheetsAreWritten DEF BatchWritten
<1>5. IsGraph(k) /\ SameModels(g, k) /\ SameViews(g, k) /\ SameJs(g, k)
  <2>1. IsGraph(k) /\ SameModels(h, k) /\ SameViews(h, k) /\ SameJs(h, k)
    BY <1>4 DEF SheetsWritten
  <2>2. SameModels(g, h) /\ SameViews(g, h) /\ SameJs(g, h)
    BY DEF BatchWritten
  <2>3. QED
    BY <2>1, <2>2 DEF SameModels, SameViews, SameJs
<1>6. k.depends = g.depends
  BY <1>4 DEF SheetsWritten, BatchWritten
<1>7. StubbedMods(g, k)
  <2>1. StubbedMods(g, h)
    BY DEF BatchWritten
  <2>2. StubbedMods(h, k)
    BY <1>4, <2>1 DEF SheetsWritten, StubbedMods
  <2>3. QED
    BY <2>1, <2>2 DEF StubbedMods
<1>8. g.sheets \subseteq k.sheets /\ g.imports \subseteq k.imports /\ g.definedIn \subseteq k.definedIn
  BY <1>4 DEF SheetsWritten, BatchWritten
<1>9. \A e \in k.definedIn \ g.definedIn : e[1] = "Stylesheet"
  BY <1>4 DEF SheetsWritten, BatchWritten
<1>10. QED
  BY <1>5, <1>6, <1>7, <1>8, <1>9 DEF BatchWritten

LEMMA WriteAllStylesheetsIs ==
  ASSUME RunsAreOK, IsGraph(graph), IsMods(graph.mods),
         NEW r \in Repos, WriteAllStylesheets(r)
  PROVE  BatchWritten(graph, graph')
<1>1. PICK q : q = run[r].mods
  OBVIOUS
<1>2. q \in Seq(Modules) /\ \A m \in ToSet(q) : disk[m] \in Contents[m]
  <2>1. run[r] \in RunRecord /\ run[r].pc = "sheets"
    BY DEF RunsAreOK, WriteAllStylesheets
  <2>2. q \in Seq(Modules)
    BY <1>1, <2>1 DEF RunRecord
  <2>3. ASSUME NEW m \in ToSet(q) PROVE disk[m] \in Contents[m]
    <3>1. m \in Modules
      BY <2>2, LenProperties, ElementOfSeq DEF ToSet
    <3>2. disk[m] # None
      BY <1>1, <2>1 DEF RunsAreOK
    <3>3. QED
      BY <3>1, <3>2 DEF RunsAreOK
  <2>4. QED
    BY <2>2, <2>3
<1>3. Len(q) \in Nat /\ DOMAIN q = 1 .. Len(q)
  BY <1>2, LenProperties
<1>4. \A i \in 1 .. Len(q) : q[i] \in Modules /\ disk[q[i]] \in Contents[q[i]]
  BY <1>2, <1>3, ElementOfSeq DEF ToSet
<1>5. graph' = FoldLeft(LAMBDA g, m : WriteStylesheets(g, m, Parse(m)), graph, q)
  BY <1>1 DEF WriteAllStylesheets
<1>6. PICK a, b, n : a = graph /\ b = graph' /\ n = Len(q) /\ n \in Nat
  BY <1>3
<1>7. PICK m : Ends(b, "batch", m, q, a, n)
  BY <1>3, <1>5, <1>6, BatchFold
<1>8. PICK t : Trace(t, "batch", m, q, a, n) /\ t[n] = b
  BY <1>7 DEF Ends
<1> DEFINE T == {i \in Nat : i <= n => BatchWritten(a, t[i])}
<1>9. 0 \in T
  <2>1. t[0] = a
    BY <1>8 DEF Trace
  <2>2. BatchWritten(a, a)
    BY <1>6 DEF BatchWritten, StubbedMods, SameModels, SameViews, SameJs
  <2>3. QED
    BY <2>1, <2>2
<1>10. ASSUME NEW i \in Nat, i \in T PROVE i + 1 \in T
  <2>1. SUFFICES ASSUME i + 1 <= n PROVE BatchWritten(a, t[i + 1])
    OBVIOUS
  <2>2. t[i + 1] = WriteStylesheets(t[i], q[i + 1], Parse(q[i + 1]))
    BY <1>8, <2>1 DEF Trace, Put
  <2>3. BatchWritten(a, t[i])
    BY <1>6, <1>10, <2>1
  <2>4. q[i + 1] \in Modules /\ disk[q[i + 1]] \in Contents[q[i + 1]]
    BY <1>4, <1>6, <2>1
  <2>5. QED
    BY <1>6, <2>2, <2>3, <2>4, OneMoreModule
<1>11. Nat \subseteq T
  <2> HIDE DEF T
  <2>1. QED
    BY <1>9, <1>10, Induction
<1>12. QED
  BY <1>6, <1>8, <1>11

\* The first n of the stylesheets l of m are in g, with edges to those they import
\* that come before them.
FilesFound(g, m, l, n) ==
  /\ \A i \in 1 .. n : SheetId(m, l[i]) \in g.sheets
  /\ \A i, j \in 1 .. n : (j <= i /\ l[j].path \in l[i].imports) =>
       <<SheetId(m, l[i]), SheetId(m, l[j])>> \in g.imports
FilesIn(g, m) == \A n \in Nat : DOMAIN Parse(m).sheets = 1 .. n => FilesFound(g, m, Parse(m).sheets, n)

LEMMA FilesStay ==
  ASSUME NEW g, NEW h, g.sheets \subseteq h.sheets, g.imports \subseteq h.imports, NEW m, FilesIn(g, m)
  PROVE  FilesIn(h, m)
BY DEF FilesIn, FilesFound

LEMMA OneMoreFile ==
  ASSUME NEW g, IsGraph(g), NEW m \in Modules, NEW l, NEW n \in Nat, FilesFound(g, m, l, n),
         NEW h, h = WriteSheet(g, m, l[n + 1])
  PROVE  IsGraph(h) /\ FilesFound(h, m, l, n + 1)
<1>1. PICK s : s = l[n + 1]
  OBVIOUS
<1>2. SheetWritten(g, h, m, s)
  BY <1>1, WriteSheetIs
<1>3. /\ IsGraph(h) /\ h.sheets = g.sheets \cup {SheetId(m, s)}
      /\ h.imports = g.imports \cup {SheetId(m, s)} \X
                       {x \in g.sheets \cup {SheetId(m, s)} : x.path \in s.imports}
  BY <1>2 DEF SheetWritten
<1>4. \A i \in 1 .. (n + 1) : i = n + 1 \/ i \in 1 .. n
  OBVIOUS
<1>5. \A i \in 1 .. (n + 1) : SheetId(m, l[i]) \in h.sheets
  BY <1>1, <1>3, <1>4 DEF FilesFound
<1>6. ASSUME NEW i \in 1 .. (n + 1), NEW j \in 1 .. (n + 1), j <= i, l[j].path \in l[i].imports
      PROVE  <<SheetId(m, l[i]), SheetId(m, l[j])>> \in h.imports
  <2>1. CASE i = n + 1
    <3>1. SheetId(m, l[j]) \in g.sheets \cup {SheetId(m, s)} /\ SheetId(m, l[j]).path = l[j].path
      BY <1>3, <1>5 DEF SheetId
    <3>2. QED
      BY <1>1, <1>3, <1>6, <2>1, <3>1
  <2>2. CASE i \in 1 .. n
    <3>1. j \in 1 .. n
      BY <1>6, <2>2
    <3>2. QED
      BY <1>3, <1>6, <2>2, <3>1 DEF FilesFound
  <2>3. QED
    BY <1>4, <2>1, <2>2
<1>7. QED
  BY <1>3, <1>5, <1>6 DEF FilesFound

LEMMA FilesAreWritten ==
  ASSUME NEW g, IsGraph(g), NEW m \in Modules, disk[m] \in Contents[m],
         NEW w, w = WriteStylesheets(g, m, Parse(m))
  PROVE  IsGraph(w) /\ FilesIn(w, m) /\ g.sheets \subseteq w.sheets /\ g.imports \subseteq w.imports
<1>1. PICK c : c = Parse(m)
  OBVIOUS
<1>2. PICK n \in Nat : DOMAIN c.sheets = 1 .. n /\ FirstOf(c.sheets, n) = ToSet(c.sheets)
  BY <1>1, ParsedLists
<1>3. PICK l : l = c.sheets
  OBVIOUS
<1>4. Ends(w, "sheets", m, l, g, n)
  BY <1>1, <1>2, <1>3, SheetsFold
<1>5. SheetsWritten(g, w, m, FirstOf(l, n))
  BY <1>4, SheetsAreWritten
<1>6. PICK t : Trace(t, "sheets", m, l, g, n) /\ t[n] = w
  BY <1>4 DEF Ends
<1> DEFINE T == {i \in Nat : i <= n => IsGraph(t[i]) /\ FilesFound(t[i], m, l, i)}
<1>7. 0 \in T
  BY <1>6 DEF Trace, FilesFound
<1>8. ASSUME NEW i \in Nat, i \in T PROVE i + 1 \in T
  <2>1. SUFFICES ASSUME i + 1 <= n PROVE IsGraph(t[i + 1]) /\ FilesFound(t[i + 1], m, l, i + 1)
    OBVIOUS
  <2>2. t[i + 1] = WriteSheet(t[i], m, l[i + 1])
    BY <1>6, <2>1 DEF Trace, Put
  <2>3. IsGraph(t[i]) /\ FilesFound(t[i], m, l, i)
    BY <1>8, <2>1
  <2>4. QED
    BY <2>2, <2>3, OneMoreFile
<1>9. Nat \subseteq T
  <2> HIDE DEF T
  <2>1. QED
    BY <1>7, <1>8, Induction
<1>10. FilesFound(w, m, l, n)
  BY <1>6, <1>9
<1>11. FilesIn(w, m)
  <2>1. SUFFICES ASSUME NEW k \in Nat, 1 .. n = 1 .. k PROVE FilesFound(w, m, l, k)
    BY <1>1, <1>2, <1>3 DEF FilesIn
  <2>2. k = n
    BY <2>1
  <2>3. QED
    BY <1>10, <2>2
<1>12. QED
  BY <1>5, <1>11 DEF SheetsWritten

\* Of every module of the batch.
FilesOfFirst(g, q, n) == \A j \in 1 .. n : FilesIn(g, q[j])

LEMMA BatchFilesAreWritten ==
  ASSUME RunsAreOK, IsGraph(graph), NEW r \in Repos, WriteAllStylesheets(r),
         NEW m \in ToSet(run[r].mods)
  PROVE  FilesIn(graph', m)
<1>1. PICK q : q = run[r].mods /\ q \in Seq(Modules) /\ \A x \in ToSet(q) : disk[x] # None
  <2>1. run[r] \in RunRecord /\ run[r].pc = "sheets"
    BY DEF RunsAreOK, WriteAllStylesheets
  <2>2. run[r].mods \in Seq(Modules) /\ \A x \in ToSet(run[r].mods) : disk[x] # None
    BY <2>1 DEF RunsAreOK, RunRecord
  <2>3. QED
    BY <2>2
<1>2. PICK n : n = Len(q) /\ n \in Nat /\ DOMAIN q = 1 .. n
  BY <1>1, LenProperties
<1>3. \A i \in 1 .. n : q[i] \in Modules /\ disk[q[i]] \in Contents[q[i]]
  <2>1. \A i \in 1 .. n : q[i] \in Modules /\ q[i] \in ToSet(q)
    BY <1>1, <1>2, ElementOfSeq DEF ToSet
  <2>2. QED
    BY <1>1, <2>1 DEF RunsAreOK
<1>4. graph' = FoldLeft(LAMBDA g, x : WriteStylesheets(g, x, Parse(x)), graph, q)
  BY <1>1 DEF WriteAllStylesheets
<1>5. PICK a, b : a = graph /\ b = graph'
  OBVIOUS
<1>6. PICK y : Ends(b, "batch", y, q, a, n)
  BY <1>2, <1>4, <1>5, BatchFold
<1>7. PICK t : Trace(t, "batch", y, q, a, n) /\ t[n] = b
  BY <1>6 DEF Ends
<1> DEFINE T == {i \in Nat : i <= n => IsGraph(t[i]) /\ FilesOfFirst(t[i], q, i)}
<1>8. 0 \in T
  BY <1>5, <1>7 DEF Trace, FilesOfFirst
<1>9. ASSUME NEW i \in Nat, i \in T PROVE i + 1 \in T
  <2>1. SUFFICES ASSUME i + 1 <= n
                 PROVE  IsGraph(t[i + 1]) /\ FilesOfFirst(t[i + 1], q, i + 1)
    OBVIOUS
  <2>2. t[i + 1] = WriteStylesheets(t[i], q[i + 1], Parse(q[i + 1]))
    BY <1>7, <2>1 DEF Trace, Put
  <2>3. IsGraph(t[i]) /\ FilesOfFirst(t[i], q, i)
    BY <1>2, <1>9, <2>1
  <2>4. q[i + 1] \in Modules /\ disk[q[i + 1]] \in Contents[q[i + 1]]
    BY <1>3, <2>1
  <2>5. /\ IsGraph(t[i + 1]) /\ FilesIn(t[i + 1], q[i + 1])
        /\ t[i].sheets \subseteq t[i + 1].sheets /\ t[i].imports \subseteq t[i + 1].imports
    BY <2>2, <2>3, <2>4, FilesAreWritten
  <2>6. \A j \in 1 .. i : FilesIn(t[i + 1], q[j])
    BY <2>3, <2>5, FilesStay DEF FilesOfFirst
  <2>7. \A j \in 1 .. (i + 1) : j = i + 1 \/ j \in 1 .. i
    OBVIOUS
  <2>8. QED
    BY <2>5, <2>6, <2>7 DEF FilesOfFirst
<1>10. Nat \subseteq T
  <2> HIDE DEF T
  <2>1. QED
    BY <1>8, <1>9, Induction
<1>11. FilesOfFirst(b, q, n)
  BY <1>2, <1>7, <1>10
<1>12. PICK j \in 1 .. n : m = q[j]
  BY <1>1, <1>2 DEF ToSet
<1>13. QED
  BY <1>5, <1>11, <1>12 DEF FilesOfFirst

-----------------------------------------------------------------------------
(* The runs                                                                   *)

LEMMA GraphInitIs ==
  ASSUME Init
  PROVE  RunsAreOK /\ IsGraph(graph) /\ graph.mods = [m \in Modules |-> "absent"]
<1>1. graph.mods = [m \in Modules |-> "absent"] /\ IsGraph(graph)
  BY DEF Init, GraphInit, IsGraph, GraphKeys
<1>2. RunsAreOK
  <2>1. disk = Checkout /\ dirty = Modules /\ edits = 0 /\ ops = 0
    BY DEF Init, GraphInit
  <2>2. run = [r \in Repos |-> IdleWorker]
    BY DEF Init, GraphInit
  <2>3. 0 \in 0 .. MaxEdits /\ 0 \in 0 .. MaxOps
    BY GraphAssumption, LayerAssumption
  <2>4. DOMAIN disk = Modules /\ \A m \in Modules : disk[m] \in Contents[m] \cup {None}
    BY <2>1, GraphAssumption
  <2>5. QED
    BY <2>1, <2>2, <2>3, <2>4, IdleWorkerIs DEF RunsAreOK
<1>3. QED
  BY <1>1, <1>2

\* The run of r goes on, or ends; no checkout changes.
RunGoesOn(r, rec) ==
  /\ run' = [run EXCEPT ![r] = rec] /\ rec \in RunRecord
  /\ rec.pc # "idle" => /\ rec.mods = run[r].mods /\ run[r].pc # "idle"
                        /\ rec.pc \in {"models", "views", "js"} =>
                             rec.todo # <<>> /\ ToSet(rec.todo) \subseteq ToSet(rec.mods)

LEMMA RunGoesOnOK ==
  ASSUME RunsAreOK, NEW r \in Repos, NEW rec, RunGoesOn(r, rec), UNCHANGED <<disk, edits>>,
         dirty' \subseteq Modules, ops' \in 0 .. MaxOps
  PROVE  RunsAreOK'
<1>1. run' \in [Repos -> RunRecord] /\ \A x \in Repos : run'[x] = IF x = r THEN rec ELSE run[x]
  BY DEF RunGoesOn, RunsAreOK
<1>2. ASSUME NEW x \in Repos
      PROVE  /\ run'[x].pc # "idle" => /\ run'[x].mods # <<>>
                                       /\ \A m \in ToSet(run'[x].mods) : RepoOf[m] = x /\ disk[m] # None
             /\ run'[x].pc \in {"models", "views", "js"} =>
                  run'[x].todo # <<>> /\ ToSet(run'[x].todo) \subseteq ToSet(run'[x].mods)
  <2>1. CASE x = r
    BY <1>1, <2>1 DEF RunGoesOn, RunsAreOK
  <2>2. CASE x # r
    BY <1>1, <2>2 DEF RunsAreOK
  <2>3. QED
    BY <2>1, <2>2
<1>3. QED
  BY <1>1, <1>2 DEF RunsAreOK

LEMMA AdvanceIs ==
  ASSUME RunsAreOK, NEW r \in Repos, NEW l, l \in {"models", "views", "js"}, run[r].pc = l, Advance(r, l)
  PROVE  \E rec : RunGoesOn(r, rec)
<1>1. PICK c : c = run[r] /\ c \in RunRecord
  BY DEF RunsAreOK
<1>2. /\ c.mods \in Seq(Modules) /\ c.mods # <<>> /\ c.todo \in Seq(Modules) /\ c.todo # <<>>
      /\ ToSet(c.todo) \subseteq ToSet(c.mods)
  BY <1>1 DEF RunsAreOK, RunRecord
<1>3. /\ Tail(c.todo) \in Seq(Modules)
      /\ ToSet(Tail(c.todo)) \subseteq ToSet(c.todo)
  <2>1. Tail(c.todo) \in Seq(Modules) /\ Len(Tail(c.todo)) = Len(c.todo) - 1
        /\ \A i \in 1 .. Len(Tail(c.todo)) : Tail(c.todo)[i] = c.todo[i + 1]
    BY <1>2, HeadTailProperties
  <2>2. /\ DOMAIN Tail(c.todo) = 1 .. Len(Tail(c.todo)) /\ DOMAIN c.todo = 1 .. Len(c.todo)
        /\ Len(c.todo) \in Nat /\ Len(Tail(c.todo)) \in Nat
    BY <1>2, <2>1, LenProperties
  <2>3. \A i \in DOMAIN Tail(c.todo) : i + 1 \in DOMAIN c.todo
    BY <2>1, <2>2
  <2>4. QED
    BY <2>1, <2>2, <2>3 DEF ToSet
<1>4. NextLayer(l) \in RunPhases \ {"idle"}
  BY DEF NextLayer, RunPhases, Layers
<1>5. CASE Tail(c.todo) = <<>>
  <2>1. PICK rec : rec = [c EXCEPT !.pc = NextLayer(l), !.todo = c.mods]
    OBVIOUS
  <2>2. run' = [run EXCEPT ![r] = rec]
    BY <1>1, <1>5, <2>1 DEF Advance
  <2>3. rec \in RunRecord /\ rec.mods = c.mods /\ rec.todo = c.mods
    BY <1>1, <1>2, <1>4, <2>1 DEF RunRecord
  <2>4. QED
    BY <1>1, <1>2, <2>2, <2>3 DEF RunGoesOn
<1>6. CASE Tail(c.todo) # <<>>
  <2>1. PICK rec : rec = [c EXCEPT !.todo = Tail(c.todo)]
    OBVIOUS
  <2>2. run' = [run EXCEPT ![r] = rec]
    BY <1>1, <1>6, <2>1 DEF Advance
  <2>3. rec \in RunRecord /\ rec.mods = c.mods /\ rec.todo = Tail(c.todo) /\ rec.pc = l
    BY <1>1, <1>3, <2>1 DEF RunRecord
  <2>4. QED
    BY <1>1, <1>2, <1>3, <1>6, <2>2, <2>3 DEF RunGoesOn
<1>7. QED
  BY <1>5, <1>6

-----------------------------------------------------------------------------
(* The moves of the graph                                                  *)

\* The steps that write the graph, each with the history it leaves.
QuietStep ==
  UNCHANGED <<graph, last, pure, seen, overtaken>> /\ DOMAIN completed \subseteq DOMAIN completed'
LayerWritten(l, m) ==
  /\ m \in Modules /\ disk[m] \in Contents[m] /\ Wrote(l, m) /\ UNCHANGED <<symbols, completed>>
ModelsMove == \E m \in Modules : LayerWritten("models", m) /\ ModelsStep(m) /\ UNCHANGED overtaken
ViewsMove  == \E m \in Modules :
  /\ LayerWritten("views", m) /\ ViewsStep(m)
  /\ overtaken' = overtaken \cup
       ({<<v.kind, v.base>> : v \in Sources[m][disk[m]].views} \
          {<<v.kind, v.xmlid>> : v \in UNION {Sources[y][last["views"][y]].views :
                                   y \in {y \in Modules : last["views"][y] # None}}})
JsMove     == \E m \in Modules : LayerWritten("js", m) /\ JsStep(m) /\ UNCHANGED overtaken
SheetsMove ==
  /\ BatchWritten(graph, graph') /\ UNCHANGED <<symbols, completed, pure, seen, overtaken>>
  /\ \E S \in SUBSET Modules :
       /\ \A m \in S : disk[m] \in Contents[m] /\ FilesIn(graph', m)
       /\ last' = [last EXCEPT !["sheets"] = [m \in Modules |-> IF m \in S THEN disk[m] ELSE @[m]]]
EndMove ==
  \E gone \in SUBSET Modules :
    /\ Dropped(graph, graph', gone)
    /\ last' = [l \in Layers |-> [m \in Modules |-> IF m \in gone THEN None ELSE last[l][m]]]
    /\ pure' = [l \in Layers |-> pure[l] \ gone]
    /\ seen' = [l \in Layers |-> [m \in Modules |-> Forgotten(gone, l, m)]]
    /\ UNCHANGED <<symbols, completed, overtaken>>
Home(r) == {m \in Modules : RepoOf[m] = r}
DeleteMove ==
  \E r \in Repos :
    /\ Deleted(graph, graph', IndexedOf(graph, r))
    /\ last' = [l \in Layers |-> [m \in Modules |->
                  IF m \in Home(r) /\ l # "sheets" THEN None ELSE last[l][m]]]
    /\ pure' = [l \in Layers |-> IF l = "sheets" THEN pure[l]
                                 ELSE pure[l] \cup IndexedOf(graph, r)]
    /\ seen' = [l \in Layers |-> [m \in Modules |->
                  IF m \in Home(r) THEN {} ELSE Forgotten(Home(r), l, m)]]
    /\ UNCHANGED <<symbols, completed, overtaken>>
GraphMove ==
  \/ QuietStep \/ ModelsMove \/ ViewsMove \/ JsMove \/ SheetsMove \/ EndMove \/ DeleteMove

LEMMA StartRunKeeps ==
  ASSUME RunsAreOK, NEW r \in Repos, NEW full, NEW gc \in BOOLEAN, StartRun(r, full, gc)
  PROVE  RunsAreOK'
<1>1. PICK S : /\ S = IF full THEN ModulesOf(r) ELSE ModulesOf(r) \cap dirty
               /\ S # {} /\ run' = [run EXCEPT ![r] = [pc |-> "models", mods |-> TopologicalSort(S),
                                                       todo |-> TopologicalSort(S), gc |-> gc]]
  BY DEF StartRun
<1>2. \A m \in S : m \in Modules /\ RepoOf[m] = r /\ disk[m] # None
  BY <1>1 DEF ModulesOf
<1>3. S \in SUBSET Nat /\ IsFiniteSet(S)
  BY <1>2, GraphAssumption, FS_Subset
<1>4. PICK q : q = TopologicalSort(S) /\ q \in Seq(S) /\ q # <<>>
  BY <1>1, <1>3, TopologicalSortIs
<1>5. ToSet(q) \subseteq S /\ q \in Seq(Modules)
  <2>1. Seq(S) \subseteq Seq(Modules)
    BY <1>2, SeqMonotonic
  <2>2. QED
    BY <1>4, <2>1, LenProperties, ElementOfSeq DEF ToSet
<1>6. PICK rec : rec = [pc |-> "models", mods |-> q, todo |-> q, gc |-> gc]
  OBVIOUS
<1>7. rec \in RunRecord /\ rec.mods = q /\ rec.todo = q /\ rec.pc = "models"
  BY <1>5, <1>6 DEF RunRecord, RunPhases, Layers
<1>8. run' = [run EXCEPT ![r] = rec]
  BY <1>1, <1>4, <1>6
<1>9. run' \in [Repos -> RunRecord] /\ \A x \in Repos : run'[x] = IF x = r THEN rec ELSE run[x]
  BY <1>7, <1>8 DEF RunsAreOK
<1>10. UNCHANGED <<disk, dirty, edits>> /\ ops' \in 0 .. MaxOps
  BY LayerAssumption DEF StartRun, RunsAreOK
<1>11. ASSUME NEW x \in Repos
       PROVE  /\ run'[x].pc # "idle" => /\ run'[x].mods # <<>>
                                        /\ \A m \in ToSet(run'[x].mods) : RepoOf[m] = x /\ disk[m] # None
              /\ run'[x].pc \in {"models", "views", "js"} =>
                   run'[x].todo # <<>> /\ ToSet(run'[x].todo) \subseteq ToSet(run'[x].mods)
  <2>1. CASE x = r
    BY <1>2, <1>4, <1>5, <1>7, <1>9, <2>1
  <2>2. CASE x # r
    BY <1>9, <2>2 DEF RunsAreOK
  <2>3. QED
    BY <2>1, <2>2
<1>12. QED
  BY <1>9, <1>10, <1>11 DEF RunsAreOK

LEMMA PullKeeps ==
  ASSUME RunsAreOK, NEW m \in Modules, NEW c \in Contents[m] \cup {None}, Pull(m, c)
  PROVE  RunsAreOK'
<1>1. /\ run[RepoOf[m]].pc = "idle" /\ UNCHANGED run /\ disk' = [disk EXCEPT ![m] = c]
      /\ dirty' = dirty \cup {m} /\ ops' \in 0 .. MaxOps /\ edits' \in 0 .. MaxEdits
  BY LayerAssumption, GraphAssumption DEF Pull, RunsAreOK
<1>2. /\ DOMAIN disk' = Modules /\ \A x \in Modules : disk'[x] \in Contents[x] \cup {None}
      /\ \A x : x # m => disk'[x] = disk[x]
  BY <1>1 DEF RunsAreOK
<1>3. \A r \in Repos : run[r].pc # "idle" => \A x \in ToSet(run[r].mods) : disk'[x] # None
  BY <1>1, <1>2 DEF RunsAreOK
<1>4. QED
  BY <1>1, <1>2, <1>3 DEF RunsAreOK

LEMMA OpsStay ==
  ASSUME RunsAreOK, \E v \in CoreVersions : CoreStep(v)
  PROVE  ops' \in 0 .. MaxOps
<1>1. PICK v \in CoreVersions : CoreStep(v)
  OBVIOUS
<1>2. CASE StartIndexCore(v) \/ KillIndexCore(v)
  BY <1>2, LayerAssumption DEF RunsAreOK, StartIndexCore, KillIndexCore
<1>3. CASE UNCHANGED ops
  BY <1>3 DEF RunsAreOK
<1>4. QED
  BY <1>1, <1>2, <1>3 DEF CoreStep, WriteCoreSymbols, WriteLintRules, WriteCliCommands, WriteCliFlags,
      DiffWithPrevious, WriteDiffEdges, WriteLifecycleProperties

\* A run of index_core forgets no completed version.
LEMMA CompletedGrows ==
  ASSUME \E v \in CoreVersions : CoreStep(v)
  PROVE  DOMAIN completed \subseteq DOMAIN completed'
<1>1. PICK v \in CoreVersions : CoreStep(v)
  OBVIOUS
<1>2. CASE Finish(v)
  BY <1>2 DEF Finish
<1>3. CASE UNCHANGED completed
  BY <1>3
<1>4. QED
  BY <1>1, <1>2, <1>3 DEF CoreStep, StartIndexCore, KillIndexCore, WriteCoreSymbols, WriteLintRules,
      WriteCliCommands, WriteCliFlags, DiffWithPrevious, WriteDiffEdges, WriteLifecycleProperties

LEMMA RunsStep ==
  ASSUME RunsAreOK, [Next]_vars
  PROVE  RunsAreOK'
<1>1. CASE (\E v \in CoreVersions : CoreStep(v)) /\ UNCHANGED graphVars
  <2>1. ops' \in 0 .. MaxOps
    BY <1>1, OpsStay
  <2>2. QED
    BY <1>1, <2>1 DEF RunsAreOK, graphVars
<1>2. CASE UNCHANGED vars
  BY <1>2 DEF vars, RunsAreOK, graphVars
<1>3. ASSUME NEW r \in Repos, NEW mode \in Modes, StartRun(r, mode[1], mode[2]) PROVE RunsAreOK'
  <2>1. mode[2] \in BOOLEAN
    BY GraphAssumption
  <2>2. QED
    BY <1>3, <2>1, StartRunKeeps
<1>4. ASSUME NEW r \in Repos, WriteResults(r) \/ WriteViewResults(r) \/ WriteJsGraphResults(r)
      PROVE  RunsAreOK'
  <2>1. PICK l : l \in {"models", "views", "js"} /\ run[r].pc = l /\ Advance(r, l)
    BY <1>4 DEF WriteResults, WriteViewResults, WriteJsGraphResults
  <2>2. UNCHANGED <<disk, dirty, edits, ops>>
    BY <1>4 DEF WriteResults, WriteViewResults, WriteJsGraphResults
  <2>3. PICK rec : RunGoesOn(r, rec)
    BY <2>1, AdvanceIs
  <2>4. dirty' \subseteq Modules /\ ops' \in 0 .. MaxOps
    BY <2>2 DEF RunsAreOK
  <2>5. QED
    BY <2>2, <2>3, <2>4, RunGoesOnOK
<1>5. ASSUME NEW r \in Repos, WriteAllStylesheets(r) PROVE RunsAreOK'
  <2>1. PICK rec : rec = [run[r] EXCEPT !.pc = "gc"]
    OBVIOUS
  <2>2. RunGoesOn(r, rec)
    <3>1. run[r] \in RunRecord /\ run \in [Repos -> RunRecord]
      BY DEF RunsAreOK
    <3>2. rec \in RunRecord /\ rec.pc = "gc" /\ rec.mods = run[r].mods
      BY <2>1, <3>1 DEF RunRecord, RunPhases
    <3>3. run' = [run EXCEPT ![r] = rec] /\ run[r].pc = "sheets"
      BY <1>5, <2>1, <3>1 DEF WriteAllStylesheets
    <3>4. QED
      BY <3>2, <3>3 DEF RunGoesOn
  <2>3. UNCHANGED <<disk, edits>> /\ dirty' \subseteq Modules /\ ops' \in 0 .. MaxOps
    BY <1>5 DEF RunsAreOK, WriteAllStylesheets
  <2>4. QED
    BY <2>2, <2>3, RunGoesOnOK
<1>6. ASSUME NEW r \in Repos, EndRun(r) \/ KillRun(r) PROVE RunsAreOK'
  <2>1. RunGoesOn(r, IdleWorker)
    BY <1>6, IdleWorkerIs DEF RunGoesOn, EndRun, KillRun
  <2>2. UNCHANGED <<disk, edits>> /\ dirty' \subseteq Modules /\ ops' \in 0 .. MaxOps
    BY <1>6, LayerAssumption DEF RunsAreOK, EndRun, KillRun
  <2>3. QED
    BY <2>1, <2>2, RunGoesOnOK
<1>7. ASSUME NEW r \in Repos, DeleteRepository(r) PROVE RunsAreOK'
  <2>1. UNCHANGED <<disk, run, edits>> /\ dirty' \subseteq Modules /\ ops' \in 0 .. MaxOps
    BY <1>7, LayerAssumption DEF RunsAreOK, DeleteRepository
  <2>2. QED
    BY <2>1 DEF RunsAreOK
<1>8. ASSUME NEW m \in Modules, NEW c \in Contents[m] \cup {None}, Pull(m, c) PROVE RunsAreOK'
  BY <1>8, PullKeeps
<1>9. QED
  BY <1>1, <1>2, <1>3, <1>4, <1>5, <1>6, <1>7, <1>8 DEF Next, GraphStep

-----------------------------------------------------------------------------
(* Every step is one of them                                                  *)

ModsOK == graph.mods \in [Modules -> {"absent", "stub", "indexed"}]

LEMMA EndRunIs ==
  ASSUME IsGraph(graph), ModsOK, NEW r \in Repos, EndRun(r), UNCHANGED coreVars
  PROVE  EndMove
<1>1. PICK live : live = ModulesOf(r)
  OBVIOUS
<1>2. PICK stale : stale = {m \in Modules : graph.mods[m] = "indexed" /\ RepoOf[m] = r /\ m \notin live}
  OBVIOUS
<1>3. PICK gone : gone = IF run[r].gc /\ live # {} THEN stale ELSE {}
  OBVIOUS
<1>4. /\ graph' = IF run[r].gc /\ live # {} THEN GcStaleModules(graph, r, live) ELSE graph
      /\ last' = [l \in Layers |-> [m \in Modules |-> IF m \in gone THEN None ELSE last[l][m]]]
      /\ pure' = [l \in Layers |-> pure[l] \ gone]
      /\ seen' = [l \in Layers |-> [m \in Modules |-> Forgotten(gone, l, m)]]
      /\ UNCHANGED overtaken
  BY <1>1, <1>2, <1>3 DEF EndRun
<1>5. Dropped(graph, graph', gone)
  <2>1. CASE run[r].gc /\ live # {}
    <3>1. graph' = DropModules(graph, gone)
      BY <1>2, <1>3, <1>4, <2>1 DEF GcStaleModules
    <3>2. QED
      BY <3>1, DropIs
  <2>2. CASE ~(run[r].gc /\ live # {})
    <3>1. gone = {} /\ graph' = graph
      BY <1>3, <1>4, <2>2
    <3>2. graph.mods = [m \in Modules |-> IF m \in {} THEN "absent" ELSE graph.mods[m]]
      BY DEF ModsOK
    <3>3. graph.depends = {e \in graph.depends : e[1] \notin {} /\ e[2] \notin {}}
      OBVIOUS
    <3>4. graph.definedIn = {x \in graph.definedIn : ModuleOfNode(graph, x) \notin {}}
      OBVIOUS
    <3>5. QED
      BY <3>1, <3>2, <3>3, <3>4 DEF Dropped, SameModels, SameViews, SameJs, SameSheets
  <2>3. QED
    BY <2>1, <2>2
<1>6. gone \in SUBSET Modules
  BY <1>2, <1>3
<1>7. UNCHANGED <<symbols, completed>>
  BY DEF coreVars
<1>8. QED
  BY <1>4, <1>5, <1>6, <1>7 DEF EndMove

LEMMA DeleteRepositoryIs ==
  ASSUME IsGraph(graph), IsMods(graph.mods), NEW r \in Repos, DeleteRepository(r), UNCHANGED coreVars
  PROVE  DeleteMove
<1>1. Deleted(graph, graph', IndexedOf(graph, r))
  BY DeleteIs DEF DeleteRepository
<1>2. UNCHANGED <<symbols, completed, overtaken>>
  BY DEF coreVars, DeleteRepository
<1>3. {m \in Home(r) : graph.mods[m] = "indexed"} = IndexedOf(graph, r)
  BY DEF Home, IndexedOf
<1>4. /\ last' = [l \in Layers |-> [m \in Modules |->
                  IF m \in Home(r) /\ l # "sheets" THEN None ELSE last[l][m]]]
      /\ seen' = [l \in Layers |-> [m \in Modules |->
                  IF m \in Home(r) THEN {} ELSE Forgotten(Home(r), l, m)]]
      /\ pure' = [l \in Layers |-> IF l = "sheets" THEN pure[l]
                                   ELSE pure[l] \cup {m \in Home(r) : graph.mods[m] = "indexed"}]
  BY DEF DeleteRepository, Home
<1>5. QED
  BY <1>1, <1>2, <1>3, <1>4 DEF DeleteMove

LEMMA WriteAllIs ==
  ASSUME RunsAreOK, IsGraph(graph), IsMods(graph.mods),
         NEW r \in Repos, WriteAllStylesheets(r), UNCHANGED coreVars
  PROVE  SheetsMove
<1>1. BatchWritten(graph, graph')
  BY WriteAllStylesheetsIs
<1>2. PICK S : S = ToSet(run[r].mods)
  OBVIOUS
<1>3. /\ last' = [last EXCEPT !["sheets"] = [m \in Modules |-> IF m \in S THEN disk[m] ELSE @[m]]]
      /\ UNCHANGED <<pure, seen, overtaken>> /\ run[r].pc = "sheets"
  BY <1>2 DEF WriteAllStylesheets
<1>4. run[r].mods \in Seq(Modules)
  BY DEF RunsAreOK, RunRecord
<1>5. S \in SUBSET Modules
  BY <1>2, <1>4, LenProperties, ElementOfSeq DEF ToSet
<1>6. \A m \in S : disk[m] \in Contents[m] /\ FilesIn(graph', m)
  BY <1>2, <1>3, <1>5, BatchFilesAreWritten DEF RunsAreOK
<1>7. UNCHANGED <<symbols, completed>>
  BY DEF coreVars
<1>8. QED
  BY <1>1, <1>3, <1>5, <1>6, <1>7 DEF SheetsMove

LEMMA MovesAre ==
  ASSUME RunsAreOK, IsGraph(graph), ModsOK, [Next]_vars
  PROVE  GraphMove
<1> IsMods(graph.mods)
  BY DEF ModsOK, IsMods
<1>1. CASE (\E v \in CoreVersions : CoreStep(v)) /\ UNCHANGED graphVars
  BY <1>1, CompletedGrows DEF GraphMove, QuietStep, graphVars
<1>2. CASE UNCHANGED vars
  BY <1>2 DEF vars, graphVars, coreVars, GraphMove, QuietStep
<1>3. CASE GraphStep /\ UNCHANGED coreVars
  <2>1. UNCHANGED <<symbols, completed>>
    BY <1>3 DEF coreVars
  <2>2. ASSUME NEW r \in Repos, WriteResults(r) PROVE ModelsMove
    <3>1. PICK m : m = Head(run[r].todo)
      OBVIOUS
    <3>2. m \in Modules /\ disk[m] \in Contents[m] /\ Wrote("models", m) /\ ModelsStep(m)
      BY <2>2, <3>1, WriteResultsIs
    <3>3. UNCHANGED overtaken
      BY <2>2 DEF WriteResults
    <3>4. QED
      BY <2>1, <3>2, <3>3 DEF ModelsMove, LayerWritten
  <2>3. ASSUME NEW r \in Repos, WriteViewResults(r) PROVE ViewsMove
    <3>1. PICK m : m = Head(run[r].todo)
      OBVIOUS
    <3>2. m \in Modules /\ disk[m] \in Contents[m] /\ Wrote("views", m) /\ ViewsStep(m)
      BY <2>3, <3>1, WriteViewResultsIs
    <3>3. overtaken' = overtaken \cup
       ({<<v.kind, v.base>> : v \in Sources[m][disk[m]].views} \
          {<<v.kind, v.xmlid>> : v \in UNION {Sources[y][last["views"][y]].views :
                                   y \in {y \in Modules : last["views"][y] # None}}})
      BY <2>3, <3>1 DEF WriteViewResults
    <3>4. QED
      BY <2>1, <3>2, <3>3 DEF ViewsMove, LayerWritten
  <2>4. ASSUME NEW r \in Repos, WriteJsGraphResults(r) PROVE JsMove
    <3>1. PICK m : m = Head(run[r].todo)
      OBVIOUS
    <3>2. m \in Modules /\ disk[m] \in Contents[m] /\ Wrote("js", m) /\ JsStep(m)
      BY <2>4, <3>1, WriteJsResultsIs
    <3>3. UNCHANGED overtaken
      BY <2>4 DEF WriteJsGraphResults
    <3>4. QED
      BY <2>1, <3>2, <3>3 DEF JsMove, LayerWritten
  <2>5. ASSUME NEW r \in Repos, EndRun(r) PROVE EndMove
    BY <1>3, <2>5, EndRunIs
  <2>6. ASSUME NEW r \in Repos, DeleteRepository(r) PROVE DeleteMove
    BY <1>3, <2>6, DeleteRepositoryIs
  <2>7. ASSUME NEW r \in Repos, WriteAllStylesheets(r) PROVE SheetsMove
    BY <1>3, <2>7, WriteAllIs
  <2>8. ASSUME NEW r \in Repos, NEW mode \in Modes,
               StartRun(r, mode[1], mode[2]) \/ KillRun(r) PROVE QuietStep
    BY <2>1, <2>8 DEF StartRun, KillRun, QuietStep
  <2>9. ASSUME NEW m \in Modules, NEW c, Pull(m, c) PROVE QuietStep
    BY <2>1, <2>9 DEF Pull, QuietStep
  <2>10. ASSUME NEW r \in Repos, KillRun(r) PROVE QuietStep
    BY <2>1, <2>10 DEF KillRun, QuietStep
  <2>11. QED
    BY <1>3, <2>2, <2>3, <2>4, <2>5, <2>6, <2>7, <2>8, <2>9, <2>10 DEF GraphStep, GraphMove
<1>4. QED
  BY <1>1, <1>2, <1>3 DEF Next

-----------------------------------------------------------------------------
(* The types                                                               *)

\* The structure of the graph: where its nodes are of, and what its edges join.
GraphOK ==
  /\ IsGraph(graph) /\ ModsOK
  /\ \A x \in DOMAIN graph.models : /\ x.module \in Modules \cup {Unresolved}
                                    /\ graph.models[x].unresolved <=> IsHeld(x)
  /\ \A e \in graph.inherits : e[1] \in DOMAIN graph.models /\ e[2] \in DOMAIN graph.models
  /\ graph.extends \subseteq (DOMAIN graph.views) \X (DOMAIN graph.views)
  /\ graph.patchEdges \subseteq graph.patches \X (DOMAIN graph.comps)
  /\ \A x \in DOMAIN graph.fields :
       x.module \in Modules /\ [name |-> x.model, module |-> x.module] \in DOMAIN graph.models

LEMMA GraphOKInit ==
  ASSUME Init
  PROVE  RunsAreOK /\ GraphOK
<1>1. RunsAreOK /\ IsGraph(graph) /\ graph.mods = [m \in Modules |-> "absent"]
  BY GraphInitIs
<1>2. /\ graph.models = Empty /\ graph.inherits = {} /\ graph.extends = {} /\ graph.patchEdges = {}
      /\ graph.fields = Empty
  BY DEF Init, GraphInit
<1>3. QED
  BY <1>1, <1>2 DEF GraphOK, ModsOK, Empty

LEMMA StubbedKeeps ==
  ASSUME ModsOK, StubbedMods(graph, graph')
  PROVE  ModsOK'
BY DEF ModsOK, StubbedMods, IsMods

LEMMA ModelsMoveKeeps ==
  ASSUME GraphOK, ModelsMove
  PROVE  GraphOK'
<1>1. PICK m \in Modules : disk[m] \in Contents[m] /\ ModelsStep(m)
  BY DEF ModelsMove, LayerWritten
<1>2. PICK c, D : c = Parse(m) /\ D = ToSet(c.models)
  OBVIOUS
<1>3. /\ graph'.mods = [y \in Modules |-> IF y = m THEN "indexed"
                                      ELSE IF y \in c.depends /\ graph.mods[y] = "absent" THEN "stub"
                                      ELSE graph.mods[y]]
      /\ ModelsAdded(graph, graph', m, D)
  BY <1>1, <1>2 DEF ModelsStep
<1>4. ModsOK' /\ IsGraph(graph')
  BY <1>3 DEF GraphOK, ModsOK, ModelsAdded
<1>5. \A x \in ModelIds(m, D) : x.module = m
  BY DEF ModelIds, ModelId
<1>6. Unresolved \notin Modules
  BY GraphAssumption
<1>7. ASSUME NEW x \in DOMAIN graph'.models
      PROVE  x.module \in Modules \cup {Unresolved} /\ (graph'.models[x].unresolved <=> IsHeld(x))
  <2>1. CASE x \in ModelIds(m, D)
    BY <1>3, <1>5, <1>6, <2>1 DEF ModelsAdded, IsHeld
  <2>2. CASE x \notin ModelIds(m, D) /\ x \in DOMAIN graph.models
    <3>1. graph'.models[x] = graph.models[x]
      BY <1>3, <2>2 DEF ModelsAdded
    <3>2. QED
      BY <2>2, <3>1 DEF GraphOK
  <2>3. CASE x \notin ModelIds(m, D) /\ x \notin DOMAIN graph.models
    BY <1>3, <2>3 DEF ModelsAdded, IsHeld
  <2>4. QED
    BY <2>1, <2>2, <2>3
<1>8. DOMAIN graph.models \cup ModelIds(m, D) \subseteq DOMAIN graph'.models
  BY <1>3 DEF ModelsAdded
<1>9. \A e \in graph'.inherits : e[1] \in DOMAIN graph'.models /\ e[2] \in DOMAIN graph'.models
  BY <1>3, <1>8 DEF GraphOK, ModelsAdded
<1>10. graph'.extends \subseteq (DOMAIN graph'.views) \X (DOMAIN graph'.views)
  BY <1>3 DEF GraphOK, ModelsAdded, SameViews
<1>11. graph'.patchEdges \subseteq graph'.patches \X (DOMAIN graph'.comps)
  BY <1>3 DEF GraphOK, ModelsAdded, SameJs
<1>12. ASSUME NEW x \in DOMAIN graph'.fields
       PROVE  x.module \in Modules /\ [name |-> x.model, module |-> x.module] \in DOMAIN graph'.models
  <2>1. CASE x \in DOMAIN graph.fields
    BY <1>8, <2>1 DEF GraphOK
  <2>2. CASE x \in Fields(m, D)
    <3>1. PICK d \in D : \E n : x = Member(m, d, n)
      BY <2>2 DEF Fields
    <3>2. x.model = d.name /\ x.module = m
      BY <3>1 DEF Member
    <3>3. ModelId(m, d) \in ModelIds(m, D)
      BY DEF ModelIds
    <3>4. QED
      BY <1>8, <3>2, <3>3 DEF ModelId
  <2>3. QED
    BY <1>3, <2>1, <2>2 DEF ModelsAdded
<1>13. QED
  BY <1>4, <1>7, <1>9, <1>10, <1>11, <1>12 DEF GraphOK

LEMMA ViewsMoveKeeps ==
  ASSUME GraphOK, ViewsMove
  PROVE  GraphOK'
<1>1. PICK m \in Modules : StubbedMods(graph, graph') /\ ViewsAdded(graph, graph', m, ToSet(Parse(m).views))
  BY DEF ViewsMove, ViewsStep
<1>2. ModsOK' /\ IsGraph(graph')
  BY <1>1, StubbedKeeps DEF GraphOK, ViewsAdded
<1>3. SameModels(graph, graph') /\ SameJs(graph, graph')
  BY <1>1 DEF ViewsAdded
<1>4. graph'.extends \subseteq (DOMAIN graph'.views) \X (DOMAIN graph'.views)
  <2>1. graph'.extends \subseteq graph.extends \cup (DOMAIN graph'.views) \X (DOMAIN graph'.views)
        /\ DOMAIN graph.views \subseteq DOMAIN graph'.views
    BY <1>1 DEF ViewsAdded
  <2>2. QED
    BY <2>1 DEF GraphOK
<1>5. QED
  BY <1>2, <1>3, <1>4 DEF GraphOK, SameModels, SameJs

LEMMA JsMoveKeeps ==
  ASSUME GraphOK, JsMove
  PROVE  GraphOK'
<1>1. PICK m, w : /\ m \in Modules /\ StubbedMods(graph, graph')
                  /\ CompsAdded(graph, w, m, ToSet(Parse(m).comps))
                  /\ PatchesAdded(w, graph', m, ToSet(Parse(m).patches))
  BY DEF JsMove, JsStep
<1>2. ModsOK' /\ IsGraph(graph')
  BY <1>1, StubbedKeeps DEF GraphOK, PatchesAdded
<1>3. SameModels(graph, graph') /\ SameViews(graph, graph')
  <2>1. SameModels(graph, w) /\ SameViews(graph, w)
    BY <1>1 DEF CompsAdded
  <2>2. SameModels(w, graph') /\ SameViews(w, graph')
    BY <1>1 DEF PatchesAdded
  <2>3. QED
    BY <2>1, <2>2 DEF SameModels, SameViews
<1>4. graph'.patchEdges \subseteq graph'.patches \X (DOMAIN graph'.comps)
  <2>1. w.patches = graph.patches /\ w.patchEdges = graph.patchEdges /\ DOMAIN graph.comps \subseteq DOMAIN w.comps
    BY <1>1 DEF CompsAdded
  <2>2. PICK ids : /\ graph'.patches = w.patches \cup ids
                   /\ graph'.patchEdges \subseteq w.patchEdges \cup ids \X (DOMAIN graph'.comps)
                   /\ DOMAIN w.comps \subseteq DOMAIN graph'.comps
    BY <1>1 DEF PatchesAdded
  <2>3. graph.patchEdges \subseteq graph.patches \X (DOMAIN graph.comps)
    BY DEF GraphOK
  <2>4. QED
    BY <2>1, <2>2, <2>3
<1>5. QED
  BY <1>2, <1>3, <1>4 DEF GraphOK, SameModels, SameViews

LEMMA DeleteMoveKeeps ==
  ASSUME GraphOK, DeleteMove
  PROVE  GraphOK'
<1>1. PICK ms : Deleted(graph, graph', ms)
  BY DEF DeleteMove
<1>2. ModsOK' /\ IsGraph(graph')
  BY <1>1 DEF GraphOK, ModsOK, Deleted
<1>3. \A x \in DOMAIN graph'.models : /\ x.module \in Modules \cup {Unresolved}
                                      /\ graph'.models[x].unresolved <=> IsHeld(x)
  BY <1>1 DEF GraphOK, Deleted
<1>4. \A e \in graph'.inherits : e[1] \in DOMAIN graph'.models /\ e[2] \in DOMAIN graph'.models
  BY <1>1 DEF GraphOK, Deleted
<1>5. graph'.extends \subseteq (DOMAIN graph'.views) \X (DOMAIN graph'.views)
  BY <1>1 DEF GraphOK, Deleted
<1>6. graph'.patchEdges \subseteq graph'.patches \X (DOMAIN graph'.comps)
  BY <1>1 DEF GraphOK, Deleted
<1>7. ASSUME NEW x \in DOMAIN graph'.fields
      PROVE  x.module \in Modules /\ [name |-> x.model, module |-> x.module] \in DOMAIN graph'.models
  <2>1. x \in DOMAIN graph.fields /\ x.module \notin ms
    BY <1>1 DEF Deleted
  <2>2. PICK id : id = [name |-> x.model, module |-> x.module]
    OBVIOUS
  <2>3. id \in DOMAIN graph.models /\ id.module = x.module /\ x.module \in Modules
    BY <2>1, <2>2 DEF GraphOK
  <2>4. QED
    BY <1>1, <2>1, <2>2, <2>3 DEF Deleted
<1>8. QED
  BY <1>2, <1>3, <1>4, <1>5, <1>6, <1>7 DEF GraphOK

LEMMA SameIsOK ==
  ASSUME GraphOK, ModsOK', IsGraph(graph'), SameModels(graph, graph'), SameViews(graph, graph'),
         SameJs(graph, graph')
  PROVE  GraphOK'
<1>1. /\ graph'.models = graph.models /\ graph'.inherits = graph.inherits
      /\ graph'.fields = graph.fields /\ graph'.extends = graph.extends
      /\ graph'.views = graph.views /\ graph'.patches = graph.patches
      /\ graph'.patchEdges = graph.patchEdges /\ graph'.comps = graph.comps
  BY DEF SameModels, SameViews, SameJs
<1>2. QED
  BY <1>1 DEF GraphOK

LEMMA GraphOKStep ==
  ASSUME RunsAreOK, GraphOK, [Next]_vars
  PROVE  RunsAreOK' /\ GraphOK'
<1>1. RunsAreOK'
  BY RunsStep
<1>2. GraphMove
  BY MovesAre DEF GraphOK
<1>3. CASE QuietStep
  <2>1. UNCHANGED graph
    BY <1>3 DEF QuietStep
  <2>2. ModsOK' /\ IsGraph(graph')
    BY <2>1 DEF GraphOK, ModsOK
  <2>3. QED
    BY <1>1, <2>1, <2>2, SameIsOK DEF SameModels, SameViews, SameJs
<1>4. CASE SheetsMove
  <2>1. BatchWritten(graph, graph')
    BY <1>4 DEF SheetsMove
  <2>2. ModsOK'
    BY <2>1, StubbedKeeps DEF GraphOK, BatchWritten
  <2>3. QED
    BY <1>1, <2>1, <2>2, SameIsOK DEF BatchWritten
<1>5. CASE EndMove
  <2>1. PICK gone : Dropped(graph, graph', gone)
    BY <1>5 DEF EndMove
  <2>2. ModsOK'
    BY <2>1 DEF GraphOK, ModsOK, Dropped
  <2>3. QED
    BY <1>1, <2>1, <2>2, SameIsOK DEF Dropped
<1>6. QED
  BY <1>1, <1>2, <1>3, <1>4, <1>5, ModelsMoveKeeps, ViewsMoveKeeps, JsMoveKeeps, DeleteMoveKeeps
     DEF GraphMove

-----------------------------------------------------------------------------
(* The type invariant                                                         *)

\* An edge to a symbol starts from a rule that is there.
ChecksOK == \A e \in checks : <<e[1], e[3]>> \in DOMAIN rules
                              /\ \E x \in DOMAIN rules, s \in Symbols : e = <<x[1], s, x[2]>>

LEMMA ChecksStep ==
  ASSUME SoundInv, ChecksOK, [Next]_vars
  PROVE  ChecksOK'
<1>1. ASSUME NEW v \in CoreVersions, WriteLintRules(v) PROVE ChecksOK'
  <2>1. DOMAIN rules' = DOMAIN rules \cup (DOMAIN RuleTable[v]) \X {v}
    BY <1>1 DEF WriteLintRules
  <2>2. ASSUME NEW e \in checks'
        PROVE  <<e[1], e[3]>> \in DOMAIN rules'
               /\ \E x \in DOMAIN rules', s \in Symbols : e = <<x[1], s, x[2]>>
    <3>1. CASE e \in checks
      BY <2>1, <3>1 DEF ChecksOK
    <3>2. CASE e \notin checks
      <4>1. PICK q \in ToSet(LintRules[v]) : e = <<q.id, q.symbol, v>> /\ <<q.symbol, v>> \in DOMAIN symbols
        BY <1>1, <3>2 DEF WriteLintRules
      <4>2. q.id \in DOMAIN RuleTable[v]
        BY DEF RuleTable
      <4>3. q.symbol \in Symbols
        BY <4>1 DEF SoundInv, SymbolsOK
      <4>4. PICK x : x = <<q.id, v>>
        OBVIOUS
      <4>5. x \in DOMAIN rules' /\ e = <<x[1], q.symbol, x[2]>> /\ <<e[1], e[3]>> = x
        BY <2>1, <4>1, <4>2, <4>4
      <4>6. QED
        BY <4>3, <4>5
    <3>3. QED
      BY <3>1, <3>2
  <2>3. QED
    BY <2>2 DEF ChecksOK
<1>2. CASE UNCHANGED <<rules, checks>>
  BY <1>2 DEF ChecksOK
<1>3. CASE \E v \in CoreVersions : CoreStep(v)
  BY <1>1, <1>2, <1>3 DEF CoreStep, StartIndexCore, KillIndexCore, WriteCoreSymbols,
      WriteCliCommands, WriteCliFlags, DiffWithPrevious, WriteDiffEdges, WriteLifecycleProperties
<1>4. QED
  BY <1>2, <1>3 DEF Next, vars, coreVars

LEMMA TypesAre ==
  ASSUME SoundInv, ChecksOK, RunsAreOK, GraphOK
  PROVE  TypeOK
<1>1. CoreTypeOK
  <2>1. /\ DOMAIN symbols \subseteq Symbols \X CoreVersions
        /\ \A n \in DOMAIN symbols : symbols[n] \in NodeType
    BY DEF SoundInv, SymbolsOK
  <2>2. ASSUME NEW e \in checks
        PROVE  e \in {<<x[1], s, x[2]>> : x \in DOMAIN rules, s \in Symbols}
    <3>1. PICK x \in DOMAIN rules, s \in Symbols : e = <<x[1], s, x[2]>>
      BY DEF ChecksOK
    <3>2. QED
      BY <3>1
  <2>3. \A v \in CoreVersions : core[v].pc \in CorePhases
    BY DEF SoundInv, RunsOK, RunType
  <2>4. /\ replacedBy \subseteq Symbols \X CoreVersions \X Symbols \X CoreVersions
        /\ DOMAIN completed \cup tainted \subseteq CoreVersions /\ ops \in 0 .. MaxOps
    BY DEF SoundInv, EdgesOK, CompletedOK, RunsAreOK
  <2>5. QED
    BY <2>1, <2>2, <2>3, <2>4 DEF CoreTypeOK, NodeType, MaybeVersion
<1>2. GraphTypeOK
  <2>1. \A e \in graph.inherits : e[1] \in DOMAIN graph.models /\ e[2] \in DOMAIN graph.models
    BY DEF GraphOK
  <2>2. \A e \in graph.extends : e[1] \in DOMAIN graph.views /\ e[2] \in DOMAIN graph.views
    BY DEF GraphOK
  <2>3. \A e \in graph.patchEdges : e[1] \in graph.patches /\ e[2] \in DOMAIN graph.comps
    BY DEF GraphOK
  <2>4. ASSUME NEW r \in Repos PROVE run[r].pc \in RunPhases /\ ToSet(run[r].todo) \subseteq Modules
    <3>1. run[r] \in RunRecord
      BY DEF RunsAreOK
    <3>2. run[r].pc \in RunPhases /\ run[r].todo \in Seq(Modules)
      BY <3>1 DEF RunRecord
    <3>3. QED
      BY <3>2, LenProperties, ElementOfSeq DEF ToSet
  <2>5. QED
    BY <2>1, <2>2, <2>3, <2>4 DEF GraphTypeOK, GraphOK, RunsAreOK, ModsOK
<1>3. QED
  BY <1>1, <1>2 DEF TypeOK

\* Both layers keep their structure, whatever is indexed, collected, deleted or
\* killed: an edge never ends at a node that is gone, nor a field at a model.
THEOREM TypesAreAlwaysCorrect == Unambiguous /\ Spec => []TypeOK
<1> SUFFICES ASSUME Unambiguous PROVE Spec => []TypeOK
  OBVIOUS
<1>1. Init => SoundInv /\ ChecksOK /\ RunsAreOK /\ GraphOK
  BY SoundInit, GraphOKInit DEF Init, CoreInit, ChecksOK
<1>2. SoundInv /\ ChecksOK /\ RunsAreOK /\ GraphOK /\ [Next]_vars
        => (SoundInv /\ ChecksOK /\ RunsAreOK /\ GraphOK)'
  BY SoundStep, ChecksStep, GraphOKStep
<1>3. SoundInv /\ ChecksOK /\ RunsAreOK /\ GraphOK => TypeOK
  BY TypesAre
<1>4. QED
  BY <1>1, <1>2, <1>3, PTL DEF Spec

-----------------------------------------------------------------------------
(* What has been indexed when                                              *)

-----------------------------------------------------------------------------
(* The history                                                                *)

Places == Layers \X Modules
Read(p) == last[p[1]][p[2]]
\* What a module was written with is one of its sources, and what it was preceded
\* by is still written.
HistOK ==
  /\ DOMAIN last = Layers /\ DOMAIN pure = Layers
  /\ \A l \in Layers : DOMAIN last[l] = Modules
  /\ \A l \in Layers, m \in Modules : last[l][m] \in Contents[m] \cup {None}
  /\ \A l \in Layers, m \in Modules : \A e \in seen[l][m] :
       \/ \E v \in DOMAIN completed : e = <<"core", v>>
       \/ e \in Places /\ last[e[1]][e[2]] # None

\* m is written in layer l.
Afresh(l, m) ==
  /\ l \in Layers /\ m \in Modules /\ last'[l][m] = disk[m] /\ disk[m] \in Contents[m] /\ disk[m] # None
  /\ DOMAIN last' = Layers /\ DOMAIN pure' = Layers
  /\ \A k \in Layers : DOMAIN last'[k] = Modules
  /\ \A k \in Layers, x \in Modules : <<k, x>> # <<l, m>> =>
       /\ last'[k][x] = last[k][x]
       /\ seen'[k][x] \subseteq seen[k][x]
       /\ last[l][m] # disk[m] => <<l, m>> \notin seen'[k][x]
  /\ \A e \in seen'[l][m] : \/ \E v \in DOMAIN completed : e = <<"core", v>>
                            \/ e \in Places /\ e # <<l, m>> /\ last[e[1]][e[2]] # None
  /\ \A k \in Layers, x \in Modules :
       x \in pure'[k] => /\ x \in pure[k]
                         /\ <<k, x>> = <<l, m>> => last[l][m] \in {None, disk[m]}

LEMMA AfreshIs ==
  ASSUME HistOK, NEW l \in Layers, NEW m, LayerWritten(l, m)
  PROVE  Afresh(l, m)
<1>1. m \in Modules /\ disk[m] \in Contents[m] /\ disk[m] # None
  BY GraphAssumption DEF LayerWritten
<1>2. PICK there : there = {x \in Places : last[x[1]][x[2]] # None /\ x # <<l, m>>}
                 \cup {<<"core", v>> : v \in DOMAIN completed}
  OBVIOUS
<1>3. /\ last' = [last EXCEPT ![l][m] = disk[m]]
      /\ pure' = [pure EXCEPT ![l] = IF last[l][m] \notin {None, disk[m]} THEN @ \ {m} ELSE @]
      /\ seen' = [k \in Layers |-> [x \in Modules |->
                    IF k = l /\ x = m THEN there
                    ELSE IF last[l][m] # disk[m] THEN seen[k][x] \ {<<l, m>>} ELSE seen[k][x]]]
  BY <1>2 DEF LayerWritten, Wrote, Places
<1>4. /\ DOMAIN last' = Layers /\ DOMAIN pure' = Layers /\ last'[l][m] = disk[m]
      /\ \A k \in Layers : DOMAIN last'[k] = Modules
      /\ \A k \in Layers, x \in Modules : <<k, x>> # <<l, m>> => last'[k][x] = last[k][x]
  BY <1>1, <1>3 DEF HistOK
<1>5. seen'[l][m] = there
  BY <1>1, <1>3
<1>6. \A k \in Layers, x \in Modules : <<k, x>> # <<l, m>> =>
        /\ seen'[k][x] \subseteq seen[k][x]
        /\ last[l][m] # disk[m] => <<l, m>> \notin seen'[k][x]
  BY <1>3
<1>7. \A e \in there : \/ \E v \in DOMAIN completed : e = <<"core", v>>
                       \/ e \in Places /\ e # <<l, m>> /\ last[e[1]][e[2]] # None
  BY <1>2
<1>8. \A k \in Layers, x \in Modules :
        x \in pure'[k] => x \in pure[k] /\ (<<k, x>> = <<l, m>> => last[l][m] \in {None, disk[m]})
  BY <1>1, <1>3 DEF HistOK
<1>9. QED
  BY <1>1, <1>4, <1>5, <1>6, <1>7, <1>8 DEF Afresh

LEMMA HistInit ==
  ASSUME Init
  PROVE  HistOK
BY DEF Init, GraphInit, HistOK

LEMMA AfreshKeeps ==
  ASSUME HistOK, NEW l, NEW m, Afresh(l, m), DOMAIN completed \subseteq DOMAIN completed'
  PROVE  HistOK'
<1>1. \A k \in Layers, x \in Modules : last'[k][x] \in Contents[x] \cup {None}
  BY DEF HistOK, Afresh
<1>2. \A k \in Layers, x \in Modules : last[k][x] # None => last'[k][x] # None
  BY DEF Afresh
<1>3. ASSUME NEW k \in Layers, NEW x \in Modules, NEW e \in seen'[k][x]
      PROVE  \/ \E v \in DOMAIN completed' : e = <<"core", v>>
             \/ e \in Places /\ last'[e[1]][e[2]] # None
  <2>1. \/ \E v \in DOMAIN completed : e = <<"core", v>>
        \/ e \in Places /\ last[e[1]][e[2]] # None
    <3>1. CASE <<k, x>> = <<l, m>>
      BY <1>3, <3>1 DEF Afresh
    <3>2. CASE <<k, x>> # <<l, m>>
      BY <1>3, <3>2 DEF Afresh, HistOK
    <3>3. QED
      BY <3>1, <3>2
  <2>2. e \in Places => e[1] \in Layers /\ e[2] \in Modules
    BY DEF Places
  <2>3. QED
    BY <1>2, <2>1, <2>2
<1>4. QED
  BY <1>1, <1>3 DEF HistOK, Afresh

LEMMA HistStep ==
  ASSUME HistOK, GraphMove
  PROVE  HistOK'
<1>1. CASE QuietStep
  BY <1>1 DEF QuietStep, HistOK
<1>2. CASE ModelsMove \/ ViewsMove \/ JsMove
  <2>1. PICK l \in Layers, m \in Modules : LayerWritten(l, m)
    BY <1>2 DEF ModelsMove, ViewsMove, JsMove, Layers
  <2>2. DOMAIN completed \subseteq DOMAIN completed'
    BY <2>1 DEF LayerWritten
  <2>3. QED
    BY <2>1, <2>2, AfreshIs, AfreshKeeps
<1>3. CASE SheetsMove
  <2>1. PICK S \in SUBSET Modules :
          /\ \A m \in S : disk[m] \in Contents[m]
          /\ last' = [last EXCEPT !["sheets"] = [m \in Modules |-> IF m \in S THEN disk[m] ELSE @[m]]]
    BY <1>3 DEF SheetsMove
  <2>2. /\ DOMAIN last' = Layers /\ \A k \in Layers : DOMAIN last'[k] = Modules
        /\ \A k \in Layers, x \in Modules : /\ last'[k][x] \in Contents[x] \cup {None}
                                            /\ last[k][x] # None => last'[k][x] # None
    <3>1. \A k \in Layers, x \in Modules :
            last'[k][x] = IF k = "sheets" /\ x \in S THEN disk[x] ELSE last[k][x]
      BY <2>1 DEF HistOK, Layers
    <3>2. DOMAIN last' = Layers /\ \A k \in Layers : DOMAIN last'[k] = Modules
      BY <2>1 DEF HistOK, Layers
    <3>3. \A m \in S : disk[m] # None
      BY <2>1, GraphAssumption
    <3>4. QED
      BY <2>1, <3>1, <3>2, <3>3 DEF HistOK
  <2>3. UNCHANGED <<pure, seen, completed>>
    BY <1>3 DEF SheetsMove
  <2>4. QED
    BY <2>2, <2>3 DEF HistOK, Places
<1>4. CASE EndMove
  <2>1. PICK gone \in SUBSET Modules :
          /\ last' = [l \in Layers |-> [m \in Modules |-> IF m \in gone THEN None ELSE last[l][m]]]
          /\ pure' = [l \in Layers |-> pure[l] \ gone]
          /\ seen' = [l \in Layers |-> [m \in Modules |-> Forgotten(gone, l, m)]]
          /\ UNCHANGED completed
    BY <1>4 DEF EndMove
  <2>2. ASSUME NEW k \in Layers, NEW x \in Modules, NEW e \in seen'[k][x]
        PROVE  \/ \E v \in DOMAIN completed' : e = <<"core", v>>
               \/ e \in Places /\ last'[e[1]][e[2]] # None
    <3>1. e \in seen[k][x] /\ (e[1] = "core" \/ e[2] \notin gone)
      BY <2>1, <2>2 DEF Forgotten
    <3>2. QED
      BY <2>1, <3>1 DEF HistOK, Places, Layers
  <2>3. QED
    BY <2>1, <2>2 DEF HistOK
<1>5. CASE DeleteMove
  <2>1. PICK r \in Repos :
      /\ last' = [l \in Layers |-> [m \in Modules |->
                    IF m \in Home(r) /\ l # "sheets" THEN None ELSE last[l][m]]]
      /\ DOMAIN pure' = Layers
      /\ seen' = [l \in Layers |-> [m \in Modules |->
                    IF m \in Home(r) THEN {} ELSE Forgotten(Home(r), l, m)]]
      /\ UNCHANGED completed
    BY <1>5 DEF DeleteMove
  <2>2. ASSUME NEW k \in Layers, NEW x \in Modules, NEW e \in seen'[k][x]
        PROVE  \/ \E v \in DOMAIN completed' : e = <<"core", v>>
               \/ e \in Places /\ last'[e[1]][e[2]] # None
    <3>1. e \in seen[k][x] /\ (e[1] = "core" \/ e[2] \notin Home(r))
      BY <2>1, <2>2 DEF Forgotten
    <3>2. QED
      BY <2>1, <3>1 DEF HistOK, Places, Layers
  <2>3. QED
    BY <2>1, <2>2 DEF HistOK
<1>6. QED
  BY <1>1, <1>2, <1>3, <1>4, <1>5 DEF GraphMove

-----------------------------------------------------------------------------
(* What the usages of a field are                                          *)

-----------------------------------------------------------------------------
(* Uses of deprecated symbols                                                 *)

\* u is a reference of a method of one of the classes D of m.
UseOf(u, m, D) ==
  \E d \in D : \E n \in DOMAIN d.methods : \E s \in Symbols :
    u = <<Member(m, d, n), s>> /\ ShortName(s) \in d.methods[n].refs

UsesOK ==
  /\ \A m \in Modules : last["models"][m] # None => graph.mods[m] = "indexed"
  /\ \A u \in graph.uses :
       /\ u[1].module \in Modules
       /\ u[1].module \in pure["models"] =>
            /\ last["models"][u[1].module] # None
            /\ UseOf(u, u[1].module, Classes(u[1].module))
  /\ \A m \in Modules :
       (last["models"][m] # None /\ <<"core", CodeVersion>> \in seen["models"][m]) =>
         \A u : UseOf(u, m, Classes(m)) /\ Deprecated(u[2]) => u \in graph.uses

LEMMA UsesAre ==
  ASSUME NEW m
  PROVE  \A u : u \in Uses(m) <=> UseOf(u, m, Classes(m)) /\ Deprecated(u[2])
<1>1. PICK D : D = Classes(m)
  OBVIOUS
<1>2. Uses(m) = UNION {UNION {{Member(m, d, n)} \X
                  {s \in Symbols : ShortName(s) \in d.methods[n].refs /\ Deprecated(s)} :
                n \in DOMAIN d.methods} : d \in D}
  BY <1>1 DEF Uses, Member
<1>3. ASSUME NEW u, u \in Uses(m) PROVE UseOf(u, m, D) /\ Deprecated(u[2])
  <2>1. PICK d \in D : u \in UNION {{Member(m, d, n)} \X
                  {s \in Symbols : ShortName(s) \in d.methods[n].refs /\ Deprecated(s)} :
                n \in DOMAIN d.methods}
    BY <1>2, <1>3
  <2>2. PICK n \in DOMAIN d.methods : u \in {Member(m, d, n)} \X
                  {s \in Symbols : ShortName(s) \in d.methods[n].refs /\ Deprecated(s)}
    BY <2>1
  <2>3. PICK s \in Symbols : u = <<Member(m, d, n), s>> /\ ShortName(s) \in d.methods[n].refs /\ Deprecated(s)
    BY <2>2
  <2>4. UseOf(u, m, D)
    BY <2>3 DEF UseOf
  <2>5. u[2] = s
    BY <2>3
  <2>6. QED
    BY <2>3, <2>4, <2>5
<1>4. ASSUME NEW u, UseOf(u, m, D), Deprecated(u[2]) PROVE u \in Uses(m)
  <2>1. PICK d \in D : \E n \in DOMAIN d.methods : \E s \in Symbols :
          u = <<Member(m, d, n), s>> /\ ShortName(s) \in d.methods[n].refs
    BY <1>4 DEF UseOf
  <2>2. PICK n \in DOMAIN d.methods : \E s \in Symbols :
          u = <<Member(m, d, n), s>> /\ ShortName(s) \in d.methods[n].refs
    BY <2>1
  <2>3. PICK s \in Symbols : u = <<Member(m, d, n), s>> /\ ShortName(s) \in d.methods[n].refs
    BY <2>2
  <2>4. u[2] = s
    BY <2>3
  <2>5. u \in {Member(m, d, n)} \X
                  {x \in Symbols : ShortName(x) \in d.methods[n].refs /\ Deprecated(x)}
    BY <1>4, <2>3, <2>4
  <2>6. u \in UNION {{Member(m, d, k)} \X
                  {x \in Symbols : ShortName(x) \in d.methods[k].refs /\ Deprecated(x)} :
                k \in DOMAIN d.methods}
    BY <2>5
  <2>7. QED
    BY <1>2, <2>6
<1>5. QED
  BY <1>1, <1>3, <1>4

\* What a write records.
LEMMA AllUsesAre ==
  ASSUME NEW m, NEW D
  PROVE  /\ \A u \in AllUses(m, D) : UseOf(u, m, D) /\ u[1].module = m
         /\ \A u : (/\ UseOf(u, m, D) /\ <<u[2], CodeVersion>> \in DOMAIN symbols
                    /\ symbols[<<u[2], CodeVersion>>].status \in {"deprecated", "removed"})
                   => u \in AllUses(m, D)
<1>1. ASSUME NEW u \in AllUses(m, D) PROVE UseOf(u, m, D) /\ u[1].module = m
  <2>1. PICK d \in D : u \in UsesNow(m, d)
    BY DEF AllUses
  <2>2. PICK n \in DOMAIN d.methods : u \in {<<Member(m, d, n), s>> : s \in
                   UNION {DeprecatedNamed(ref) : ref \in d.methods[n].refs}}
    BY <2>1 DEF UsesNow
  <2>3. PICK s \in UNION {DeprecatedNamed(ref) : ref \in d.methods[n].refs} : u = <<Member(m, d, n), s>>
    BY <2>2
  <2>4. PICK ref \in d.methods[n].refs : s \in DeprecatedNamed(ref)
    BY <2>3
  <2>5. s \in Symbols /\ ShortName(s) = ref
    BY <2>4 DEF DeprecatedNamed
  <2>6. u[1] = Member(m, d, n)
    BY <2>3
  <2>7. QED
    BY <2>3, <2>4, <2>5, <2>6 DEF UseOf, Member
<1>2. ASSUME NEW u, UseOf(u, m, D), <<u[2], CodeVersion>> \in DOMAIN symbols,
             symbols[<<u[2], CodeVersion>>].status \in {"deprecated", "removed"}
      PROVE  u \in AllUses(m, D)
  <2>1. PICK d \in D : \E n \in DOMAIN d.methods : \E s \in Symbols :
          u = <<Member(m, d, n), s>> /\ ShortName(s) \in d.methods[n].refs
    BY <1>2 DEF UseOf
  <2>2. PICK n \in DOMAIN d.methods : \E s \in Symbols :
          u = <<Member(m, d, n), s>> /\ ShortName(s) \in d.methods[n].refs
    BY <2>1
  <2>3. PICK s \in Symbols : u = <<Member(m, d, n), s>> /\ ShortName(s) \in d.methods[n].refs
    BY <2>2
  <2>4. u[2] = s
    BY <2>3
  <2>5. s \in DeprecatedNamed(ShortName(s))
    BY <1>2, <2>4 DEF DeprecatedNamed
  <2>6. s \in UNION {DeprecatedNamed(ref) : ref \in d.methods[n].refs}
    BY <2>3, <2>5
  <2>7. u \in {<<Member(m, d, n), x>> : x \in
                   UNION {DeprecatedNamed(ref) : ref \in d.methods[n].refs}}
    BY <2>3, <2>6
  <2>8. u \in UsesNow(m, d)
    BY <2>7 DEF UsesNow
  <2>9. QED
    BY <2>8 DEF AllUses
<1>3. QED
  BY <1>1, <1>2

\* A step that leaves the classes as they are.
LEMMA UsesStay ==
  ASSUME UsesOK, graph'.uses = graph.uses,
         \A m \in Modules : graph.mods[m] = "indexed" => graph'.mods[m] = "indexed",
         \A m \in Modules : last'["models"][m] = last["models"][m],
         \A m \in Modules : m \in pure'["models"] => m \in pure["models"],
         \A m \in Modules : seen'["models"][m] \subseteq seen["models"][m]
  PROVE  UsesOK'
<1>1. \A m \in Modules : Classes(m)' = Classes(m)
  BY DEF Classes, SaidIn
<1>2. \A s : Deprecated(s)' <=> Deprecated(s)
  BY DEF Deprecated
<1>3. \A m \in Modules : last'["models"][m] # None => graph'.mods[m] = "indexed"
  BY DEF UsesOK
<1>4. \A u \in graph'.uses :
       /\ u[1].module \in Modules
       /\ u[1].module \in pure'["models"] =>
            /\ last'["models"][u[1].module] # None
            /\ UseOf(u, u[1].module, Classes(u[1].module)')
  BY <1>1 DEF UsesOK
<1>5. ASSUME NEW m \in Modules, last'["models"][m] # None, <<"core", CodeVersion>> \in seen'["models"][m],
             NEW u, UseOf(u, m, Classes(m)'), Deprecated(u[2])
      PROVE  u \in graph'.uses
  BY <1>1, <1>5 DEF UsesOK
<1>6. QED
  BY <1>2, <1>3, <1>4, <1>5 DEF UsesOK, UseOf

LEMMA ModelsMoveUses ==
  ASSUME ReadAsWritten, SoundInv, HistOK, UsesOK, ModelsMove
  PROVE  UsesOK'
<1>1. PICK m \in Modules : LayerWritten("models", m) /\ ModelsStep(m)
  BY DEF ModelsMove
<1>2. Afresh("models", m)
  BY <1>1, AfreshIs DEF Layers
<1>3. PICK D : D = Sources[m][disk[m]].classes
  OBVIOUS
<1>4. ToSet(Parse(m).models) = D
  <2>1. disk[m] \in Contents[m]
    BY <1>2 DEF Afresh
  <2>2. QED
    BY <1>3, <2>1 DEF ReadAsWritten, Parse
<1>5. /\ graph'.mods = [y \in Modules |-> IF y = m THEN "indexed"
                                      ELSE IF y \in Parse(m).depends /\ graph.mods[y] = "absent" THEN "stub"
                                      ELSE graph.mods[y]]
      /\ graph'.uses = graph.uses \cup AllUses(m, D)
  BY <1>1, <1>4 DEF ModelsStep, ModelsAdded
<1>6. /\ \A x \in Modules : x # m => last'["models"][x] = last["models"][x]
      /\ last'["models"][m] = disk[m] /\ disk[m] # None
  BY <1>2 DEF Afresh, Layers
<1>7. Classes(m)' = D /\ \A x \in Modules : x # m => Classes(x)' = Classes(x)
  BY <1>3, <1>6 DEF Classes, SaidIn
<1>8. \A x \in Modules : last'["models"][x] # None => graph'.mods[x] = "indexed"
  BY <1>5, <1>6 DEF UsesOK
<1>9. ASSUME NEW u \in graph'.uses
      PROVE  /\ u[1].module \in Modules
             /\ u[1].module \in pure'["models"] =>
                  /\ last'["models"][u[1].module] # None
                  /\ UseOf(u, u[1].module, Classes(u[1].module)')
  <2>1. CASE u \in AllUses(m, D)
    BY <1>6, <1>7, <2>1, AllUsesAre
  <2>2. CASE u \in graph.uses /\ u[1].module # m
    <3>1. u[1].module \in Modules
      BY <2>2 DEF UsesOK
    <3>2. u[1].module \in pure'["models"] => u[1].module \in pure["models"]
      BY <1>2, <3>1 DEF Afresh, Layers
    <3>3. QED
      BY <1>6, <1>7, <2>2, <3>1, <3>2 DEF UsesOK
  <2>3. CASE u \in graph.uses /\ u[1].module = m
    <3>1. SUFFICES ASSUME m \in pure'["models"] PROVE UseOf(u, m, D)
      BY <1>6, <1>7, <2>3
    <3>2. m \in pure["models"] /\ last["models"][m] \in {None, disk[m]}
      BY <1>2, <3>1 DEF Afresh, Layers
    <3>3. last["models"][m] # None /\ UseOf(u, m, Classes(m))
      BY <2>3, <3>2 DEF UsesOK
    <3>4. Classes(m) = D
      BY <1>3, <3>2, <3>3 DEF Classes, SaidIn
    <3>5. QED
      BY <3>3, <3>4
  <2>4. QED
    BY <1>5, <2>1, <2>2, <2>3
<1>10. ASSUME NEW x \in Modules, last'["models"][x] # None, <<"core", CodeVersion>> \in seen'["models"][x],
              NEW u, UseOf(u, x, Classes(x)'), Deprecated(u[2])
       PROVE  u \in graph'.uses
  <2>1. CASE x # m
    <3>1. seen'["models"][x] \subseteq seen["models"][x]
      BY <1>2, <2>1 DEF Afresh, Layers
    <3>2. QED
      BY <1>5, <1>6, <1>7, <1>10, <2>1, <3>1 DEF UsesOK
  <2>2. CASE x = m
    <3>1. \/ \E v \in DOMAIN completed : <<"core", CodeVersion>> = <<"core", v>>
          \/ <<"core", CodeVersion>> \in Places
      BY <1>2, <1>10, <2>2 DEF Afresh
    <3>2. CodeVersion \in DOMAIN completed
      BY <3>1 DEF Places, Layers
    <3>3. Whole(CodeVersion)
      BY <3>2 DEF SoundInv, CompletedOK
    <3>4. u[2] \in DOMAIN Table[CodeVersion] /\ Table[CodeVersion][u[2]].status \in {"deprecated", "removed"}
      BY <1>10 DEF Deprecated
    <3>5. PICK n : n = <<u[2], CodeVersion>>
      OBVIOUS
    <3>6. n \in DOMAIN symbols
      BY <3>3, <3>4, <3>5 DEF Whole
    <3>7. symbols[n].status = Table[CodeVersion][u[2]].status
      BY <3>5, <3>6 DEF SoundInv, SymbolsOK
    <3>8. u \in AllUses(m, D)
      BY <1>7, <1>10, <2>2, <3>4, <3>5, <3>6, <3>7, AllUsesAre
    <3>9. QED
      BY <1>5, <3>8
  <2>3. QED
    BY <2>1, <2>2
<1>11. \A s : Deprecated(s)' <=> Deprecated(s)
  BY DEF Deprecated
<1>12. QED
  BY <1>8, <1>9, <1>10, <1>11 DEF UsesOK, UseOf

LEMMA DeleteMoveUses ==
  ASSUME HistOK, GraphOK, UsesOK, DeleteMove
  PROVE  UsesOK'
<1>1. PICK r \in Repos :
        /\ Deleted(graph, graph', IndexedOf(graph, r))
        /\ last' = [l \in Layers |-> [m \in Modules |->
                      IF m \in Home(r) /\ l # "sheets" THEN None ELSE last[l][m]]]
        /\ pure' = [l \in Layers |-> IF l = "sheets" THEN pure[l]
                                     ELSE pure[l] \cup IndexedOf(graph, r)]
        /\ seen' = [l \in Layers |-> [m \in Modules |->
                      IF m \in Home(r) THEN {} ELSE Forgotten(Home(r), l, m)]]
  BY DEF DeleteMove
<1>2. "models" \in Layers /\ "models" # "sheets"
  BY DEF Layers
<1>3. /\ \A m \in Modules : last'["models"][m] = IF m \in Home(r) THEN None ELSE last["models"][m]
      /\ pure'["models"] = pure["models"] \cup IndexedOf(graph, r)
      /\ \A m \in Modules : seen'["models"][m] = IF m \in Home(r) THEN {} ELSE Forgotten(Home(r), "models", m)
  BY <1>1, <1>2
<1>4. \A m \in Modules : seen'["models"][m] \subseteq seen["models"][m]
  BY <1>3 DEF Forgotten
<1>5. PICK ms : ms = IndexedOf(graph, r)
  OBVIOUS
<1>6. \A m \in Modules : m \in ms <=> graph.mods[m] = "indexed" /\ m \in Home(r)
  BY <1>5 DEF IndexedOf, Home
<1>7. /\ graph'.mods = [m \in Modules |-> IF m \in ms THEN "absent" ELSE graph.mods[m]]
      /\ graph'.uses = {e \in graph.uses : e[1].module \notin ms}
  BY <1>1, <1>5 DEF Deleted
<1>8. \A m \in Modules : m \notin Home(r) => Classes(m)' = Classes(m)
  BY <1>3 DEF Classes, SaidIn
<1>9. \A m \in Modules : last'["models"][m] # None => graph'.mods[m] = "indexed"
  BY <1>3, <1>6, <1>7 DEF UsesOK
<1>10. ASSUME NEW u \in graph'.uses
       PROVE  /\ u[1].module \in Modules
              /\ u[1].module \in pure'["models"] =>
                   /\ last'["models"][u[1].module] # None
                   /\ UseOf(u, u[1].module, Classes(u[1].module)')
  <2>1. u \in graph.uses /\ u[1].module \in Modules /\ u[1].module \notin ms
    BY <1>7 DEF UsesOK
  <2>2. SUFFICES ASSUME u[1].module \in pure'["models"]
                 PROVE  last'["models"][u[1].module] # None /\ UseOf(u, u[1].module, Classes(u[1].module)')
    BY <2>1
  <2>3. u[1].module \in pure["models"]
    BY <1>3, <1>5, <2>1, <2>2
  <2>4. last["models"][u[1].module] # None /\ UseOf(u, u[1].module, Classes(u[1].module))
    BY <2>1, <2>3 DEF UsesOK
  <2>5. u[1].module \notin Home(r)
    BY <1>6, <2>1, <2>4 DEF UsesOK
  <2>6. QED
    BY <1>3, <1>8, <2>1, <2>4, <2>5
<1>11. ASSUME NEW m \in Modules, last'["models"][m] # None, <<"core", CodeVersion>> \in seen'["models"][m],
              NEW u, UseOf(u, m, Classes(m)'), Deprecated(u[2])
       PROVE  u \in graph'.uses
  <2>1. m \notin Home(r) /\ last["models"][m] # None
    BY <1>3, <1>11
  <2>2. u \in graph.uses
    BY <1>4, <1>8, <1>11, <2>1 DEF UsesOK
  <2>3. u[1].module = m
    <3>1. PICK d, n, s : u = <<Member(m, d, n), s>>
      BY <1>11 DEF UseOf
    <3>2. u[1] = Member(m, d, n)
      BY <3>1
    <3>3. QED
      BY <3>2 DEF Member
  <2>4. QED
    BY <1>6, <1>7, <2>1, <2>2, <2>3
<1>12. \A s : Deprecated(s)' <=> Deprecated(s)
  BY DEF Deprecated
<1>13. QED
  BY <1>9, <1>10, <1>11, <1>12 DEF UsesOK, UseOf

LEMMA EndMoveUses ==
  ASSUME HistOK, UsesOK, EndMove
  PROVE  UsesOK'
<1>1. PICK gone \in SUBSET Modules :
    /\ Dropped(graph, graph', gone)
    /\ last' = [l \in Layers |-> [m \in Modules |-> IF m \in gone THEN None ELSE last[l][m]]]
    /\ pure' = [l \in Layers |-> pure[l] \ gone]
    /\ seen' = [l \in Layers |-> [m \in Modules |-> Forgotten(gone, l, m)]]
  BY DEF EndMove
<1>2. "models" \in Layers
  BY DEF Layers
<1>3. /\ \A m \in Modules : last'["models"][m] = IF m \in gone THEN None ELSE last["models"][m]
      /\ pure'["models"] = pure["models"] \ gone
      /\ \A m \in Modules : seen'["models"][m] \subseteq seen["models"][m]
  BY <1>1, <1>2 DEF Forgotten
<1>4. /\ graph'.mods = [m \in Modules |-> IF m \in gone THEN "absent" ELSE graph.mods[m]]
      /\ graph'.uses = graph.uses
  BY <1>1 DEF Dropped, SameModels
<1>5. \A m \in Modules : m \notin gone => Classes(m)' = Classes(m)
  BY <1>3 DEF Classes, SaidIn
<1>6. \A m \in Modules : last'["models"][m] # None => graph'.mods[m] = "indexed"
  BY <1>3, <1>4 DEF UsesOK
<1>7. \A u \in graph'.uses :
        /\ u[1].module \in Modules
        /\ u[1].module \in pure'["models"] =>
             /\ last'["models"][u[1].module] # None
             /\ UseOf(u, u[1].module, Classes(u[1].module)')
  BY <1>3, <1>4, <1>5 DEF UsesOK
<1>8. ASSUME NEW m \in Modules, last'["models"][m] # None, <<"core", CodeVersion>> \in seen'["models"][m],
             NEW u, UseOf(u, m, Classes(m)'), Deprecated(u[2])
      PROVE  u \in graph'.uses
  BY <1>3, <1>4, <1>5, <1>8 DEF UsesOK
<1>9. \A s : Deprecated(s)' <=> Deprecated(s)
  BY DEF Deprecated
<1>10. QED
  BY <1>6, <1>7, <1>8, <1>9 DEF UsesOK, UseOf

LEMMA UsesInit ==
  ASSUME Init
  PROVE  UsesOK
BY DEF Init, GraphInit, UsesOK, Layers

LEMMA UsesStep ==
  ASSUME ReadAsWritten, SoundInv, HistOK, GraphOK, UsesOK, GraphMove
  PROVE  UsesOK'
<1>1. CASE QuietStep
  BY <1>1, UsesStay DEF QuietStep
<1>2. ASSUME NEW l \in Layers \ {"models"}, NEW m \in Modules, LayerWritten(l, m),
             StubbedMods(graph, graph'), graph'.uses = graph.uses
      PROVE  UsesOK'
  <2>1. Afresh(l, m)
    BY <1>2, AfreshIs
  <2>2. \A x \in Modules : <<"models", x>> # <<l, m>> /\ "models" \in Layers
    BY DEF Layers
  <2>3. \A x \in Modules : /\ last'["models"][x] = last["models"][x]
                           /\ x \in pure'["models"] => x \in pure["models"]
                           /\ seen'["models"][x] \subseteq seen["models"][x]
    BY <2>1, <2>2 DEF Afresh
  <2>4. \A x \in Modules : graph.mods[x] = "indexed" => graph'.mods[x] = "indexed"
    BY <1>2 DEF StubbedMods
  <2>5. QED
    BY <1>2, <2>3, <2>4, UsesStay
<1>3. CASE ViewsMove
  <2>1. PICK m \in Modules : LayerWritten("views", m) /\ ViewsStep(m)
    BY <1>3 DEF ViewsMove
  <2>2. StubbedMods(graph, graph') /\ graph'.uses = graph.uses
    BY <2>1 DEF ViewsStep, ViewsAdded, SameModels
  <2>3. QED
    BY <1>2, <2>1, <2>2 DEF Layers
<1>4. CASE JsMove
  <2>1. PICK m \in Modules : LayerWritten("js", m) /\ JsStep(m)
    BY <1>4 DEF JsMove
  <2>2. StubbedMods(graph, graph') /\ graph'.uses = graph.uses
    BY <2>1 DEF JsStep, CompsAdded, PatchesAdded, SameModels
  <2>3. QED
    BY <1>2, <2>1, <2>2 DEF Layers
<1>5. CASE SheetsMove
  <2>1. BatchWritten(graph, graph') /\ UNCHANGED <<pure, seen>>
    BY <1>5 DEF SheetsMove
  <2>2. last'["models"] = last["models"]
    BY <1>5 DEF SheetsMove, HistOK, Layers
  <2>3. /\ graph'.uses = graph.uses
        /\ \A x \in Modules : graph.mods[x] = "indexed" => graph'.mods[x] = "indexed"
    BY <2>1 DEF BatchWritten, SameModels, StubbedMods
  <2>4. QED
    BY <2>1, <2>2, <2>3, UsesStay
<1>6. QED
  BY <1>1, <1>3, <1>4, <1>5, ModelsMoveUses, EndMoveUses, DeleteMoveUses DEF GraphMove

LEMMA UsageIs ==
  ASSUME SoundInv, HistOK, UsesOK
  PROVE  UsageIsExact
<1>1. ASSUME NEW u \in FindDeprecatedUsage, u[1].module \in Written("models") \cap pure["models"]
      PROVE  u \in Uses(u[1].module)
  <2>1. /\ u \in graph.uses /\ <<u[2], CodeVersion>> \in DOMAIN symbols
        /\ symbols[<<u[2], CodeVersion>>].status \in {"deprecated", "removed"}
    BY DEF FindDeprecatedUsage
  <2>2. UseOf(u, u[1].module, Classes(u[1].module))
    BY <1>1, <2>1 DEF UsesOK
  <2>3. PICK n : n = <<u[2], CodeVersion>>
    OBVIOUS
  <2>4. n[1] = u[2] /\ n[2] = CodeVersion
    BY <2>3
  <2>5. u[2] \in DOMAIN Table[CodeVersion] /\ symbols[n].status = Table[CodeVersion][u[2]].status
    BY <2>1, <2>3, <2>4 DEF SoundInv, SymbolsOK
  <2>6. Deprecated(u[2])
    BY <2>1, <2>3, <2>5 DEF Deprecated
  <2>7. QED
    BY <2>2, <2>6, UsesAre
<1>2. ASSUME NEW m \in Written("models"), Before("models", m, "core", CodeVersion), NEW u \in Uses(m)
      PROVE  u \in FindDeprecatedUsage
  <2>1. m \in Modules /\ last["models"][m] # None /\ <<"core", CodeVersion>> \in seen["models"][m]
    BY <1>2 DEF Written, Before
  <2>2. UseOf(u, m, Classes(m)) /\ Deprecated(u[2])
    BY UsesAre
  <2>3. u \in graph.uses
    BY <2>1, <2>2 DEF UsesOK
  <2>4. CodeVersion \in DOMAIN completed
    <3>1. \/ \E v \in DOMAIN completed : <<"core", CodeVersion>> = <<"core", v>>
          \/ <<"core", CodeVersion>> \in Places
      BY <2>1 DEF HistOK, Layers
    <3>2. QED
      BY <3>1 DEF Places, Layers
  <2>5. Whole(CodeVersion)
    BY <2>4 DEF SoundInv, CompletedOK
  <2>6. u[2] \in DOMAIN Table[CodeVersion] /\ Table[CodeVersion][u[2]].status \in {"deprecated", "removed"}
    BY <2>2 DEF Deprecated
  <2>7. PICK n : n = <<u[2], CodeVersion>>
    OBVIOUS
  <2>8. n \in DOMAIN symbols
    BY <2>5, <2>6, <2>7 DEF Whole
  <2>9. symbols[n].status = Table[CodeVersion][u[2]].status
    BY <2>7, <2>8 DEF SoundInv, SymbolsOK
  <2>10. QED
    BY <2>3, <2>6, <2>7, <2>8, <2>9 DEF FindDeprecatedUsage
<1>3. QED
  BY <1>1, <1>2 DEF UsageIsExact

\* Of a module indexed after the spec layer of its version every use of a symbol
\* that was deprecated or removed is reported, and never one that no source of it
\* has had, whatever was indexed, killed, collected or deleted in between
\* (_write_parse_result, index_core, delete_modules_scoped, _find_deprecated_usage).
THEOREM UsageIsAlwaysExact == Unambiguous /\ ReadAsWritten /\ Spec => []UsageIsExact
<1> SUFFICES ASSUME Unambiguous, ReadAsWritten PROVE Spec => []UsageIsExact
  OBVIOUS
<1> DEFINE Inv == SoundInv /\ RunsAreOK /\ GraphOK /\ HistOK /\ UsesOK
<1>1. Init => Inv
  BY SoundInit, GraphOKInit, HistInit, UsesInit
<1>2. Inv /\ [Next]_vars => Inv'
  <2> SUFFICES ASSUME Inv, [Next]_vars PROVE Inv'
    OBVIOUS
  <2>1. GraphMove
    BY MovesAre DEF GraphOK
  <2>2. QED
    BY <2>1, SoundStep, GraphOKStep, HistStep, UsesStep
<1>3. Inv => UsageIsExact
  BY UsageIs
<1>4. QED
  BY <1>1, <1>2, <1>3, PTL DEF Spec

-----------------------------------------------------------------------------
(* What was written before what                                            *)

Graphic == {"models", "views", "js"}
\* What was in the graph before m was last written in layer k, and still is: the
\* layer, the module and its content.
Placed(k, m) == {<<p[1], p[2], last[p[1]][p[2]]>> : p \in seen[k][m] \cap (Graphic \X Modules)}

\* What was written of m in layer k stays, and so does the history of it.
Stays(k, m) == last'[k][m] = last[k][m] /\ Placed(k, m)' \subseteq Placed(k, m)
\* m has nothing to do with the modules ms.
Clear(k, m, ms) == m \notin ms /\ \A e \in Placed(k, m)' : e[2] \notin ms

\* The moves of the history, as the layers of the graph see them.
Grown  == \A k \in Graphic, m \in Modules : Stays(k, m)
Shrunk(ms) == \A k \in Graphic, m \in Modules :
                last'[k][m] # None => Stays(k, m) /\ Clear(k, m, ms)
Placements(l, m) ==
  \A e \in Placed(l, m)' : /\ <<e[1], e[2]>> \in Graphic \X Modules /\ <<e[1], e[2]>> # <<l, m>>
                           /\ e[3] = last[e[1]][e[2]] /\ e[3] # None
Renewed(l, m) ==
  /\ \A k \in Graphic, x \in Modules : <<k, x>> # <<l, m>> => Stays(k, x)
  /\ last'[l][m] = disk[m] /\ disk[m] \in Contents[m] /\ disk[m] # None
  /\ Placements(l, m)

LEMMA RenewedIs ==
  ASSUME HistOK, NEW l \in Graphic, NEW m, Afresh(l, m)
  PROVE  Renewed(l, m)
<1>1. m \in Modules /\ last'[l][m] = disk[m] /\ disk[m] \in Contents[m] /\ disk[m] # None
  BY DEF Afresh
<1>2. ASSUME NEW k \in Graphic, NEW x \in Modules, <<k, x>> # <<l, m>>
      PROVE  Stays(k, x)
  <2>1. /\ last'[k][x] = last[k][x] /\ seen'[k][x] \subseteq seen[k][x]
        /\ last[l][m] # disk[m] => <<l, m>> \notin seen'[k][x]
    BY <1>2 DEF Afresh, Graphic, Layers
  <2>2. ASSUME NEW p \in seen'[k][x] \cap (Graphic \X Modules)
        PROVE  p \in seen[k][x] \cap (Graphic \X Modules) /\ last'[p[1]][p[2]] = last[p[1]][p[2]]
    <3>1. CASE p = <<l, m>>
      BY <1>1, <2>1, <2>2, <3>1
    <3>2. CASE p # <<l, m>>
      <4>1. p[1] \in Layers /\ p[2] \in Modules /\ <<p[1], p[2]>> # <<l, m>>
        BY <2>2, <3>2 DEF Graphic, Layers
      <4>2. QED
        BY <2>1, <2>2, <4>1 DEF Afresh
    <3>3. QED
      BY <3>1, <3>2
  <2>3. Placed(k, x)' \subseteq Placed(k, x)
    BY <2>2 DEF Placed
  <2>4. QED
    BY <2>1, <2>3 DEF Stays
<1>3. ASSUME NEW p \in seen'[l][m] \cap (Graphic \X Modules)
      PROVE  p # <<l, m>> /\ last'[p[1]][p[2]] = last[p[1]][p[2]] /\ last[p[1]][p[2]] # None
  <2>1. p[1] \in Graphic /\ p[2] \in Modules /\ p = <<p[1], p[2]>> /\ p[1] # "core"
    BY <1>3 DEF Graphic
  <2>2. \A v : p # <<"core", v>>
    BY <2>1
  <2>3. p # <<l, m>> /\ last[p[1]][p[2]] # None
    BY <1>3, <2>2 DEF Afresh
  <2>4. p[1] \in Layers
    BY <2>1 DEF Graphic, Layers
  <2>5. last'[p[1]][p[2]] = last[p[1]][p[2]]
    BY <2>1, <2>3, <2>4 DEF Afresh
  <2>6. QED
    BY <2>3, <2>5
<1>4. Placements(l, m)
  <2>1. SUFFICES ASSUME NEW e \in Placed(l, m)'
                 PROVE  /\ <<e[1], e[2]>> \in Graphic \X Modules /\ <<e[1], e[2]>> # <<l, m>>
                        /\ e[3] = last[e[1]][e[2]] /\ e[3] # None
    BY DEF Placements
  <2>2. PICK p \in seen'[l][m] \cap (Graphic \X Modules) : e = <<p[1], p[2], last'[p[1]][p[2]]>>
    BY DEF Placed
  <2>3. e[1] = p[1] /\ e[2] = p[2] /\ e[3] = last'[p[1]][p[2]] /\ p = <<p[1], p[2]>>
    BY <2>2
  <2>4. QED
    BY <1>3, <2>2, <2>3
<1>5. QED
  BY <1>1, <1>2, <1>4 DEF Renewed

LEMMA QuietGrows ==
  ASSUME UNCHANGED <<last, seen>>
  PROVE  Grown
BY DEF Grown, Stays, Placed

LEMMA SheetsGrow ==
  ASSUME HistOK, SheetsMove
  PROVE  Grown
<1>1. PICK S \in SUBSET Modules :
        last' = [last EXCEPT !["sheets"] = [m \in Modules |-> IF m \in S THEN disk[m] ELSE @[m]]]
  BY DEF SheetsMove
<1>2. \A k \in Graphic : last'[k] = last[k]
  BY <1>1 DEF HistOK, Graphic, Layers
<1>3. UNCHANGED seen
  BY DEF SheetsMove
<1>4. ASSUME NEW k \in Graphic, NEW m \in Modules
      PROVE  Stays(k, m)
  <2>1. \A p \in Graphic \X Modules : last'[p[1]][p[2]] = last[p[1]][p[2]]
    BY <1>2
  <2>2. QED
    BY <1>2, <1>3, <2>1 DEF Stays, Placed
<1>5. QED
  BY <1>4 DEF Grown

LEMMA EndShrinks ==
  ASSUME HistOK, NEW gone \in SUBSET Modules,
         last' = [l \in Layers |-> [m \in Modules |-> IF m \in gone THEN None ELSE last[l][m]]],
         seen' = [l \in Layers |-> [m \in Modules |-> Forgotten(gone, l, m)]]
  PROVE  Shrunk(gone)
<1>1. SUFFICES ASSUME NEW k \in Graphic, NEW m \in Modules, last'[k][m] # None
               PROVE  Stays(k, m) /\ Clear(k, m, gone)
  BY DEF Shrunk
<1>2. k \in Layers /\ m \notin gone /\ last'[k][m] = last[k][m]
  BY <1>1 DEF Graphic, Layers
<1>3. seen'[k][m] = Forgotten(gone, k, m)
  BY <1>2
<1>4. ASSUME NEW p \in seen'[k][m] \cap (Graphic \X Modules)
      PROVE  /\ p \in seen[k][m] \cap (Graphic \X Modules) /\ p[2] \notin gone
             /\ last'[p[1]][p[2]] = last[p[1]][p[2]]
  <2>1. p \in seen[k][m] /\ p[2] \notin gone /\ p[1] \in Layers /\ p[2] \in Modules
    BY <1>2, <1>3, <1>4 DEF Forgotten, Graphic, Layers
  <2>2. QED
    BY <1>4, <2>1
<1>5. Placed(k, m)' \subseteq Placed(k, m)
  BY <1>4 DEF Placed
<1>6. ASSUME NEW e \in Placed(k, m)' PROVE e[2] \notin gone
  <2>1. PICK p \in seen'[k][m] \cap (Graphic \X Modules) : e = <<p[1], p[2], last'[p[1]][p[2]]>>
    BY <1>6 DEF Placed
  <2>2. e[2] = p[2]
    BY <2>1
  <2>3. QED
    BY <1>4, <2>1, <2>2
<1>7. QED
  BY <1>2, <1>5, <1>6 DEF Stays, Clear

LEMMA DeleteShrinks ==
  ASSUME HistOK, NEW r \in Repos,
         last' = [l \in Layers |-> [m \in Modules |->
                    IF m \in Home(r) /\ l # "sheets" THEN None ELSE last[l][m]]],
         seen' = [l \in Layers |-> [m \in Modules |->
                    IF m \in Home(r) THEN {} ELSE Forgotten(Home(r), l, m)]]
  PROVE  Shrunk(Home(r))
<1>1. SUFFICES ASSUME NEW k \in Graphic, NEW m \in Modules, last'[k][m] # None
               PROVE  Stays(k, m) /\ Clear(k, m, Home(r))
  BY DEF Shrunk
<1>2. k \in Layers /\ k # "sheets" /\ m \notin Home(r) /\ last'[k][m] = last[k][m]
  BY <1>1 DEF Graphic, Layers
<1>3. seen'[k][m] = Forgotten(Home(r), k, m)
  BY <1>2
<1>4. ASSUME NEW p \in seen'[k][m] \cap (Graphic \X Modules)
      PROVE  /\ p \in seen[k][m] \cap (Graphic \X Modules) /\ p[2] \notin Home(r)
             /\ last'[p[1]][p[2]] = last[p[1]][p[2]]
  <2>1. p \in seen[k][m] /\ p[2] \notin Home(r) /\ p[1] \in Layers /\ p[2] \in Modules
    BY <1>2, <1>3, <1>4 DEF Forgotten, Graphic, Layers
  <2>2. QED
    BY <1>4, <2>1
<1>5. Placed(k, m)' \subseteq Placed(k, m)
  BY <1>4 DEF Placed
<1>6. ASSUME NEW e \in Placed(k, m)' PROVE e[2] \notin Home(r)
  <2>1. PICK p \in seen'[k][m] \cap (Graphic \X Modules) : e = <<p[1], p[2], last'[p[1]][p[2]]>>
    BY <1>6 DEF Placed
  <2>2. e[2] = p[2]
    BY <2>1
  <2>3. QED
    BY <1>4, <2>1, <2>2
<1>7. QED
  BY <1>2, <1>5, <1>6 DEF Stays, Clear

-----------------------------------------------------------------------------
(* What stays of a module that is not written itself                       *)

\* The class d of m is in g, with edges to the classes written before it (B).
ClassAt(g, m, d, B) ==
  /\ ModelId(m, d) \in DOMAIN g.models /\ ~g.models[ModelId(m, d)].unresolved
  /\ <<"Model", ModelId(m, d)>> \in g.definedIn
  /\ IsDefinition(d) => g.models[ModelId(m, d)].def
  /\ \A n \in DOMAIN d.fields : Member(m, d, n) \in DOMAIN g.fields
  /\ \A n \in DOMAIN d.methods : Member(m, d, n) \in DOMAIN g.methods
  /\ \A e \in B : e[1] = "models" => \A c \in Sources[e[2]][e[3]].classes :
       /\ c.name \in d.inherit \ {d.name} => <<ModelId(m, d), ModelId(e[2], c)>> \in g.inherits
       /\ \A x \in d.delegates : x[1] = c.name =>
            <<ModelId(m, d), x[2], ModelId(e[2], c)>> \in g.delegates
\* The content s of m is.
ModelsAt(g, m, s, B) ==
  /\ g.mods[m] = "indexed"
  /\ \A e \in B : (e[1] = "models" /\ e[2] \in Sources[m][s].depends) => <<m, e[2]>> \in g.depends
  /\ \A d \in Sources[m][s].classes : ClassAt(g, m, d, B)

\* What is in g of modules other than ms is in h.
ModelsSurvive(g, h, ms) ==
  /\ \A m \in Modules \ ms : g.mods[m] = "indexed" => h.mods[m] = "indexed"
  /\ \A e \in g.depends : e[1] \notin ms /\ e[2] \notin ms => e \in h.depends
  /\ \A x \in DOMAIN g.models : x.module \notin ms =>
       /\ x \in DOMAIN h.models
       /\ ~g.models[x].unresolved => ~h.models[x].unresolved
       /\ g.models[x].def => h.models[x].def
       /\ <<"Model", x>> \in g.definedIn => <<"Model", x>> \in h.definedIn
  /\ \A x \in DOMAIN g.fields : x.module \notin ms => x \in DOMAIN h.fields
  /\ \A x \in DOMAIN g.methods : x.module \notin ms => x \in DOMAIN h.methods
  /\ \A e \in g.inherits : e[1].module \notin ms /\ e[2].module \notin ms => e \in h.inherits
  /\ \A e \in g.delegates : e[1].module \notin ms /\ e[3].module \notin ms => e \in h.delegates

LEMMA ClassStays ==
  ASSUME NEW g, NEW h, NEW ms, NEW m \in Modules, m \notin ms, NEW d, NEW B, NEW C,
         ClassAt(g, m, d, B), C \subseteq B, \A e \in C : e[2] \notin ms, ModelsSurvive(g, h, ms)
  PROVE  ClassAt(h, m, d, C)
<1>1. ModelId(m, d).module = m
  BY DEF ModelId
<1>2. /\ ModelId(m, d) \in DOMAIN h.models /\ ~h.models[ModelId(m, d)].unresolved
      /\ <<"Model", ModelId(m, d)>> \in h.definedIn
      /\ IsDefinition(d) => h.models[ModelId(m, d)].def
  BY <1>1 DEF ClassAt, ModelsSurvive
<1>3. \A n : Member(m, d, n).module = m
  BY DEF Member
<1>4. /\ \A n \in DOMAIN d.fields : Member(m, d, n) \in DOMAIN h.fields
      /\ \A n \in DOMAIN d.methods : Member(m, d, n) \in DOMAIN h.methods
  BY <1>3 DEF ClassAt, ModelsSurvive
<1>5. ASSUME NEW e \in C, e[1] = "models", NEW c \in Sources[e[2]][e[3]].classes
      PROVE  /\ c.name \in d.inherit \ {d.name} => <<ModelId(m, d), ModelId(e[2], c)>> \in h.inherits
             /\ \A x \in d.delegates : x[1] = c.name =>
                  <<ModelId(m, d), x[2], ModelId(e[2], c)>> \in h.delegates
  <2>1. PICK a, b : a = ModelId(m, d) /\ b = ModelId(e[2], c)
    OBVIOUS
  <2>2. a.module \notin ms /\ b.module \notin ms
    BY <1>5, <2>1 DEF ModelId
  <2>3. /\ c.name \in d.inherit \ {d.name} => <<a, b>> \in g.inherits
        /\ \A x \in d.delegates : x[1] = c.name => <<a, x[2], b>> \in g.delegates
    BY <1>5, <2>1 DEF ClassAt
  <2>4. <<a, b>> \in g.inherits => <<a, b>> \in h.inherits
    BY <2>2 DEF ModelsSurvive
  <2>5. \A f : <<a, f, b>> \in g.delegates => <<a, f, b>> \in h.delegates
    BY <2>2 DEF ModelsSurvive
  <2>6. QED
    BY <2>1, <2>3, <2>4, <2>5
<1>6. QED
  BY <1>2, <1>4, <1>5 DEF ClassAt

LEMMA ModelsStay ==
  ASSUME NEW g, NEW h, NEW ms, NEW m \in Modules, m \notin ms, NEW s, NEW B, NEW C,
         ModelsAt(g, m, s, B), C \subseteq B, \A e \in C : e[2] \notin ms, ModelsSurvive(g, h, ms)
  PROVE  ModelsAt(h, m, s, C)
<1>1. \A d \in Sources[m][s].classes : ClassAt(h, m, d, C)
  BY ClassStays DEF ModelsAt
<1>2. h.mods[m] = "indexed"
  BY DEF ModelsAt, ModelsSurvive
<1>3. ASSUME NEW e \in C, e[1] = "models", e[2] \in Sources[m][s].depends
      PROVE  <<m, e[2]>> \in h.depends
  <2>1. <<m, e[2]>> \in g.depends /\ e[2] \notin ms
    BY <1>3 DEF ModelsAt
  <2>2. QED
    BY <2>1 DEF ModelsSurvive
<1>4. QED
  BY <1>1, <1>2, <1>3 DEF ModelsAt

\* The view v of m is in g, below the views written before it, if they are not late.
ViewAt(g, m, v, B, late) ==
  /\ \A x \in DOMAIN g.views : Key(x) = Key(v) => Mine(g, m, x) \/ g.views[x].unresolved
  /\ \E x \in DOMAIN g.views :
       /\ Key(x) = Key(v) /\ Mine(g, m, x)
       /\ \A e \in B : e[1] = "models" => \A c \in Sources[e[2]][e[3]].classes :
            c.name = v.model => <<x, ModelId(e[2], c)>> \in g.targets
       /\ \A e \in B : e[1] = "views" => \A b \in Sources[e[2]][e[3]].views :
            (Key(b) = BaseKey(v) /\ Key(b) \notin late) =>
              \E z : <<x, z>> \in g.extends /\ Key(z) = Key(b)
ViewsAt(g, m, s, B, late) == \A v \in Sources[m][s].views : ViewAt(g, m, v, B, late)

\* What is in g of modules other than ms is in h, but for the keys K.
ViewsSurvive(g, h, ms, K) ==
  /\ \A x \in DOMAIN g.views : (g.views[x].module \notin ms /\ Key(x) \notin K) =>
       /\ x \in DOMAIN h.views /\ h.views[x] = g.views[x]
       /\ <<"View", x>> \in g.definedIn => <<"View", x>> \in h.definedIn
  /\ \A x \in DOMAIN h.views : Key(x) \notin K =>
       (x \in DOMAIN g.views /\ h.views[x] = g.views[x]) \/ h.views[x].unresolved
  /\ \A e \in g.targets : (g.views[e[1]].module \notin ms /\ e[2].module \notin ms) => e \in h.targets
  /\ \A e \in g.extends :
       (g.views[e[1]].module \notin ms /\ g.views[e[2]].module \notin ms) => e \in h.extends
\* The bases that C promises do not go with ms.
Firm(g, C, late, ms) ==
  \A e \in C : e[1] = "views" => \A b \in Sources[e[2]][e[3]].views : Key(b) \notin late =>
    \A z \in DOMAIN g.views : Key(z) = Key(b) => g.views[z].module \notin ms

LEMMA ViewStays ==
  ASSUME NEW g, NEW h, NEW ms, NEW K, NEW m \in Modules, m \notin ms, NEW v, Key(v) \notin K,
         NEW B, NEW C, NEW late, NEW later, ViewAt(g, m, v, B, late),
         C \subseteq B, late \subseteq later, \A e \in C : e[2] \notin ms,
         ViewsSurvive(g, h, ms, K), Firm(g, C, late, ms),
         g.extends \subseteq (DOMAIN g.views) \X (DOMAIN g.views)
  PROVE  ViewAt(h, m, v, C, later)
<1>1. PICK x \in DOMAIN g.views :
        /\ Key(x) = Key(v) /\ Mine(g, m, x)
        /\ \A e \in B : e[1] = "models" => \A c \in Sources[e[2]][e[3]].classes :
             c.name = v.model => <<x, ModelId(e[2], c)>> \in g.targets
        /\ \A e \in B : e[1] = "views" => \A b \in Sources[e[2]][e[3]].views :
             (Key(b) = BaseKey(v) /\ Key(b) \notin late) =>
               \E z : <<x, z>> \in g.extends /\ Key(z) = Key(b)
  BY DEF ViewAt
<1>2. g.views[x].module = m /\ Key(x) \notin K
  BY <1>1 DEF Mine
<1>3. x \in DOMAIN h.views /\ Mine(h, m, x)
  BY <1>1, <1>2 DEF Mine, ViewsSurvive
<1>4. ASSUME NEW e \in C, e[1] = "models", NEW c \in Sources[e[2]][e[3]].classes, c.name = v.model
      PROVE  <<x, ModelId(e[2], c)>> \in h.targets
  <2>1. PICK b : b = ModelId(e[2], c)
    OBVIOUS
  <2>2. <<x, b>> \in g.targets /\ b.module \notin ms
    BY <1>1, <1>4, <2>1 DEF ModelId
  <2>3. <<x, b>> \in h.targets
    BY <1>2, <2>2 DEF ViewsSurvive
  <2>4. QED
    BY <2>1, <2>3
<1>5. ASSUME NEW e \in C, e[1] = "views", NEW b \in Sources[e[2]][e[3]].views,
             Key(b) = BaseKey(v), Key(b) \notin later
      PROVE  \E z : <<x, z>> \in h.extends /\ Key(z) = Key(b)
  <2>1. PICK z : <<x, z>> \in g.extends /\ Key(z) = Key(b)
    BY <1>1, <1>5
  <2>2. g.views[z].module \notin ms
    BY <1>5, <2>1 DEF Firm
  <2>3. <<x, z>> \in h.extends
    BY <1>2, <2>1, <2>2 DEF ViewsSurvive
  <2>4. QED
    BY <2>1, <2>3
<1>6. ASSUME NEW y \in DOMAIN h.views, Key(y) = Key(v)
      PROVE  Mine(h, m, y) \/ h.views[y].unresolved
  <2>1. CASE h.views[y].unresolved
    BY <2>1
  <2>2. CASE ~h.views[y].unresolved
    <3>1. y \in DOMAIN g.views /\ h.views[y] = g.views[y]
      BY <1>6, <2>2 DEF ViewsSurvive
    <3>2. Mine(g, m, y)
      BY <1>6, <2>2, <3>1 DEF ViewAt
    <3>3. g.views[y].module \notin ms /\ Key(y) \notin K
      BY <1>6, <3>2 DEF Mine
    <3>4. QED
      BY <3>1, <3>2, <3>3 DEF Mine, ViewsSurvive
  <2>3. QED
    BY <2>1, <2>2
<1>7. \A e \in C : e[1] = "models" => \A c \in Sources[e[2]][e[3]].classes :
        c.name = v.model => <<x, ModelId(e[2], c)>> \in h.targets
  BY <1>4
<1>8. \A e \in C : e[1] = "views" => \A b \in Sources[e[2]][e[3]].views :
        (Key(b) = BaseKey(v) /\ Key(b) \notin later) =>
          \E z : <<x, z>> \in h.extends /\ Key(z) = Key(b)
  BY <1>5
<1>9. QED
  BY <1>1, <1>3, <1>6, <1>7, <1>8 DEF ViewAt

\* The components and patches of the content s of m are in g, with edges to the
\* models and components written before them.
CompAt(g, m, c, B) ==
  /\ CompId(m, c) \in DOMAIN g.comps /\ ~g.comps[CompId(m, c)].unresolved
  /\ \A e \in B : e[1] = "models" => \A d \in Sources[e[2]][e[3]].classes :
       d.name = c.bound => <<CompId(m, c), ModelId(e[2], d)>> \in g.bound
PatchAt(g, m, s, p, B) ==
  /\ PatchId(m, p) \in g.patches
  /\ \A c \in Sources[m][s].comps : c.name = p.target => <<PatchId(m, p), CompId(m, c)>> \in g.patchEdges
  /\ \A e \in B : e[1] = "js" => \A c \in Sources[e[2]][e[3]].comps :
       c.name = p.target => <<PatchId(m, p), CompId(e[2], c)>> \in g.patchEdges
JsAt(g, m, s, B) ==
  /\ \A c \in Sources[m][s].comps : CompAt(g, m, c, B)
  /\ \A p \in Sources[m][s].patches : PatchAt(g, m, s, p, B)

JsSurvive(g, h, ms) ==
  /\ \A x \in DOMAIN g.comps : x.module \notin ms =>
       x \in DOMAIN h.comps /\ (~g.comps[x].unresolved => ~h.comps[x].unresolved)
  /\ \A e \in g.bound : e[1].module \notin ms /\ e[2].module \notin ms => e \in h.bound
  /\ \A x \in g.patches : x.module \notin ms => x \in h.patches
  /\ \A e \in g.patchEdges : e[1].module \notin ms /\ e[2].module \notin ms => e \in h.patchEdges

LEMMA JsStays ==
  ASSUME NEW g, NEW h, NEW ms, NEW m \in Modules, m \notin ms, NEW s, NEW B, NEW C,
         JsAt(g, m, s, B), C \subseteq B, \A e \in C : e[2] \notin ms, JsSurvive(g, h, ms)
  PROVE  JsAt(h, m, s, C)
<1>1. /\ \A c : CompId(m, c).module = m /\ \A p : PatchId(m, p).module = m
      /\ \A e \in C : \A c : CompId(e[2], c).module \notin ms /\ ModelId(e[2], c).module \notin ms
  BY DEF CompId, PatchId, ModelId
<1>2. ASSUME NEW c \in Sources[m][s].comps PROVE CompAt(h, m, c, C)
  <2>1. CompAt(g, m, c, B)
    BY DEF JsAt
  <2>2. PICK a : a = CompId(m, c) /\ a.module = m
    BY <1>1
  <2>3. a \in DOMAIN h.comps /\ ~h.comps[a].unresolved
    BY <2>1, <2>2 DEF CompAt, JsSurvive
  <2>4. ASSUME NEW e \in C, e[1] = "models", NEW d \in Sources[e[2]][e[3]].classes, d.name = c.bound
        PROVE  <<a, ModelId(e[2], d)>> \in h.bound
    <3>1. PICK b : b = ModelId(e[2], d) /\ b.module \notin ms
      BY <1>1
    <3>2. <<a, b>> \in g.bound
      BY <2>1, <2>2, <2>4, <3>1 DEF CompAt
    <3>3. QED
      BY <2>2, <3>1, <3>2 DEF JsSurvive
  <2>5. QED
    BY <2>2, <2>3, <2>4 DEF CompAt
<1>3. ASSUME NEW p \in Sources[m][s].patches PROVE PatchAt(h, m, s, p, C)
  <2>1. PatchAt(g, m, s, p, B)
    BY DEF JsAt
  <2>2. PICK a : a = PatchId(m, p) /\ a.module = m
    BY <1>1
  <2>3. a \in h.patches
    BY <2>1, <2>2 DEF PatchAt, JsSurvive
  <2>4. ASSUME NEW c \in Sources[m][s].comps, c.name = p.target
        PROVE  <<a, CompId(m, c)>> \in h.patchEdges
    <3>1. PICK b : b = CompId(m, c) /\ b.module \notin ms
      BY <1>1
    <3>2. <<a, b>> \in g.patchEdges
      BY <2>1, <2>2, <2>4, <3>1 DEF PatchAt
    <3>3. QED
      BY <2>2, <3>1, <3>2 DEF JsSurvive
  <2>5. ASSUME NEW e \in C, e[1] = "js", NEW c \in Sources[e[2]][e[3]].comps, c.name = p.target
        PROVE  <<a, CompId(e[2], c)>> \in h.patchEdges
    <3>1. PICK b : b = CompId(e[2], c) /\ b.module \notin ms
      BY <1>1
    <3>2. <<a, b>> \in g.patchEdges
      BY <2>1, <2>2, <2>5, <3>1 DEF PatchAt
    <3>3. QED
      BY <2>2, <3>1, <3>2 DEF JsSurvive
  <2>6. QED
    BY <2>2, <2>3, <2>4, <2>5 DEF PatchAt
<1>4. QED
  BY <1>2, <1>3 DEF JsAt

-----------------------------------------------------------------------------
(* What each move leaves                                                   *)

Survive(g, h, ms, K) == ModelsSurvive(g, h, ms) /\ ViewsSurvive(g, h, ms, K) /\ JsSurvive(g, h, ms)

LEMMA SameViewsSurvive ==
  ASSUME NEW g, NEW h, NEW ms, SameViews(g, h),
         \A x \in DOMAIN g.views : (g.views[x].module \notin ms /\ <<"View", x>> \in g.definedIn) =>
           <<"View", x>> \in h.definedIn
  PROVE  ViewsSurvive(g, h, ms, {})
BY DEF ViewsSurvive, SameViews

LEMMA SameModelsSurvive ==
  ASSUME NEW g, NEW h, NEW ms, SameModels(g, h),
         \A m \in Modules \ ms : g.mods[m] = "indexed" => h.mods[m] = "indexed",
         \A e \in g.depends : e[1] \notin ms /\ e[2] \notin ms => e \in h.depends,
         \A x : (x.module \notin ms /\ <<"Model", x>> \in g.definedIn) => <<"Model", x>> \in h.definedIn
  PROVE  ModelsSurvive(g, h, ms)
BY DEF ModelsSurvive, SameModels

LEMMA SameJsSurvive ==
  ASSUME NEW g, NEW h, NEW ms, SameJs(g, h)
  PROVE  JsSurvive(g, h, ms)
BY DEF JsSurvive, SameJs

LEMMA StubbedStays ==
  ASSUME NEW g, NEW h, StubbedMods(g, h)
  PROVE  \A m \in Modules : g.mods[m] = "indexed" => h.mods[m] = "indexed"
BY DEF StubbedMods

LEMMA ModelsMoveLeaves ==
  ASSUME NEW m \in Modules, ModelsStep(m)
  PROVE  Survive(graph, graph', {}, {})
<1>1. PICK c, D : c = Parse(m) /\ D = ToSet(c.models)
  OBVIOUS
<1>2. /\ graph'.mods = [y \in Modules |-> IF y = m THEN "indexed"
                                      ELSE IF y \in c.depends /\ graph.mods[y] = "absent" THEN "stub"
                                      ELSE graph.mods[y]]
      /\ graph'.depends = graph.depends \cup {m} \X c.depends
      /\ ModelsAdded(graph, graph', m, D)
  BY <1>1 DEF ModelsStep
<1>3. /\ SameViews(graph, graph') /\ SameJs(graph, graph') /\ graph.definedIn \subseteq graph'.definedIn
      /\ DOMAIN graph.models \subseteq DOMAIN graph'.models
      /\ graph.inherits \subseteq graph'.inherits /\ graph.delegates \subseteq graph'.delegates
      /\ DOMAIN graph.fields \subseteq DOMAIN graph'.fields
      /\ DOMAIN graph.methods \subseteq DOMAIN graph'.methods
  BY <1>2 DEF ModelsAdded
<1>4. ASSUME NEW x \in DOMAIN graph.models
      PROVE  /\ ~graph.models[x].unresolved => ~graph'.models[x].unresolved
             /\ graph.models[x].def => graph'.models[x].def
  BY <1>2 DEF ModelsAdded
<1>5. \A y \in Modules : graph.mods[y] = "indexed" => graph'.mods[y] = "indexed"
  BY <1>2
<1>6. ModelsSurvive(graph, graph', {})
  BY <1>2, <1>3, <1>4, <1>5 DEF ModelsSurvive
<1>7. QED
  BY <1>3, <1>6, SameViewsSurvive, SameJsSurvive DEF Survive

LEMMA ViewsMoveLeaves ==
  ASSUME NEW m \in Modules, ViewsStep(m), NEW K, K = Keys(ToSet(Parse(m).views))
  PROVE  Survive(graph, graph', {}, K)
<1>1. PICK D : D = ToSet(Parse(m).views) /\ K = Keys(D)
  OBVIOUS
<1>2. /\ StubbedMods(graph, graph') /\ graph'.depends = graph.depends
      /\ ViewsAdded(graph, graph', m, D)
  BY <1>1 DEF ViewsStep
<1>3. /\ SameModels(graph, graph') /\ SameJs(graph, graph') /\ graph.definedIn \subseteq graph'.definedIn
      /\ DOMAIN graph.views \subseteq DOMAIN graph'.views
      /\ \A x \in DOMAIN graph.views : Key(x) \notin Keys(D) => graph'.views[x] = graph.views[x]
      /\ graph.targets \subseteq graph'.targets /\ graph.extends \subseteq graph'.extends
  BY <1>2 DEF ViewsAdded
<1>4. ASSUME NEW x \in DOMAIN graph'.views, Key(x) \notin K
      PROVE  (x \in DOMAIN graph.views /\ graph'.views[x] = graph.views[x]) \/ graph'.views[x].unresolved
  <2>1. CASE x \in DOMAIN graph.views
    BY <1>1, <1>3, <1>4, <2>1
  <2>2. CASE x \notin DOMAIN graph.views
    <3>1. Mine(graph', m, x) \/ IsStub(graph', x)
      BY <1>2, <2>2, <1>4 DEF ViewsAdded
    <3>2. ~Mine(graph', m, x)
      BY <1>1, <1>2, <1>4, <2>2, GraphAssumption DEF ViewsAdded, Mine
    <3>3. QED
      BY <3>1, <3>2 DEF IsStub
  <2>3. QED
    BY <2>1, <2>2
<1>5. ViewsSurvive(graph, graph', {}, K)
  BY <1>1, <1>3, <1>4 DEF ViewsSurvive
<1>6. QED
  BY <1>2, <1>3, <1>5, StubbedStays, SameModelsSurvive, SameJsSurvive DEF Survive

LEMMA JsMoveLeaves ==
  ASSUME NEW m \in Modules, JsStep(m)
  PROVE  Survive(graph, graph', {}, {})
<1>1. PICK C, P, w : /\ StubbedMods(graph, graph') /\ graph'.depends = graph.depends
                     /\ CompsAdded(graph, w, m, C) /\ PatchesAdded(w, graph', m, P)
  BY DEF JsStep
<1>2. /\ SameModels(graph, w) /\ SameViews(graph, w) /\ graph.definedIn \subseteq w.definedIn
      /\ w.patches = graph.patches /\ w.patchEdges = graph.patchEdges
      /\ DOMAIN graph.comps \subseteq DOMAIN w.comps /\ graph.bound \subseteq w.bound
  BY <1>1 DEF CompsAdded
<1>3. ASSUME NEW x \in DOMAIN graph.comps, ~graph.comps[x].unresolved
      PROVE  ~w.comps[x].unresolved
  BY <1>1, <1>3 DEF CompsAdded
<1>4. /\ SameModels(w, graph') /\ SameViews(w, graph') /\ w.definedIn \subseteq graph'.definedIn
      /\ w.patches \subseteq graph'.patches /\ w.patchEdges \subseteq graph'.patchEdges
      /\ DOMAIN w.comps \subseteq DOMAIN graph'.comps /\ graph'.bound = w.bound
      /\ \A x \in DOMAIN w.comps : graph'.comps[x] = w.comps[x]
  BY <1>1 DEF PatchesAdded
<1>5. SameModels(graph, graph') /\ SameViews(graph, graph') /\ graph.definedIn \subseteq graph'.definedIn
  BY <1>2, <1>4 DEF SameModels, SameViews
<1>6. JsSurvive(graph, graph', {})
  BY <1>2, <1>3, <1>4 DEF JsSurvive
<1>7. QED
  BY <1>1, <1>5, <1>6, StubbedStays, SameModelsSurvive, SameViewsSurvive DEF Survive

LEMMA SheetsMoveLeaves ==
  ASSUME BatchWritten(graph, graph')
  PROVE  Survive(graph, graph', {}, {})
BY StubbedStays, SameModelsSurvive, SameViewsSurvive, SameJsSurvive DEF Survive, BatchWritten

LEMMA QuietLeaves ==
  ASSUME UNCHANGED graph
  PROVE  Survive(graph, graph', {}, {})
BY SameModelsSurvive, SameViewsSurvive, SameJsSurvive
   DEF Survive, SameModels, SameViews, SameJs

LEMMA EndMoveLeaves ==
  ASSUME NEW gone \in SUBSET Modules, Dropped(graph, graph', gone)
  PROVE  Survive(graph, graph', gone, {})
<1>1. /\ SameModels(graph, graph') /\ SameViews(graph, graph') /\ SameJs(graph, graph')
      /\ \A m \in Modules \ gone : graph.mods[m] = "indexed" => graph'.mods[m] = "indexed"
      /\ \A e \in graph.depends : e[1] \notin gone /\ e[2] \notin gone => e \in graph'.depends
      /\ graph'.definedIn = {x \in graph.definedIn : ModuleOfNode(graph, x) \notin gone}
  BY DEF Dropped
<1>2. /\ \A x : ModuleOfNode(graph, <<"Model", x>>) = x.module
      /\ \A x : ModuleOfNode(graph, <<"View", x>>) = graph.views[x].module
  BY DEF ModuleOfNode
<1>3. QED
  BY <1>1, <1>2, SameModelsSurvive, SameViewsSurvive, SameJsSurvive DEF Survive

LEMMA DeleteMoveLeaves ==
  ASSUME NEW ms, Deleted(graph, graph', ms)
  PROVE  Survive(graph, graph', ms, {})
<1>1. /\ \A x : ModuleOfNode(graph, <<"Model", x>>) = x.module
      /\ \A x : ModuleOfNode(graph, <<"View", x>>) = graph.views[x].module
  BY DEF ModuleOfNode
<1>2. /\ \A x : <<"Model", x>> \in graph.definedIn /\ x.module \notin ms =>
                <<"Model", x>> \in graph'.definedIn
      /\ \A x : <<"View", x>> \in graph.definedIn /\ graph.views[x].module \notin ms =>
                <<"View", x>> \in graph'.definedIn
  BY <1>1 DEF Deleted
<1>3. ModelsSurvive(graph, graph', ms)
  BY <1>2 DEF ModelsSurvive, Deleted
<1>4. ViewsSurvive(graph, graph', ms, {})
  BY <1>2 DEF ViewsSurvive, Deleted
<1>5. JsSurvive(graph, graph', ms)
  BY DEF JsSurvive, Deleted
<1>6. QED
  BY <1>3, <1>4, <1>5 DEF Survive

-----------------------------------------------------------------------------
(* What is in the graph of every module that was written                   *)

ModelsIn(m) == last["models"][m] # None => ModelsAt(graph, m, last["models"][m], Placed("models", m))
ViewsIn(m)  == last["views"][m] # None =>
                 ViewsAt(graph, m, last["views"][m], Placed("views", m), overtaken)
JsIn(m)     == last["js"][m] # None => JsAt(graph, m, last["js"][m], Placed("js", m))
StubsLate   == \A x \in DOMAIN graph.views : graph.views[x].unresolved => Key(x) \in overtaken

LEMMA PlacedIs ==
  ASSUME HistOK, NEW k \in Layers, NEW m \in Modules, NEW e \in Placed(k, m)
  PROVE  /\ e[1] \in Graphic /\ e[1] \in Layers /\ e[2] \in Modules
         /\ e[3] = last[e[1]][e[2]] /\ e[3] # None /\ e[3] \in Contents[e[2]]
<1>1. PICK p \in seen[k][m] \cap (Graphic \X Modules) : e = <<p[1], p[2], last[p[1]][p[2]]>>
  BY DEF Placed
<1>2. p[1] \in Graphic /\ p[1] \in Layers /\ p[1] # "core" /\ p[2] \in Modules /\ p = <<p[1], p[2]>>
  BY <1>1 DEF Graphic, Layers
<1>3. \A v : p # <<"core", v>>
  BY <1>2
<1>4. last[p[1]][p[2]] # None
  BY <1>1, <1>3 DEF HistOK
<1>5. last[p[1]][p[2]] \in Contents[p[2]]
  BY <1>2, <1>4 DEF HistOK
<1>6. e[1] = p[1] /\ e[2] = p[2] /\ e[3] = last[p[1]][p[2]]
  BY <1>1
<1>7. QED
  BY <1>2, <1>4, <1>5, <1>6

\* A module that is not written.
LEMMA ModelsInKept ==
  ASSUME NEW ms, NEW m \in Modules, ModelsIn(m), ModelsSurvive(graph, graph', ms),
         last'["models"][m] # None => Stays("models", m) /\ Clear("models", m, ms)
  PROVE  ModelsIn(m)'
<1>1. SUFFICES ASSUME last'["models"][m] # None
               PROVE  ModelsAt(graph', m, last'["models"][m], Placed("models", m)')
  BY DEF ModelsIn
<1>2. PICK B, C : B = Placed("models", m) /\ C = Placed("models", m)'
  OBVIOUS
<1>3. /\ last'["models"][m] = last["models"][m] /\ C \subseteq B
      /\ m \notin ms /\ \A e \in C : e[2] \notin ms
  BY <1>1, <1>2 DEF Stays, Clear
<1>4. ModelsAt(graph, m, last["models"][m], B)
  BY <1>1, <1>2, <1>3 DEF ModelsIn
<1>5. QED
  BY <1>2, <1>3, <1>4, ModelsStay

LEMMA JsInKept ==
  ASSUME NEW ms, NEW m \in Modules, JsIn(m), JsSurvive(graph, graph', ms),
         last'["js"][m] # None => Stays("js", m) /\ Clear("js", m, ms)
  PROVE  JsIn(m)'
<1>1. SUFFICES ASSUME last'["js"][m] # None
               PROVE  JsAt(graph', m, last'["js"][m], Placed("js", m)')
  BY DEF JsIn
<1>2. PICK B, C : B = Placed("js", m) /\ C = Placed("js", m)'
  OBVIOUS
<1>3. /\ last'["js"][m] = last["js"][m] /\ C \subseteq B
      /\ m \notin ms /\ \A e \in C : e[2] \notin ms
  BY <1>1, <1>2 DEF Stays, Clear
<1>4. JsAt(graph, m, last["js"][m], B)
  BY <1>1, <1>2, <1>3 DEF JsIn
<1>5. QED
  BY <1>2, <1>3, <1>4, JsStays

LEMMA BasesAreFirm ==
  ASSUME HistOK, StubsLate, \A y \in Modules : ViewsIn(y), NEW m \in Modules, NEW ms,
         NEW C, C \subseteq Placed("views", m), \A e \in C : e[2] \notin ms
  PROVE  Firm(graph, C, overtaken, ms)
<1>1. SUFFICES ASSUME NEW e \in C, e[1] = "views", NEW b \in Sources[e[2]][e[3]].views,
                      Key(b) \notin overtaken, NEW z \in DOMAIN graph.views, Key(z) = Key(b)
               PROVE  graph.views[z].module \notin ms
  BY DEF Firm
<1>2. PICK y : y = e[2] /\ y \in Modules /\ y \notin ms /\ e[3] = last["views"][y] /\ e[3] # None
  BY <1>1, PlacedIs DEF Layers
<1>3. ViewsAt(graph, y, last["views"][y], Placed("views", y), overtaken)
  BY <1>2 DEF ViewsIn
<1>4. ViewAt(graph, y, b, Placed("views", y), overtaken)
  BY <1>1, <1>2, <1>3 DEF ViewsAt
<1>5. ~graph.views[z].unresolved
  BY <1>1 DEF StubsLate
<1>6. Mine(graph, y, z)
  BY <1>1, <1>4, <1>5 DEF ViewAt
<1>7. QED
  BY <1>2, <1>6 DEF Mine

LEMMA ViewsInKept ==
  ASSUME HistOK, GraphOK, StubsLate, \A y \in Modules : ViewsIn(y), NEW ms, NEW K, NEW m \in Modules,
         ViewsSurvive(graph, graph', ms, K), overtaken \subseteq overtaken',
         last["views"][m] # None => \A v \in Sources[m][last["views"][m]].views : Key(v) \notin K,
         last'["views"][m] # None => Stays("views", m) /\ Clear("views", m, ms)
  PROVE  ViewsIn(m)'
<1>1. SUFFICES ASSUME last'["views"][m] # None
               PROVE  ViewsAt(graph', m, last'["views"][m], Placed("views", m)', overtaken')
  BY DEF ViewsIn
<1>2. PICK B, C : B = Placed("views", m) /\ C = Placed("views", m)'
  OBVIOUS
<1>3. /\ last'["views"][m] = last["views"][m] /\ C \subseteq B
      /\ m \notin ms /\ \A e \in C : e[2] \notin ms
  BY <1>1, <1>2 DEF Stays, Clear
<1>4. ViewsAt(graph, m, last["views"][m], B, overtaken)
  BY <1>1, <1>2, <1>3 DEF ViewsIn
<1>5. Firm(graph, C, overtaken, ms)
  BY <1>2, <1>3, BasesAreFirm
<1>6. graph.extends \subseteq (DOMAIN graph.views) \X (DOMAIN graph.views)
  BY DEF GraphOK
<1>7. ASSUME NEW v \in Sources[m][last["views"][m]].views
      PROVE  ViewAt(graph', m, v, C, overtaken')
  <2>1. ViewAt(graph, m, v, B, overtaken)
    BY <1>4 DEF ViewsAt
  <2>2. Key(v) \notin K
    BY <1>1, <1>3
  <2>3. QED
    BY <1>3, <1>5, <1>6, <2>1, <2>2, ViewStays
<1>8. QED
  BY <1>2, <1>3, <1>7 DEF ViewsAt

\* The module that is written.
LEMMA PlacedModels ==
  ASSUME NEW k \in Graphic, NEW m \in Modules, Placements(k, m), \A y \in Modules : ModelsIn(y),
         NEW e \in Placed(k, m)', e[1] = "models", NEW c \in Sources[e[2]][e[3]].classes
  PROVE  ModelId(e[2], c) \in ResolvedModels(graph, c.name)
<1>1. PICK y : y = e[2] /\ y \in Modules /\ e[3] = last["models"][y] /\ e[3] # None
  BY DEF Placements
<1>2. ModelsAt(graph, y, e[3], Placed("models", y))
  BY <1>1 DEF ModelsIn
<1>3. ClassAt(graph, y, c, Placed("models", y))
  BY <1>1, <1>2 DEF ModelsAt
<1>4. ModelId(y, c).name = c.name
  BY DEF ModelId
<1>5. QED
  BY <1>1, <1>3, <1>4 DEF ClassAt, ResolvedModels, ModelsNamed

LEMMA ModelsFresh ==
  ASSUME ReadAsWritten, \A y \in Modules : ModelsIn(y), NEW m \in Modules,
         ModelsStep(m), Renewed("models", m)
  PROVE  ModelsIn(m)'
<1>1. PICK c, D, s : c = Parse(m) /\ D = ToSet(c.models) /\ s = disk[m]
  OBVIOUS
<1>2. last'["models"][m] = s /\ s \in Contents[m] /\ Placements("models", m)
  BY <1>1 DEF Renewed
<1>3. D = Sources[m][s].classes /\ c.depends = Sources[m][s].depends
  BY <1>1, <1>2 DEF ReadAsWritten, Parse
<1>4. /\ graph'.mods = [y \in Modules |-> IF y = m THEN "indexed"
                                      ELSE IF y \in c.depends /\ graph.mods[y] = "absent" THEN "stub"
                                      ELSE graph.mods[y]]
      /\ graph'.depends = graph.depends \cup {m} \X c.depends
      /\ ModelsAdded(graph, graph', m, D)
  BY <1>1 DEF ModelsStep
<1>5. PICK C : C = Placed("models", m)'
  OBVIOUS
<1>6. ASSUME NEW d \in D PROVE ClassAt(graph', m, d, C)
  <2>1. PICK a : a = ModelId(m, d) /\ a \in ModelIds(m, D)
    BY DEF ModelIds
  <2>2. /\ a \in DOMAIN graph'.models /\ ~graph'.models[a].unresolved
        /\ <<"Model", a>> \in graph'.definedIn
        /\ IsDefinition(d) => graph'.models[a].def
    BY <1>4, <2>1 DEF ModelsAdded
  <2>3. \A n \in DOMAIN d.fields : Member(m, d, n) \in DOMAIN graph'.fields
    <3>1. \A n \in DOMAIN d.fields : Member(m, d, n) \in Fields(m, D)
      BY DEF Fields
    <3>2. QED
      BY <1>4, <3>1 DEF ModelsAdded
  <2>4. \A n \in DOMAIN d.methods : Member(m, d, n) \in DOMAIN graph'.methods
    <3>1. \A n \in DOMAIN d.methods : Member(m, d, n) \in Methods(m, D)
      BY DEF Methods
    <3>2. QED
      BY <1>4, <3>1 DEF ModelsAdded
  <2>5. ASSUME NEW e \in C, e[1] = "models", NEW f \in Sources[e[2]][e[3]].classes
        PROVE  /\ f.name \in d.inherit \ {d.name} => <<a, ModelId(e[2], f)>> \in graph'.inherits
               /\ \A x \in d.delegates : x[1] = f.name =>
                    <<a, x[2], ModelId(e[2], f)>> \in graph'.delegates
    <3>1. PICK b : b = ModelId(e[2], f) /\ b \in ResolvedModels(graph, f.name)
      BY <1>2, <1>5, <2>5, PlacedModels DEF Graphic
    <3>2. f.name \in d.inherit \ {d.name} => <<a, b>> \in graph'.inherits
      BY <1>4, <2>1, <3>1 DEF ModelsAdded
    <3>3. \A x \in d.delegates : x[1] = f.name => <<a, x[2], b>> \in graph'.delegates
      BY <1>4, <2>1, <3>1 DEF ModelsAdded
    <3>4. QED
      BY <3>1, <3>2, <3>3
  <2>6. QED
    BY <2>1, <2>2, <2>3, <2>4, <2>5 DEF ClassAt
<1>7. ModelsAt(graph', m, s, C)
  BY <1>3, <1>4, <1>6 DEF ModelsAt
<1>8. QED
  BY <1>2, <1>5, <1>7 DEF ModelsIn

LEMMA ViewsFresh ==
  ASSUME ReadAsWritten, OwnIds, HistOK, StubsLate,
         \A y \in Modules : ModelsIn(y) /\ ViewsIn(y), NEW m \in Modules,
         ViewsStep(m), Renewed("views", m), overtaken \subseteq overtaken'
  PROVE  ViewsIn(m)'
<1>1. PICK D, s : D = ToSet(Parse(m).views) /\ s = disk[m]
  OBVIOUS
<1>2. last'["views"][m] = s /\ s \in Contents[m] /\ Placements("views", m)
  BY <1>1 DEF Renewed
<1>3. D = Sources[m][s].views
  BY <1>1, <1>2 DEF ReadAsWritten, Parse
<1>4. ViewsAdded(graph, graph', m, D)
  BY <1>1 DEF ViewsStep
<1>5. PICK C : C = Placed("views", m)'
  OBVIOUS
<1>6. ASSUME NEW v \in D PROVE ViewAt(graph', m, v, C, overtaken')
  <2>1. PICK x \in DOMAIN graph'.views : /\ Key(x) = Key(v) /\ Mine(graph', m, x)
                                         /\ HasEdges(graph, graph', v, x)
    BY <1>4 DEF ViewsAdded
  <2>2. ASSUME NEW y \in DOMAIN graph'.views, Key(y) = Key(v)
        PROVE  Mine(graph', m, y) \/ graph'.views[y].unresolved
    <3>1. Key(y) \in Keys(D)
      BY <2>2 DEF Keys
    <3>2. Mine(graph', m, y) \/ IsStub(graph', y)
      BY <1>4, <3>1 DEF ViewsAdded
    <3>3. QED
      BY <3>2 DEF IsStub
  <2>3. ASSUME NEW e \in C, e[1] = "models", NEW c \in Sources[e[2]][e[3]].classes, c.name = v.model
        PROVE  <<x, ModelId(e[2], c)>> \in graph'.targets
    <3>1. PICK b : b = ModelId(e[2], c) /\ b \in ResolvedModels(graph, c.name)
      BY <1>2, <1>5, <2>3, PlacedModels DEF Graphic
    <3>2. b \in ModelsNamed(graph, v.model)
      BY <2>3, <3>1 DEF ResolvedModels
    <3>3. <<x, b>> \in graph'.targets
      BY <2>1, <3>2 DEF HasEdges
    <3>4. QED
      BY <3>1, <3>3
  <2>4. ASSUME NEW e \in C, e[1] = "views", NEW b \in Sources[e[2]][e[3]].views,
               Key(b) = BaseKey(v), Key(b) \notin overtaken'
        PROVE  \E z : <<x, z>> \in graph'.extends /\ Key(z) = Key(b)
    <3>1. PICK y : y = e[2] /\ y \in Modules /\ y # m /\ e[3] = last["views"][y] /\ e[3] # None
      BY <1>2, <1>5, <2>4 DEF Placements
    <3>2. ViewAt(graph, y, b, Placed("views", y), overtaken)
      BY <2>4, <3>1 DEF ViewsIn, ViewsAt
    <3>3. PICK z \in DOMAIN graph.views : Key(z) = Key(b)
      BY <3>2 DEF ViewAt
    <3>4. ~graph.views[z].unresolved
      BY <2>4, <3>3 DEF StubsLate
    <3>5. b.kind = v.kind /\ b.xmlid = v.base /\ z.kind = v.kind /\ z.xmlid = v.base
      BY <2>4, <3>3 DEF Key, BaseKey
    <3>6. z \in ResolvedViews(graph, v.kind, v.base)
      BY <3>4, <3>5 DEF ResolvedViews, ViewNodes
    <3>7. last["views"][y] \in Contents[y]
      BY <3>1 DEF HistOK, Layers
    <3>8. b.xmlid # None /\ Key(v) # Key(b)
      BY <1>2, <1>3, <2>4, <3>1, <3>7 DEF OwnIds, Key
    <3>9. v.base # None /\ v.base # v.xmlid
      BY <3>5, <3>8 DEF Key
    <3>10. <<x, z>> \in graph'.extends
      BY <2>1, <3>6, <3>9 DEF HasEdges
    <3>11. QED
      BY <3>3, <3>10
  <2>5. QED
    BY <2>1, <2>2, <2>3, <2>4 DEF ViewAt
<1>7. ViewsAt(graph', m, s, C, overtaken')
  BY <1>3, <1>6 DEF ViewsAt
<1>8. QED
  BY <1>2, <1>5, <1>7 DEF ViewsIn

LEMMA JsFresh ==
  ASSUME ReadAsWritten, \A y \in Modules : ModelsIn(y) /\ JsIn(y), NEW m \in Modules,
         JsStep(m), Renewed("js", m)
  PROVE  JsIn(m)'
<1>1. PICK D, P, s, w : /\ D = ToSet(Parse(m).comps) /\ P = ToSet(Parse(m).patches) /\ s = disk[m]
                        /\ CompsAdded(graph, w, m, D) /\ PatchesAdded(w, graph', m, P)
  BY DEF JsStep
<1>2. last'["js"][m] = s /\ s \in Contents[m] /\ Placements("js", m)
  BY <1>1 DEF Renewed
<1>3. /\ Sources[m][s].comps = {[name |-> c.name, bound |-> c.bound] : c \in D}
      /\ Sources[m][s].patches = P
  BY <1>1, <1>2 DEF ReadAsWritten, Parse
<1>4. PICK C : C = Placed("js", m)'
  OBVIOUS
<1>5. ASSUME NEW f \in Sources[m][s].comps
      PROVE  \E c \in D : c.name = f.name /\ c.bound = f.bound /\ CompId(m, c) = CompId(m, f)
  <2>1. PICK c \in D : f = [name |-> c.name, bound |-> c.bound]
    BY <1>3, <1>5
  <2>2. f.name = c.name /\ f.bound = c.bound
    BY <2>1
  <2>3. QED
    BY <2>2 DEF CompId
<1>6. ASSUME NEW f \in Sources[m][s].comps PROVE CompAt(graph', m, f, C) /\ ~w.comps[CompId(m, f)].unresolved
                                                 /\ CompId(m, f) \in DOMAIN w.comps
  <2>1. PICK c \in D : c.name = f.name /\ c.bound = f.bound /\ CompId(m, c) = CompId(m, f)
    BY <1>5
  <2>2. PICK a : a = CompId(m, c) /\ a \in CompIds(m, D)
    BY <2>1 DEF CompIds
  <2>3. a \in DOMAIN w.comps /\ ~w.comps[a].unresolved
    BY <1>1, <2>2 DEF CompsAdded
  <2>4. a \in DOMAIN graph'.comps /\ ~graph'.comps[a].unresolved
    BY <1>1, <2>3 DEF PatchesAdded
  <2>5. ASSUME NEW e \in C, e[1] = "models", NEW d \in Sources[e[2]][e[3]].classes, d.name = f.bound
        PROVE  <<a, ModelId(e[2], d)>> \in graph'.bound
    <3>1. PICK b : b = ModelId(e[2], d) /\ b \in ResolvedModels(graph, d.name)
      BY <1>2, <1>4, <2>5, PlacedModels DEF Graphic
    <3>2. b \in ModelsNamed(graph, c.bound)
      BY <2>1, <2>5, <3>1 DEF ResolvedModels
    <3>3. <<a, b>> \in w.bound
      BY <1>1, <2>1, <2>2, <3>2 DEF CompsAdded
    <3>4. graph'.bound = w.bound
      BY <1>1 DEF PatchesAdded
    <3>5. QED
      BY <3>1, <3>3, <3>4
  <2>6. QED
    BY <2>1, <2>2, <2>3, <2>4, <2>5 DEF CompAt
<1>7. ASSUME NEW p \in P PROVE PatchAt(graph', m, s, p, C)
  <2>1. PatchId(m, p) \in graph'.patches
    <3>1. PatchId(m, p) \in PatchIds(m, P)
      BY DEF PatchIds
    <3>2. QED
      BY <1>1, <3>1 DEF PatchesAdded
  <2>2. \A x \in CompsNamed(w, p.target) : ~w.comps[x].unresolved => <<PatchId(m, p), x>> \in graph'.patchEdges
    BY <1>1 DEF PatchesAdded
  <2>3. ASSUME NEW c \in Sources[m][s].comps, c.name = p.target
        PROVE  <<PatchId(m, p), CompId(m, c)>> \in graph'.patchEdges
    <3>0. CompId(m, c).name = c.name
      BY DEF CompId
    <3>1. PICK a : a = CompId(m, c) /\ a.name = p.target
      BY <2>3, <3>0
    <3>2. a \in DOMAIN w.comps /\ ~w.comps[a].unresolved
      BY <1>6, <3>1
    <3>3. QED
      BY <2>2, <3>1, <3>2 DEF CompsNamed
  <2>4. ASSUME NEW e \in C, e[1] = "js", NEW c \in Sources[e[2]][e[3]].comps, c.name = p.target
        PROVE  <<PatchId(m, p), CompId(e[2], c)>> \in graph'.patchEdges
    <3>1. PICK y : y = e[2] /\ y \in Modules /\ y # m /\ e[3] = last["js"][y] /\ e[3] # None
      BY <1>2, <1>4, <2>4 DEF Placements
    <3>2. CompAt(graph, y, c, Placed("js", y))
      BY <2>4, <3>1 DEF JsIn, JsAt
    <3>0. CompId(y, c).name = c.name /\ CompId(y, c).module = y
      BY DEF CompId
    <3>3. PICK a : a = CompId(y, c) /\ a.name = p.target /\ a.module = y
      BY <2>4, <3>0
    <3>4. a \in DOMAIN graph.comps /\ ~graph.comps[a].unresolved
      BY <3>2, <3>3 DEF CompAt
    <3>5. a \notin CompIds(m, D)
      BY <3>1, <3>3 DEF CompIds, CompId
    <3>6. a \in DOMAIN w.comps /\ w.comps[a] = graph.comps[a]
      BY <1>1, <3>4, <3>5 DEF CompsAdded
    <3>7. QED
      BY <2>2, <3>1, <3>3, <3>4, <3>6 DEF CompsNamed
  <2>5. QED
    BY <2>1, <2>3, <2>4 DEF PatchAt
<1>8. JsAt(graph', m, s, C)
  BY <1>3, <1>6, <1>7 DEF JsAt
<1>9. QED
  BY <1>2, <1>4, <1>8 DEF JsIn

-----------------------------------------------------------------------------
(* The invariant of what is written                                        *)

Whereabouts == \A m \in Modules : ModelsIn(m) /\ ViewsIn(m) /\ JsIn(m)
WrittenOK == Whereabouts /\ StubsLate

LEMMA WrittenInit ==
  ASSUME Init
  PROVE  WrittenOK
<1>1. /\ last = [l \in Layers |-> [m \in Modules |-> None]] /\ graph.views = Empty
  BY DEF Init, GraphInit
<1>2. \A k \in Graphic, m \in Modules : last[k][m] = None
  BY <1>1 DEF Graphic, Layers
<1>3. QED
  BY <1>1, <1>2 DEF WrittenOK, Whereabouts, ModelsIn, ViewsIn, JsIn, StubsLate, Empty, Graphic

\* A step that writes nothing of the graph's layers, or deletes ms.
LEMMA ShrunkKeeps ==
  ASSUME HistOK, GraphOK, WrittenOK, NEW ms, Shrunk(ms), Survive(graph, graph', ms, {}),
         overtaken' = overtaken
  PROVE  Whereabouts'
<1>1. \A k \in Graphic, m \in Modules : last'[k][m] # None => Stays(k, m) /\ Clear(k, m, ms)
  BY DEF Shrunk
<1>2. ASSUME NEW m \in Modules PROVE ModelsIn(m)' /\ ViewsIn(m)' /\ JsIn(m)'
  <2>1. ModelsIn(m)'
    BY <1>1, ModelsInKept DEF WrittenOK, Whereabouts, Survive, Graphic
  <2>2. JsIn(m)'
    BY <1>1, JsInKept DEF WrittenOK, Whereabouts, Survive, Graphic
  <2>3. ViewsIn(m)'
    <3>1. \A y \in Modules : ViewsIn(y)
      BY DEF WrittenOK, Whereabouts
    <3>2. last'["views"][m] # None => Stays("views", m) /\ Clear("views", m, ms)
      BY <1>1 DEF Graphic
    <3>3. QED
      BY <3>1, <3>2, ViewsInKept DEF WrittenOK, Survive
  <2>4. QED
    BY <2>1, <2>2, <2>3
<1>3. QED
  BY <1>2 DEF Whereabouts

LEMMA GrownKeeps ==
  ASSUME HistOK, GraphOK, WrittenOK, Grown, Survive(graph, graph', {}, {}), overtaken' = overtaken
  PROVE  Whereabouts'
<1>1. Shrunk({})
  BY DEF Grown, Shrunk, Clear
<1>2. QED
  BY <1>1, ShrunkKeeps

\* A step that writes layer l of m, and the views of the keys K.
LEMMA RenewedKeeps ==
  ASSUME HistOK, GraphOK, WrittenOK, NEW l \in Graphic, NEW m \in Modules, Renewed(l, m),
         NEW K, Survive(graph, graph', {}, K), overtaken \subseteq overtaken',
         l # "views" => K = {},
         \A y \in Modules \ {m} : last["views"][y] # None =>
           \A v \in Sources[y][last["views"][y]].views : Key(v) \notin K,
         CASE l = "models" -> ModelsIn(m)' [] l = "views" -> ViewsIn(m)' [] l = "js" -> JsIn(m)'
  PROVE  Whereabouts'
<1>1. \A k \in Graphic, y \in Modules : <<k, y>> # <<l, m>> => Stays(k, y) /\ Clear(k, y, {})
  BY DEF Renewed, Clear
<1>2. ASSUME NEW y \in Modules PROVE ModelsIn(y)' /\ ViewsIn(y)' /\ JsIn(y)'
  <2>1. ModelsIn(y)'
    <3>1. CASE <<"models", y>> = <<l, m>>
      BY <3>1
    <3>2. CASE <<"models", y>> # <<l, m>>
      <4>1. Stays("models", y) /\ Clear("models", y, {})
        BY <1>1, <3>2 DEF Graphic
      <4>2. QED
        BY <4>1, ModelsInKept DEF WrittenOK, Whereabouts, Survive
    <3>3. QED
      BY <3>1, <3>2
  <2>2. JsIn(y)'
    <3>1. CASE <<"js", y>> = <<l, m>>
      BY <3>1
    <3>2. CASE <<"js", y>> # <<l, m>>
      <4>1. Stays("js", y) /\ Clear("js", y, {})
        BY <1>1, <3>2 DEF Graphic
      <4>2. QED
        BY <4>1, JsInKept DEF WrittenOK, Whereabouts, Survive
    <3>3. QED
      BY <3>1, <3>2
  <2>3. ViewsIn(y)'
    <3>1. CASE <<"views", y>> = <<l, m>>
      BY <3>1
    <3>2. CASE <<"views", y>> # <<l, m>>
      <4>1. Stays("views", y) /\ Clear("views", y, {})
        BY <1>1, <3>2 DEF Graphic
      <4>2. last["views"][y] # None =>
              \A v \in Sources[y][last["views"][y]].views : Key(v) \notin K
        BY <3>2
      <4>3. \A z \in Modules : ViewsIn(z)
        BY DEF WrittenOK, Whereabouts
      <4>4. QED
        BY <4>1, <4>2, <4>3, ViewsInKept DEF WrittenOK, Survive
    <3>3. QED
      BY <3>1, <3>2
  <2>4. QED
    BY <2>1, <2>2, <2>3
<1>3. QED
  BY <1>2 DEF Whereabouts

LEMMA StubsStayLate ==
  ASSUME StubsLate, overtaken' = overtaken,
         \A x \in DOMAIN graph'.views : x \in DOMAIN graph.views /\ graph'.views[x] = graph.views[x]
  PROVE  StubsLate'
BY DEF StubsLate

LEMMA NewStubsAreLate ==
  ASSUME HistOK, WrittenOK, ReadAsWritten, NEW m \in Modules, disk[m] \in Contents[m], ViewsStep(m),
         overtaken' = overtaken \cup
           ({<<v.kind, v.base>> : v \in Sources[m][disk[m]].views} \
              {<<v.kind, v.xmlid>> : v \in UNION {Sources[y][last["views"][y]].views :
                                       y \in {y \in Modules : last["views"][y] # None}}})
  PROVE  StubsLate'
<1>1. PICK D : D = ToSet(Parse(m).views) /\ D = Sources[m][disk[m]].views
  BY DEF ReadAsWritten, Parse
<1>2. ViewsAdded(graph, graph', m, D)
  BY <1>1 DEF ViewsStep
<1>3. SUFFICES ASSUME NEW x \in DOMAIN graph'.views, graph'.views[x].unresolved
               PROVE  Key(x) \in overtaken'
  BY DEF StubsLate
<1>4. CASE x \in DOMAIN graph.views
  <2>1. graph.views[x].unresolved
    BY <1>2, <1>3, <1>4 DEF ViewsAdded
  <2>2. QED
    BY <1>4, <2>1 DEF WrittenOK, StubsLate
<1>5. CASE x \notin DOMAIN graph.views
  <2>1. PICK v \in D : Key(x) = BaseKey(v) /\ ResolvedViews(graph, v.kind, v.base) = {}
    BY <1>2, <1>3, <1>5 DEF ViewsAdded
  <2>2. BaseKey(v) \in {<<u.kind, u.base>> : u \in Sources[m][disk[m]].views}
    BY <1>1 DEF BaseKey
  <2>3. ASSUME NEW b \in UNION {Sources[y][last["views"][y]].views :
                                  y \in {y \in Modules : last["views"][y] # None}},
               BaseKey(v) = <<b.kind, b.xmlid>>
        PROVE  BaseKey(v) \in overtaken
    <3>1. PICK y \in Modules : last["views"][y] # None /\ b \in Sources[y][last["views"][y]].views
      BY <2>3
    <3>2. ViewAt(graph, y, b, Placed("views", y), overtaken)
      BY <3>1 DEF WrittenOK, Whereabouts, ViewsIn, ViewsAt
    <3>3. PICK z \in DOMAIN graph.views : Key(z) = Key(b)
      BY <3>2 DEF ViewAt
    <3>4. z.kind = v.kind /\ z.xmlid = v.base /\ Key(z) = BaseKey(v)
      BY <2>3, <3>3 DEF Key, BaseKey
    <3>5. graph.views[z].unresolved
      BY <2>1, <3>4 DEF ResolvedViews, ViewNodes
    <3>6. QED
      BY <3>4, <3>5 DEF WrittenOK, StubsLate
  <2>4. QED
    BY <2>1, <2>2, <2>3
<1>6. QED
  BY <1>4, <1>5

LEMMA WrittenStep ==
  ASSUME ReadAsWritten, OwnIds, HistOK, GraphOK, WrittenOK, GraphMove
  PROVE  WrittenOK'
<1>1. CASE QuietStep
  <2>1. Grown /\ UNCHANGED <<graph, overtaken>>
    BY <1>1, QuietGrows DEF QuietStep
  <2>2. StubsLate'
    BY <2>1 DEF WrittenOK, StubsLate
  <2>3. QED
    BY <2>1, <2>2, QuietLeaves, GrownKeeps DEF WrittenOK
<1>2. CASE ModelsMove
  <2>1. PICK m \in Modules : LayerWritten("models", m) /\ ModelsStep(m) /\ UNCHANGED overtaken
    BY <1>2 DEF ModelsMove
  <2>2. Renewed("models", m)
    BY <2>1, AfreshIs, RenewedIs DEF Graphic, Layers
  <2>3. Survive(graph, graph', {}, {})
    BY <2>1, ModelsMoveLeaves
  <2>4. ModelsIn(m)'
    BY <2>1, <2>2, ModelsFresh DEF WrittenOK, Whereabouts
  <2>5. Whereabouts'
    BY <2>1, <2>2, <2>3, <2>4, RenewedKeeps DEF Graphic
  <2>6. SameViews(graph, graph')
    BY <2>1 DEF ModelsStep, ModelsAdded
  <2>7. StubsLate'
    BY <2>1, <2>6, StubsStayLate DEF WrittenOK, SameViews
  <2>8. QED
    BY <2>5, <2>7 DEF WrittenOK
<1>3. CASE ViewsMove
  <2>1. PICK m \in Modules :
          /\ LayerWritten("views", m) /\ ViewsStep(m)
          /\ overtaken' = overtaken \cup
               ({<<v.kind, v.base>> : v \in Sources[m][disk[m]].views} \
                  {<<v.kind, v.xmlid>> : v \in UNION {Sources[y][last["views"][y]].views :
                                           y \in {y \in Modules : last["views"][y] # None}}})
    BY <1>3 DEF ViewsMove
  <2>2. Renewed("views", m)
    BY <2>1, AfreshIs, RenewedIs DEF Graphic, Layers
  <2>3. PICK K : K = Keys(ToSet(Parse(m).views))
    OBVIOUS
  <2>4. Survive(graph, graph', {}, K)
    BY <2>1, <2>3, ViewsMoveLeaves
  <2>5. overtaken \subseteq overtaken'
    BY <2>1
  <2>6. ViewsIn(m)'
    BY <2>1, <2>2, <2>5, ViewsFresh DEF WrittenOK, Whereabouts
  <2>7. disk[m] \in Contents[m]
    BY <2>1 DEF LayerWritten
  <2>8. ASSUME NEW y \in Modules \ {m}, last["views"][y] # None,
               NEW v \in Sources[y][last["views"][y]].views
        PROVE  Key(v) \notin K
    <3>1. last["views"][y] \in Contents[y]
      BY <2>8 DEF HistOK, Layers
    <3>2. ToSet(Parse(m).views) = Sources[m][disk[m]].views
      BY <2>7 DEF ReadAsWritten, Parse
    <3>3. \A b \in Sources[m][disk[m]].views : Key(v) # Key(b)
      BY <2>7, <2>8, <3>1 DEF OwnIds, Key
    <3>4. QED
      BY <2>3, <3>2, <3>3 DEF Keys
  <2>9. Whereabouts'
    BY <2>2, <2>4, <2>5, <2>6, <2>8, RenewedKeeps DEF Graphic
  <2>10. StubsLate'
    BY <2>1, <2>7, NewStubsAreLate
  <2>11. QED
    BY <2>9, <2>10 DEF WrittenOK
<1>4. CASE JsMove
  <2>1. PICK m \in Modules : LayerWritten("js", m) /\ JsStep(m) /\ UNCHANGED overtaken
    BY <1>4 DEF JsMove
  <2>2. Renewed("js", m)
    BY <2>1, AfreshIs, RenewedIs DEF Graphic, Layers
  <2>3. Survive(graph, graph', {}, {})
    BY <2>1, JsMoveLeaves
  <2>4. JsIn(m)'
    BY <2>1, <2>2, JsFresh DEF WrittenOK, Whereabouts
  <2>5. Whereabouts'
    BY <2>1, <2>2, <2>3, <2>4, RenewedKeeps DEF Graphic
  <2>6. SameViews(graph, graph')
    BY <2>1 DEF JsStep, CompsAdded, PatchesAdded, SameViews
  <2>7. StubsLate'
    BY <2>1, <2>6, StubsStayLate DEF WrittenOK, SameViews
  <2>8. QED
    BY <2>5, <2>7 DEF WrittenOK
<1>5. CASE SheetsMove
  <2>1. Grown /\ BatchWritten(graph, graph') /\ UNCHANGED overtaken
    BY <1>5, SheetsGrow DEF SheetsMove
  <2>2. StubsLate'
    BY <2>1, StubsStayLate DEF WrittenOK, BatchWritten, SameViews
  <2>3. QED
    BY <2>1, <2>2, SheetsMoveLeaves, GrownKeeps DEF WrittenOK
<1>6. CASE EndMove
  <2>1. PICK gone \in SUBSET Modules :
          /\ Dropped(graph, graph', gone)
          /\ last' = [l \in Layers |-> [m \in Modules |-> IF m \in gone THEN None ELSE last[l][m]]]
          /\ seen' = [l \in Layers |-> [m \in Modules |-> Forgotten(gone, l, m)]]
          /\ UNCHANGED overtaken
    BY <1>6 DEF EndMove
  <2>2. Shrunk(gone)
    BY <2>1, EndShrinks
  <2>3. StubsLate'
    BY <2>1, StubsStayLate DEF WrittenOK, Dropped, SameViews
  <2>4. QED
    BY <2>1, <2>2, <2>3, EndMoveLeaves, ShrunkKeeps DEF WrittenOK
<1>7. CASE DeleteMove
  <2>1. PICK r \in Repos :
          /\ Deleted(graph, graph', IndexedOf(graph, r))
          /\ last' = [l \in Layers |-> [m \in Modules |->
                        IF m \in Home(r) /\ l # "sheets" THEN None ELSE last[l][m]]]
          /\ seen' = [l \in Layers |-> [m \in Modules |->
                        IF m \in Home(r) THEN {} ELSE Forgotten(Home(r), l, m)]]
          /\ UNCHANGED overtaken
    BY <1>7 DEF DeleteMove
  <2>2. PICK ms : ms = IndexedOf(graph, r) /\ ms \subseteq Home(r)
    BY DEF IndexedOf, Home
  <2>3. Shrunk(Home(r))
    BY <2>1, DeleteShrinks
  <2>4. Shrunk(ms)
    BY <2>2, <2>3 DEF Shrunk, Clear
  <2>5. StubsLate'
    BY <2>1, StubsStayLate DEF WrittenOK, Deleted
  <2>6. QED
    BY <2>1, <2>2, <2>4, <2>5, DeleteMoveLeaves, ShrunkKeeps DEF WrittenOK
<1>8. QED
  BY <1>1, <1>2, <1>3, <1>4, <1>5, <1>6, <1>7 DEF GraphMove

-----------------------------------------------------------------------------
(* Finite sets of nodes, and their names                                   *)

Names == ToSet(NameOrder)
IsMember(x) == /\ x = [name |-> x.name, model |-> x.model, module |-> x.module]
               /\ x.module \in Modules /\ x.name \in Names /\ x.model \in Names
FieldsOK(g) ==
  IsFiniteSet(DOMAIN g.fields) /\ \A x \in DOMAIN g.fields : IsMember(x) /\ IsField(g.fields[x])
MethodsOK(g) == IsFiniteSet(DOMAIN g.methods) /\ \A x \in DOMAIN g.methods : IsMember(x)
ViewsOK(g) ==
  /\ NumbersOK(g)
  /\ \A x \in DOMAIN g.views : x.xmlid \in Names /\ g.views[x].module \in Modules \cup {Unresolved}
  /\ \A e \in g.targets : e[1] \in DOMAIN g.views
CompsOK(g) ==
  IsFiniteSet(DOMAIN g.comps) /\ \A x \in DOMAIN g.comps : x.module \in Modules => x.name \in Names
PatchesOK(g) ==
  /\ IsFiniteSet(g.patches)
  /\ \A x \in g.patches : /\ x = [target |-> x.target, name |-> x.name, module |-> x.module]
                          /\ x.module \in Modules /\ x.target \in Names /\ x.name \in Names
HomesOK(g) ==
  /\ g.depends \subseteq Modules \X Modules
  /\ \A x : <<"Model", x>> \in g.definedIn => x.module \in Modules
DataOK(g) == FieldsOK(g) /\ MethodsOK(g) /\ ViewsOK(g) /\ CompsOK(g) /\ PatchesOK(g) /\ HomesOK(g)

LEMMA FiniteImage ==
  ASSUME NEW S, IsFiniteSet(S), NEW f, NEW T, \A t \in T : \E s \in S : t = f[s]
  PROVE  IsFiniteSet(T)
<1>1. PICK U, h : U = {s \in S : f[s] \in T} /\ h = [s \in U |-> f[s]]
  OBVIOUS
<1>2. IsFiniteSet(U)
  BY <1>1, FS_Subset
<1>3. h \in Surjection(U, T)
  BY <1>1 DEF Surjection
<1>4. QED
  BY <1>2, <1>3, FS_Surjection

LEMMA FiniteList ==
  ASSUME NEW q, IsList(q)
  PROVE  IsFiniteSet(ToSet(q))
<1>1. DOMAIN q = 1 .. Len(q) /\ Len(q) \in Nat
  BY LenProperties DEF IsList
<1>2. IsFiniteSet(1 .. Len(q))
  BY <1>1, FS_Interval
<1>3. \A t \in ToSet(q) : \E s \in 1 .. Len(q) : t = q[s]
  BY <1>1 DEF ToSet
<1>4. QED
  BY <1>2, <1>3, FiniteImage

LEMMA MembersAreFinite ==
  ASSUME NEW m, NEW D, IsFiniteSet(D),
         \A d \in D : IsFiniteSet(DOMAIN d.fields) /\ IsFiniteSet(DOMAIN d.methods)
  PROVE  IsFiniteSet(Fields(m, D)) /\ IsFiniteSet(Methods(m, D))
<1>1. ASSUME NEW d \in D
      PROVE  /\ IsFiniteSet({Member(m, d, n) : n \in DOMAIN d.fields})
             /\ IsFiniteSet({Member(m, d, n) : n \in DOMAIN d.methods})
  <2>1. PICK f : f = [n \in DOMAIN d.fields |-> Member(m, d, n)]
    OBVIOUS
  <2>2. PICK h : h = [n \in DOMAIN d.methods |-> Member(m, d, n)]
    OBVIOUS
  <2>3. \A t \in {Member(m, d, n) : n \in DOMAIN d.fields} : \E s \in DOMAIN d.fields : t = f[s]
    BY <2>1
  <2>4. \A t \in {Member(m, d, n) : n \in DOMAIN d.methods} : \E s \in DOMAIN d.methods : t = h[s]
    BY <2>2
  <2>5. IsFiniteSet({Member(m, d, n) : n \in DOMAIN d.fields})
    BY <2>3, FiniteImage
  <2>6. IsFiniteSet({Member(m, d, n) : n \in DOMAIN d.methods})
    BY <2>4, FiniteImage
  <2>7. QED
    BY <2>5, <2>6
<1>2. PICK F : F = {{Member(m, d, n) : n \in DOMAIN d.fields} : d \in D}
  OBVIOUS
<1>3. PICK H : H = {{Member(m, d, n) : n \in DOMAIN d.methods} : d \in D}
  OBVIOUS
<1>4. IsFiniteSet(F)
  <2>1. PICK f : f = [d \in D |-> {Member(m, d, n) : n \in DOMAIN d.fields}]
    OBVIOUS
  <2>2. \A t \in F : \E d \in D : t = f[d]
    BY <1>2, <2>1
  <2>3. QED
    BY <2>2, FiniteImage
<1>5. IsFiniteSet(H)
  <2>1. PICK f : f = [d \in D |-> {Member(m, d, n) : n \in DOMAIN d.methods}]
    OBVIOUS
  <2>2. \A t \in H : \E d \in D : t = f[d]
    BY <1>3, <2>1
  <2>3. QED
    BY <2>2, FiniteImage
<1>6. IsFiniteSet(UNION F)
  BY <1>1, <1>2, <1>4, FS_UNION
<1>7. IsFiniteSet(UNION H)
  BY <1>1, <1>3, <1>5, FS_UNION
<1>8. QED
  BY <1>2, <1>3, <1>6, <1>7 DEF Fields, Methods

ModelNames(c) == UNION {{d.name} \cup DOMAIN d.fields \cup DOMAIN d.methods : d \in ToSet(c.models)}
ViewNames(c)  == UNION {{v.xmlid, v.base} : v \in ToSet(c.views)}
CompNames(c)  == {x.name : x \in ToSet(c.comps)}
PatchNames(c) == UNION {{p.target, p.name} : p \in ToSet(c.patches)}

\* What the results of a module hold.
LEMMA ResultsAre ==
  ASSUME NEW m \in Modules, disk[m] \in Contents[m], NEW c, c = Parse(m)
  PROVE  /\ IsFiniteSet(ToSet(c.models)) /\ IsFiniteSet(ToSet(c.comps)) /\ IsFiniteSet(ToSet(c.patches))
         /\ c.depends \subseteq Modules
         /\ \A d \in ToSet(c.models) :
              /\ IsFiniteSet(DOMAIN d.fields) /\ IsFiniteSet(DOMAIN d.methods) /\ d.name \in Names
              /\ \A n \in DOMAIN d.fields : n \in Names /\ IsField(d.fields[n])
              /\ \A n \in DOMAIN d.methods : n \in Names
         /\ \A v \in ToSet(c.views) : v.xmlid \in Names /\ v.base \in Names
         /\ \A x \in ToSet(c.comps) : x.name \in Names
         /\ \A x \in ToSet(c.patches) : x.target \in Names /\ x.name \in Names
<1>1. c = Results[m][disk[m]]
  BY DEF Parse
<1>2. /\ IsList(c.models) /\ IsList(c.comps) /\ IsList(c.patches) /\ c.depends \subseteq Modules
      /\ \A d \in ToSet(c.models) :
           /\ IsFiniteSet(DOMAIN d.fields) /\ IsFiniteSet(DOMAIN d.methods)
           /\ \A n \in DOMAIN d.fields : IsField(d.fields[n])
  BY <1>1, ResultsAssumption
<1>3. NamesIn(m, disk[m]) \subseteq Names
  BY ToolsAssumption DEF Names
<1>4. NamesIn(m, disk[m]) = ModelNames(c) \cup ViewNames(c) \cup CompNames(c) \cup PatchNames(c)
  <2>1. NamesIn(m, disk[m]) =
          LET r == Results[m][disk[m]] IN
          ModelNames(r) \cup ViewNames(r) \cup CompNames(r) \cup PatchNames(r)
    BY DEF NamesIn, ModelNames, ViewNames, CompNames, PatchNames
  <2>2. QED
    BY <1>1, <2>1
<1>5. /\ ModelNames(c) \subseteq Names /\ ViewNames(c) \subseteq Names
      /\ CompNames(c) \subseteq Names /\ PatchNames(c) \subseteq Names
  BY <1>3, <1>4
<1>6. ASSUME NEW d \in ToSet(c.models)
      PROVE  d.name \in Names /\ DOMAIN d.fields \subseteq Names /\ DOMAIN d.methods \subseteq Names
  <2>1. {d.name} \cup DOMAIN d.fields \cup DOMAIN d.methods \subseteq ModelNames(c)
    BY DEF ModelNames
  <2>2. QED
    BY <1>5, <2>1
<1>7. ASSUME NEW v \in ToSet(c.views) PROVE v.xmlid \in Names /\ v.base \in Names
  <2>1. {v.xmlid, v.base} \subseteq ViewNames(c)
    BY DEF ViewNames
  <2>2. QED
    BY <1>5, <2>1
<1>8. /\ \A x \in ToSet(c.comps) : x.name \in Names
      /\ \A p \in ToSet(c.patches) : p.target \in Names /\ p.name \in Names
  <2>1. ASSUME NEW p \in ToSet(c.patches) PROVE {p.target, p.name} \subseteq PatchNames(c)
    BY DEF PatchNames
  <2>2. \A x \in ToSet(c.comps) : x.name \in CompNames(c)
    BY DEF CompNames
  <2>3. QED
    BY <1>5, <2>1, <2>2
<1>9. IsFiniteSet(ToSet(c.models)) /\ IsFiniteSet(ToSet(c.comps)) /\ IsFiniteSet(ToSet(c.patches))
  BY <1>2, FiniteList
<1>10. QED
  BY <1>2, <1>6, <1>7, <1>8, <1>9

-----------------------------------------------------------------------------
(* The nodes are finitely many, and their names can be ordered             *)

\* Classes, views, components and patches as a module has them.
IsClasses(D) ==
  /\ IsFiniteSet(D)
  /\ \A d \in D : /\ IsFiniteSet(DOMAIN d.fields) /\ IsFiniteSet(DOMAIN d.methods) /\ d.name \in Names
                  /\ \A n \in DOMAIN d.fields : n \in Names /\ IsField(d.fields[n])
                  /\ \A n \in DOMAIN d.methods : n \in Names
IsViews(D)   == \A v \in D : v.xmlid \in Names /\ v.base \in Names
IsComps(D)   == IsFiniteSet(D) /\ \A c \in D : c.name \in Names
IsPatches(D) == IsFiniteSet(D) /\ \A p \in D : p.target \in Names /\ p.name \in Names

LEMMA ParsedIs ==
  ASSUME NEW m \in Modules, disk[m] \in Contents[m], NEW c, c = Parse(m)
  PROVE  /\ IsClasses(ToSet(c.models)) /\ IsViews(ToSet(c.views)) /\ IsComps(ToSet(c.comps))
         /\ IsPatches(ToSet(c.patches)) /\ c.depends \subseteq Modules
BY ResultsAre DEF IsClasses, IsViews, IsComps, IsPatches

LEMMA DataInit ==
  ASSUME Init
  PROVE  DataOK(graph)
<1>1. /\ graph.fields = Empty /\ graph.methods = Empty /\ graph.views = Empty /\ graph.comps = Empty
      /\ graph.patches = {} /\ graph.depends = {} /\ graph.definedIn = {} /\ graph.targets = {}
  BY DEF Init, GraphInit
<1>2. DOMAIN Empty = {}
  BY DEF Empty
<1>3. IsFiniteSet({})
  BY FS_EmptySet
<1>4. FieldsOK(graph) /\ MethodsOK(graph)
  BY <1>1, <1>2, <1>3 DEF FieldsOK, MethodsOK
<1>5. ViewsOK(graph) /\ CompsOK(graph)
  BY <1>1, <1>2, <1>3 DEF ViewsOK, NumbersOK, CompsOK
<1>6. PatchesOK(graph) /\ HomesOK(graph)
  BY <1>1, <1>3 DEF PatchesOK, HomesOK
<1>7. QED
  BY <1>4, <1>5, <1>6 DEF DataOK

LEMMA SameViewsOK ==
  ASSUME NEW g, NEW h, SameViews(g, h), ViewsOK(g)
  PROVE  ViewsOK(h)
BY DEF SameViews, ViewsOK, NumbersOK

LEMMA SameJsOK ==
  ASSUME NEW g, NEW h, SameJs(g, h), CompsOK(g), PatchesOK(g)
  PROVE  CompsOK(h) /\ PatchesOK(h)
BY DEF SameJs, CompsOK, PatchesOK

LEMMA SameModelsOK ==
  ASSUME NEW g, NEW h, SameModels(g, h), FieldsOK(g), MethodsOK(g)
  PROVE  FieldsOK(h) /\ MethodsOK(h)
BY DEF SameModels, FieldsOK, MethodsOK

LEMMA ClassesAreData ==
  ASSUME NEW g, NEW h, NEW m \in Modules, NEW D, ModelsAdded(g, h, m, D), IsClasses(D),
         DataOK(g), h.depends \subseteq Modules \X Modules
  PROVE  DataOK(h)
<1>1. IsFiniteSet(Fields(m, D)) /\ IsFiniteSet(Methods(m, D))
  BY MembersAreFinite DEF IsClasses
<1>2. ASSUME NEW d \in D, NEW n \in Names PROVE IsMember(Member(m, d, n)) /\ Member(m, d, n).name = n
  BY <1>2 DEF IsMember, Member, IsClasses
<1>3. \A x \in Fields(m, D) : IsMember(x)
  BY <1>2 DEF Fields, IsClasses
<1>4. \A x \in Methods(m, D) : IsMember(x)
  BY <1>2 DEF Methods, IsClasses
<1>5. /\ DOMAIN h.fields = DOMAIN g.fields \cup Fields(m, D)
      /\ \A x \in DOMAIN g.fields \ Fields(m, D) : h.fields[x] = g.fields[x]
      /\ \A x \in Fields(m, D) : \E d \in D : x.name \in DOMAIN d.fields /\ h.fields[x] = d.fields[x.name]
      /\ DOMAIN h.methods = DOMAIN g.methods \cup Methods(m, D)
  BY DEF ModelsAdded
<1>6. FieldsOK(g) /\ MethodsOK(g)
  BY DEF DataOK
<1>7. \A x \in DOMAIN h.fields : IsMember(x) /\ IsField(h.fields[x])
  <2>1. \A x \in Fields(m, D) : IsField(h.fields[x])
    BY <1>5 DEF IsClasses
  <2>2. \A x \in DOMAIN g.fields \ Fields(m, D) : IsMember(x) /\ IsField(h.fields[x])
    BY <1>5, <1>6 DEF FieldsOK
  <2>3. QED
    BY <1>3, <1>5, <2>1, <2>2
<1>8. FieldsOK(h)
  <2>1. IsFiniteSet(DOMAIN h.fields)
    <3>1. IsFiniteSet(DOMAIN g.fields)
      BY <1>6 DEF FieldsOK
    <3>2. IsFiniteSet(DOMAIN g.fields \cup Fields(m, D))
      BY <1>1, <3>1, FS_Union
    <3>3. QED
      BY <1>5, <3>2
  <2>2. QED
    BY <1>7, <2>1 DEF FieldsOK
<1>9. MethodsOK(h)
  <2>1. IsFiniteSet(DOMAIN h.methods)
    <3>1. IsFiniteSet(DOMAIN g.methods)
      BY <1>6 DEF MethodsOK
    <3>2. IsFiniteSet(DOMAIN g.methods \cup Methods(m, D))
      BY <1>1, <3>1, FS_Union
    <3>3. QED
      BY <1>5, <3>2
  <2>2. QED
    BY <1>4, <1>5, <1>6, <2>1 DEF MethodsOK
<1>10. HomesOK(h)
  <2>1. h.definedIn = g.definedIn \cup {<<"Model", x>> : x \in ModelIds(m, D)}
    BY DEF ModelsAdded
  <2>2. \A x \in ModelIds(m, D) : x.module = m
    BY DEF ModelIds, ModelId
  <2>3. QED
    BY <2>1, <2>2 DEF DataOK, HomesOK
<1>11. ViewsOK(h) /\ CompsOK(h) /\ PatchesOK(h)
  <2>1. SameViews(g, h) /\ SameJs(g, h)
    BY DEF ModelsAdded
  <2>2. QED
    BY <2>1, SameViewsOK, SameJsOK DEF DataOK
<1>12. QED
  BY <1>8, <1>9, <1>10, <1>11 DEF DataOK

LEMMA ViewsAreData ==
  ASSUME NEW g, NEW h, NEW m \in Modules, NEW D, ViewsAdded(g, h, m, D), IsViews(D),
         DataOK(g), h.depends = g.depends
  PROVE  DataOK(h)
<1>1. ViewsOK(g) /\ HomesOK(g)
  BY DEF DataOK
<1>2. m # Unresolved
  BY GraphAssumption
<1>3. \A x \in DOMAIN h.views : Key(x) \in Keys(D) => x.xmlid \in Names
  <2>1. ASSUME NEW x \in DOMAIN h.views, NEW v \in D, Key(x) = Key(v)
        PROVE  x.xmlid \in Names
    BY <2>1 DEF Key, IsViews
  <2>2. QED
    BY <2>1 DEF Keys
<1>4. ASSUME NEW x \in DOMAIN h.views
      PROVE  x.xmlid \in Names /\ h.views[x].module \in Modules \cup {Unresolved}
  <2>1. CASE Key(x) \in Keys(D)
    <3>1. Mine(h, m, x) \/ IsStub(h, x)
      BY <2>1 DEF ViewsAdded
    <3>2. h.views[x].module \in {m, Unresolved}
      BY <3>1 DEF Mine, IsStub
    <3>3. QED
      BY <1>3, <2>1, <3>2
  <2>2. CASE Key(x) \notin Keys(D) /\ x \in DOMAIN g.views
    <3>1. h.views[x] = g.views[x]
      BY <2>2 DEF ViewsAdded
    <3>2. QED
      BY <1>1, <2>2, <3>1 DEF ViewsOK
  <2>3. CASE Key(x) \notin Keys(D) /\ x \notin DOMAIN g.views
    <3>1. Mine(h, m, x) \/ IsStub(h, x)
      BY <2>3 DEF ViewsAdded
    <3>2. h.views[x].module # m
      BY <1>2, <2>3 DEF ViewsAdded
    <3>3. h.views[x].module = Unresolved /\ h.views[x].unresolved
      BY <3>1, <3>2 DEF Mine, IsStub
    <3>4. PICK v \in D : Key(x) = BaseKey(v)
      BY <2>3, <3>3 DEF ViewsAdded
    <3>5. x.xmlid = v.base
      BY <3>4 DEF Key, BaseKey
    <3>6. QED
      BY <3>3, <3>5 DEF IsViews
  <2>4. QED
    BY <2>1, <2>2, <2>3
<1>5. NumbersOK(h)
  BY <1>1 DEF ViewsOK, ViewsAdded, Tied
<1>6. \A e \in h.targets : e[1] \in DOMAIN h.views
  <2>1. /\ h.targets \subseteq g.targets \cup (DOMAIN h.views) \X (DOMAIN g.models)
        /\ DOMAIN g.views \subseteq DOMAIN h.views
    BY DEF ViewsAdded
  <2>2. QED
    BY <1>1, <2>1 DEF ViewsOK
<1>7. ViewsOK(h)
  BY <1>4, <1>5, <1>6 DEF ViewsOK
<1>8. HomesOK(h)
  <2>1. \A e \in h.definedIn \ g.definedIn : \E x : e = <<"View", x>>
    BY DEF ViewsAdded
  <2>2. ASSUME NEW x, <<"Model", x>> \in h.definedIn PROVE <<"Model", x>> \in g.definedIn
    BY <2>1, <2>2
  <2>3. QED
    BY <1>1, <2>2 DEF HomesOK
<1>9. FieldsOK(h) /\ MethodsOK(h) /\ CompsOK(h) /\ PatchesOK(h)
  <2>1. SameModels(g, h) /\ SameJs(g, h)
    BY DEF ViewsAdded
  <2>2. QED
    BY <2>1, SameModelsOK, SameJsOK DEF DataOK
<1>10. QED
  BY <1>7, <1>8, <1>9 DEF DataOK

LEMMA CompsAreData ==
  ASSUME NEW g, NEW h, NEW m \in Modules, NEW D, CompsAdded(g, h, m, D), IsComps(D), DataOK(g)
  PROVE  /\ FieldsOK(h) /\ MethodsOK(h) /\ ViewsOK(h) /\ CompsOK(h) /\ PatchesOK(h)
         /\ \A x : <<"Model", x>> \in h.definedIn => x.module \in Modules
<1>1. CompsOK(g) /\ PatchesOK(g) /\ HomesOK(g)
  BY DEF DataOK
<1>2. DOMAIN h.comps = DOMAIN g.comps \cup CompIds(m, D)
  BY DEF CompsAdded
<1>3. IsFiniteSet(CompIds(m, D))
  <2>1. PICK f : f = [c \in D |-> CompId(m, c)]
    OBVIOUS
  <2>2. \A t \in CompIds(m, D) : \E c \in D : t = f[c]
    BY <2>1 DEF CompIds
  <2>3. QED
    BY <2>2, FiniteImage DEF IsComps
<1>4. \A x \in CompIds(m, D) : x.name \in Names
  BY DEF CompIds, CompId, IsComps
<1>5. IsFiniteSet(DOMAIN h.comps)
  BY <1>1, <1>2, <1>3, FS_Union DEF CompsOK
<1>6. CompsOK(h)
  BY <1>1, <1>2, <1>4, <1>5 DEF CompsOK
<1>7. PatchesOK(h)
  BY <1>1 DEF PatchesOK, CompsAdded
<1>8. FieldsOK(h) /\ MethodsOK(h) /\ ViewsOK(h)
  <2>1. SameModels(g, h) /\ SameViews(g, h)
    BY DEF CompsAdded
  <2>2. QED
    BY <2>1, SameModelsOK, SameViewsOK DEF DataOK
<1>9. ASSUME NEW x, <<"Model", x>> \in h.definedIn PROVE x.module \in Modules
  <2>1. h.definedIn = g.definedIn \cup {<<"OWLComp", y>> : y \in CompIds(m, D)}
    BY DEF CompsAdded
  <2>2. <<"Model", x>> \in g.definedIn
    BY <1>9, <2>1
  <2>3. QED
    BY <1>1, <2>2 DEF HomesOK
<1>10. QED
  BY <1>6, <1>7, <1>8, <1>9

LEMMA PatchesAreData ==
  ASSUME NEW g, NEW h, NEW m \in Modules, NEW D, PatchesAdded(g, h, m, D), IsPatches(D),
         FieldsOK(g), MethodsOK(g), ViewsOK(g), CompsOK(g), PatchesOK(g),
         \A x : <<"Model", x>> \in g.definedIn => x.module \in Modules,
         h.depends \subseteq Modules \X Modules
  PROVE  DataOK(h)
<1>1. CompsOK(h)
  <2>1. IsFiniteSet(DOMAIN h.comps)
    BY DEF CompsOK, PatchesAdded
  <2>2. \A x \in DOMAIN h.comps : x.module \in Modules => x \in DOMAIN g.comps
    BY GraphAssumption DEF PatchesAdded, IsHeld
  <2>3. QED
    BY <2>1, <2>2 DEF CompsOK
<1>2. IsFiniteSet(PatchIds(m, D))
  <2>1. PICK f : f = [p \in D |-> PatchId(m, p)]
    OBVIOUS
  <2>2. \A t \in PatchIds(m, D) : \E p \in D : t = f[p]
    BY <2>1 DEF PatchIds
  <2>3. QED
    BY <2>2, FiniteImage DEF IsPatches
<1>3. \A x \in PatchIds(m, D) : /\ x = [target |-> x.target, name |-> x.name, module |-> x.module]
                                /\ x.module \in Modules /\ x.target \in Names /\ x.name \in Names
  BY DEF PatchIds, PatchId, IsPatches
<1>4. h.patches = g.patches \cup PatchIds(m, D)
  BY DEF PatchesAdded
<1>5. IsFiniteSet(h.patches)
  <2>1. IsFiniteSet(g.patches)
    BY DEF PatchesOK
  <2>2. IsFiniteSet(g.patches \cup PatchIds(m, D))
    BY <1>2, <2>1, FS_Union
  <2>3. QED
    BY <1>4, <2>2
<1>6. PatchesOK(h)
  BY <1>3, <1>4, <1>5 DEF PatchesOK
<1>7. FieldsOK(h) /\ MethodsOK(h) /\ ViewsOK(h)
  <2>1. SameModels(g, h) /\ SameViews(g, h)
    BY DEF PatchesAdded
  <2>2. QED
    BY <2>1, SameModelsOK, SameViewsOK
<1>8. ASSUME NEW x, <<"Model", x>> \in h.definedIn PROVE x.module \in Modules
  <2>1. h.definedIn = g.definedIn \cup {<<"JSPatch", y>> : y \in PatchIds(m, D)}
    BY DEF PatchesAdded
  <2>2. <<"Model", x>> \in g.definedIn
    BY <1>8, <2>1
  <2>3. QED
    BY <2>2
<1>9. QED
  BY <1>1, <1>6, <1>7, <1>8 DEF DataOK, HomesOK

LEMMA LessIsData ==
  ASSUME NEW g, NEW h, NEW ms, Dropped(g, h, ms) \/ Deleted(g, h, ms), DataOK(g)
  PROVE  DataOK(h)
<1>1. h.depends \subseteq g.depends /\ h.definedIn \subseteq g.definedIn
  BY DEF Dropped, Deleted
<1>2. HomesOK(h)
  BY <1>1 DEF DataOK, HomesOK
<1>3. CASE Dropped(g, h, ms)
  <2>1. SameModels(g, h) /\ SameViews(g, h) /\ SameJs(g, h)
    BY <1>3 DEF Dropped
  <2>2. QED
    BY <1>2, <2>1, SameModelsOK, SameViewsOK, SameJsOK DEF DataOK
<1>4. CASE Deleted(g, h, ms)
  <2>1. FieldsOK(h)
    <3>1. FieldsOK(g) /\ DOMAIN h.fields \subseteq DOMAIN g.fields
      BY <1>4 DEF DataOK, Deleted
    <3>2. IsFiniteSet(DOMAIN h.fields)
      BY <3>1, FS_Subset DEF FieldsOK
    <3>3. QED
      BY <1>4, <3>1, <3>2 DEF FieldsOK, Deleted
  <2>2. MethodsOK(h)
    <3>1. MethodsOK(g) /\ DOMAIN h.methods \subseteq DOMAIN g.methods
      BY <1>4 DEF DataOK, Deleted
    <3>2. QED
      BY <3>1, FS_Subset DEF MethodsOK
  <2>3. ViewsOK(h)
    <3>1. /\ ViewsOK(g) /\ DOMAIN h.views = {x \in DOMAIN g.views : g.views[x].module \notin ms}
          /\ \A x \in DOMAIN h.views : h.views[x] = g.views[x]
          /\ h.targets = {e \in g.targets : g.views[e[1]].module \notin ms /\ e[2].module \notin ms}
      BY <1>4 DEF DataOK, Deleted
    <3>2. DOMAIN h.views \subseteq DOMAIN g.views
      BY <3>1
    <3>3. NumbersOK(h)
      BY <3>1, <3>2, FS_Subset DEF ViewsOK, NumbersOK
    <3>4. QED
      BY <3>1, <3>3 DEF ViewsOK
  <2>4. CompsOK(h)
    <3>1. CompsOK(g) /\ DOMAIN h.comps \subseteq DOMAIN g.comps
      BY <1>4 DEF DataOK, Deleted
    <3>2. QED
      BY <3>1, FS_Subset DEF CompsOK
  <2>5. PatchesOK(h)
    <3>1. PatchesOK(g) /\ h.patches \subseteq g.patches
      BY <1>4 DEF DataOK, Deleted
    <3>2. IsFiniteSet(h.patches)
      BY <3>1, FS_Subset DEF PatchesOK
    <3>3. QED
      BY <3>1, <3>2 DEF PatchesOK
  <2>6. QED
    BY <1>2, <2>1, <2>2, <2>3, <2>4, <2>5 DEF DataOK
<1>5. QED
  BY <1>3, <1>4

LEMMA DataStep ==
  ASSUME DataOK(graph), GraphMove
  PROVE  DataOK(graph')
<1>1. CASE QuietStep
  BY <1>1 DEF QuietStep
<1>2. CASE ModelsMove
  <2>1. PICK m \in Modules : disk[m] \in Contents[m] /\ ModelsStep(m)
    BY <1>2 DEF ModelsMove, LayerWritten
  <2>2. PICK c : c = Parse(m)
    OBVIOUS
  <2>3. IsClasses(ToSet(c.models)) /\ c.depends \subseteq Modules
    BY <2>1, <2>2, ParsedIs
  <2>4. /\ graph'.depends = graph.depends \cup {m} \X c.depends
        /\ ModelsAdded(graph, graph', m, ToSet(c.models))
    BY <2>1, <2>2 DEF ModelsStep
  <2>5. graph'.depends \subseteq Modules \X Modules
    BY <2>3, <2>4 DEF DataOK, HomesOK
  <2>6. QED
    BY <2>3, <2>4, <2>5, ClassesAreData
<1>3. CASE ViewsMove
  <2>1. PICK m \in Modules : disk[m] \in Contents[m] /\ ViewsStep(m)
    BY <1>3 DEF ViewsMove, LayerWritten
  <2>2. PICK c : c = Parse(m)
    OBVIOUS
  <2>3. IsViews(ToSet(c.views))
    BY <2>1, <2>2, ParsedIs
  <2>4. graph'.depends = graph.depends /\ ViewsAdded(graph, graph', m, ToSet(c.views))
    BY <2>1, <2>2 DEF ViewsStep
  <2>5. QED
    BY <2>3, <2>4, ViewsAreData
<1>4. CASE JsMove
  <2>1. PICK m \in Modules : disk[m] \in Contents[m] /\ JsStep(m)
    BY <1>4 DEF JsMove, LayerWritten
  <2>2. PICK c : c = Parse(m)
    OBVIOUS
  <2>3. IsComps(ToSet(c.comps)) /\ IsPatches(ToSet(c.patches))
    BY <2>1, <2>2, ParsedIs
  <2>4. graph'.depends = graph.depends
    BY <2>1 DEF JsStep
  <2>5. PICK w : /\ CompsAdded(graph, w, m, ToSet(c.comps))
                 /\ PatchesAdded(w, graph', m, ToSet(c.patches))
    BY <2>1, <2>2 DEF JsStep
  <2>6. /\ FieldsOK(w) /\ MethodsOK(w) /\ ViewsOK(w) /\ CompsOK(w) /\ PatchesOK(w)
        /\ \A x : <<"Model", x>> \in w.definedIn => x.module \in Modules
    BY <2>3, <2>5, CompsAreData
  <2>7. graph'.depends \subseteq Modules \X Modules
    BY <2>4 DEF DataOK, HomesOK
  <2>8. QED
    BY <2>3, <2>5, <2>6, <2>7, PatchesAreData
<1>5. CASE SheetsMove
  <2>1. BatchWritten(graph, graph')
    BY <1>5 DEF SheetsMove
  <2>2. SameModels(graph, graph') /\ SameViews(graph, graph') /\ SameJs(graph, graph')
    BY <2>1 DEF BatchWritten
  <2>3. HomesOK(graph')
    <3>1. graph'.depends = graph.depends
          /\ \A e \in graph'.definedIn \ graph.definedIn : e[1] = "Stylesheet"
      BY <2>1 DEF BatchWritten
    <3>2. ASSUME NEW x, <<"Model", x>> \in graph'.definedIn PROVE <<"Model", x>> \in graph.definedIn
      BY <3>1, <3>2
    <3>3. QED
      BY <3>1, <3>2 DEF DataOK, HomesOK
  <2>4. QED
    BY <2>2, <2>3, SameModelsOK, SameViewsOK, SameJsOK DEF DataOK
<1>6. CASE EndMove
  BY <1>6, LessIsData DEF EndMove
<1>7. CASE DeleteMove
  BY <1>7, LessIsData DEF DeleteMove
<1>8. QED
  BY <1>1, <1>2, <1>3, <1>4, <1>5, <1>6, <1>7 DEF GraphMove

=============================================================================
