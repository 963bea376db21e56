--------------------------- MODULE SpecLayerProofs ---------------------------
(* For any versions and sources of the framework: what the spec layer records *)
(* of the changes between two versions is what their sources say, and what it *)
(* holds of a completed version is what was parsed of it.                     *)
EXTENDS McpTools, WellFoundedInduction, SequenceTheorems, FiniteSetTheorems, TLAPS

-----------------------------------------------------------------------------
(* Numbers, and the tables of the parsers                                     *)

Below == {ss \in Nat \X Nat : ss[1] < ss[2]}

LEMMA HasMax ==
  ASSUME NEW n \in Nat, NEW S, S \subseteq 0 .. n, S # {}
  PROVE  \E x \in S : \A y \in S : y <= x
<1> DEFINE T == {n - x : x \in S}
<1>1. IsWellFoundedOn(Below, Nat)
  BY NatLessThanWellFounded DEF Below, OpToRel
<1>2. T \subseteq Nat /\ T # {}
  <2>1. \A x \in S : n - x \in Nat
    OBVIOUS
  <2>2. T \subseteq Nat
    BY <2>1
  <2>3. T # {}
    OBVIOUS
  <2>4. QED
    BY <2>2, <2>3
<1>3. \E x \in T : \A y \in T : ~ (<<y, x>> \in Below)
  <2> HIDE DEF T
  <2>1. QED
    BY <1>1, <1>2, WFMin
<1>4. PICK x \in S : \A y \in T : ~ (<<y, n - x>> \in Below)
  BY <1>3
<1>5. ASSUME NEW y \in S PROVE y <= x
  <2>1. ~ (<<n - y, n - x>> \in Below)
    BY <1>4
  <2>2. n - y \in Nat /\ n - x \in Nat
    OBVIOUS
  <2>3. ~ (n - y < n - x)
    BY <2>1, <2>2 DEF Below
  <2>4. QED
    BY <2>3
<1>6. QED
  BY <1>5

LEMMA MaxIs ==
  ASSUME NEW n \in Nat, NEW S, S \subseteq 0 .. n, S # {}
  PROVE  Max(S) \in S /\ \A y \in S : y <= Max(S)
<1>1. \E x \in S : \A y \in S : x >= y
  BY HasMax
<1>2. QED
  BY <1>1 DEF Max

\* What is listed of a version, and what is merged of it.
Item == [symbol : Symbols, status : Statuses, repl : Symbols \cup {NoSymbol}]

LEMMA ListedIs ==
  ASSUME NEW v \in CoreVersions
  PROVE  /\ Listed[v] \in Seq(Item) /\ DOMAIN Listed[v] = 1 .. Len(Listed[v])
         /\ Len(Listed[v]) \in Nat
         /\ \A i \in 1 .. Len(Listed[v]) : Listed[v][i] \in Item
<1>1. Listed[v] \in Seq(Item)
  BY CoreAssumption DEF Item
<1>2. QED
  <2> DEFINE l == Listed[v]
  <2> HIDE DEF l
  <2>1. l \in Seq(Item)
    BY <1>1 DEF l
  <2>2. DOMAIN l = 1 .. Len(l) /\ Len(l) \in Nat /\ \A i \in 1 .. Len(l) : l[i] \in Item
    BY <2>1
  <2>3. QED
    BY <2>1, <2>2 DEF l

\* Of entries of one name the last is taken.
LEMMA SymbolTableIs ==
  ASSUME NEW l \in Seq(Item)
  PROVE  /\ DOMAIN SymbolTable(l) = {l[i].symbol : i \in 1 .. Len(l)}
         /\ \A s \in DOMAIN SymbolTable(l) : \E i \in 1 .. Len(l) :
              /\ l[i].symbol = s
              /\ SymbolTable(l)[s] = [status |-> l[i].status, repl |-> l[i].repl]
<1>1. DOMAIN l = 1 .. Len(l) /\ Len(l) \in Nat
  OBVIOUS
<1>2. DOMAIN SymbolTable(l) = {l[i].symbol : i \in 1 .. Len(l)}
  BY <1>1 DEF SymbolTable
<1>3. ASSUME NEW s \in DOMAIN SymbolTable(l)
      PROVE  \E i \in 1 .. Len(l) :
               /\ l[i].symbol = s
               /\ SymbolTable(l)[s] = [status |-> l[i].status, repl |-> l[i].repl]
  <2> DEFINE S == {i \in DOMAIN l : l[i].symbol = s}
  <2>1. S \subseteq 0 .. Len(l) /\ S # {}
    BY <1>1, <1>2
  <2>2. Max(S) \in S
    <3> HIDE DEF S
    <3>1. QED
      BY <1>1, <2>1, MaxIs
  <2>3. SymbolTable(l)[s] = [status |-> l[Max(S)].status, repl |-> l[Max(S)].repl]
    BY <1>1, <1>2 DEF SymbolTable
  <2>4. QED
    BY <1>1, <2>2, <2>3
<1>4. QED
  BY <1>2, <1>3

\* Every entry is what the table says of its name.
Says(v, i) ==
  /\ Listed[v][i].symbol \in DOMAIN Table[v]
  /\ Table[v][Listed[v][i].symbol] = [status |-> Listed[v][i].status, repl |-> Listed[v][i].repl]

LEMMA TableIs ==
  ASSUME Unambiguous, NEW v \in CoreVersions
  PROVE  /\ DOMAIN Table[v] = {Listed[v][i].symbol : i \in 1 .. Len(Listed[v])}
         /\ DOMAIN Table[v] \subseteq Symbols
         /\ \A i \in 1 .. Len(Listed[v]) : Says(v, i)
         /\ \A s \in DOMAIN Table[v] :
              Table[v][s] \in [status : Statuses, repl : Symbols \cup {NoSymbol}]
<1>1. Table[v] = SymbolTable(Listed[v])
  BY DEF Table
<1>2. PICK l \in Seq(Item) : l = Listed[v]
  BY ListedIs
<1>3. DOMAIN l = 1 .. Len(l) /\ \A i \in 1 .. Len(l) : l[i] \in Item
  BY <1>2, ListedIs
<1>4. /\ DOMAIN Table[v] = {l[i].symbol : i \in 1 .. Len(l)}
      /\ \A s \in DOMAIN Table[v] : \E i \in 1 .. Len(l) :
           /\ l[i].symbol = s
           /\ Table[v][s] = [status |-> l[i].status, repl |-> l[i].repl]
  <2>1. Table[v] = SymbolTable(l)
    BY <1>1, <1>2
  <2>2. /\ DOMAIN SymbolTable(l) = {l[i].symbol : i \in 1 .. Len(l)}
        /\ \A s \in DOMAIN SymbolTable(l) : \E i \in 1 .. Len(l) :
             /\ l[i].symbol = s
             /\ SymbolTable(l)[s] = [status |-> l[i].status, repl |-> l[i].repl]
    BY SymbolTableIs
  <2>3. PICK t : t = SymbolTable(l)
    OBVIOUS
  <2>4. /\ DOMAIN t = {l[i].symbol : i \in 1 .. Len(l)}
        /\ \A s \in DOMAIN t : \E i \in 1 .. Len(l) :
             l[i].symbol = s /\ t[s] = [status |-> l[i].status, repl |-> l[i].repl]
    BY <2>2, <2>3
  <2>5. QED
    BY <2>1, <2>3, <2>4
<1>5. ASSUME NEW i \in 1 .. Len(l)
      PROVE  /\ l[i].symbol \in DOMAIN Table[v]
             /\ Table[v][l[i].symbol] = [status |-> l[i].status, repl |-> l[i].repl]
  <2>1. l[i].symbol \in DOMAIN Table[v]
    BY <1>4
  <2>2. PICK j \in 1 .. Len(l) :
          /\ l[j].symbol = l[i].symbol
          /\ Table[v][l[i].symbol] = [status |-> l[j].status, repl |-> l[j].repl]
    BY <1>4, <2>1
  <2>3. l[j] = l[i]
    BY <1>2, <1>3, <2>2 DEF Unambiguous
  <2>4. QED
    BY <2>1, <2>2, <2>3
<1>6. \A s \in DOMAIN Table[v] :
        s \in Symbols /\ Table[v][s] \in [status : Statuses, repl : Symbols \cup {NoSymbol}]
  <2>1. TAKE s \in DOMAIN Table[v]
  <2>2. PICK i \in 1 .. Len(l) :
          l[i].symbol = s /\ Table[v][s] = [status |-> l[i].status, repl |-> l[i].repl]
    BY <1>4
  <2>3. /\ l[i].symbol \in Symbols /\ l[i].status \in Statuses
        /\ l[i].repl \in Symbols \cup {NoSymbol}
    BY <1>3 DEF Item
  <2>4. QED
    BY <2>2, <2>3
<1>7. DOMAIN Table[v] = {Listed[v][i].symbol : i \in 1 .. Len(Listed[v])}
  BY <1>2, <1>4
<1>8. \A i \in 1 .. Len(Listed[v]) : Says(v, i)
  BY <1>2, <1>5 DEF Says
<1>9. QED
  BY <1>6, <1>7, <1>8

-----------------------------------------------------------------------------
(* The invariant                                                              *)

MaybeVersion == CoreVersions \cup {NoVersion}
NodeType == [status : Statuses, repl : Symbols \cup {NoSymbol}, added : MaybeVersion,
             removed : MaybeVersion, deprecated : MaybeVersion]

\* The nodes of a version are entries of its table, and say what it says.
SymbolsOK ==
  /\ symbols \in [DOMAIN symbols -> NodeType]
  /\ DOMAIN symbols \subseteq Symbols \X CoreVersions
  /\ \A n \in DOMAIN symbols :
       /\ n[1] \in DOMAIN Table[n[2]]
       /\ symbols[n].status = Table[n[2]][n[1]].status
       /\ symbols[n].repl = Table[n[2]][n[1]].repl

\* A version all of whose symbols are there.
Whole(v) == \A s \in DOMAIN Table[v] : <<s, v>> \in DOMAIN symbols

Changes(u, v) == ComputeDiff(Table[u], Table[v])

Properties == {"added", "removed", "deprecated"}
RunType == [pc : CorePhases, done : Nat, prev : MaybeVersion,
            todo : SUBSET [prop : Properties, node : Symbols \X CoreVersions],
            replaced : SUBSET (Symbols \X (Symbols \cup {NoSymbol}))]

RunsOK ==
  /\ core \in [CoreVersions -> RunType]
  /\ \A v \in CoreVersions :
       /\ core[v].pc = "symbols" =>
            /\ core[v].done <= Len(Listed[v])
            /\ \A i \in 1 .. core[v].done : <<Listed[v][i].symbol, v>> \in DOMAIN symbols
       /\ core[v].pc \notin {"idle", "symbols"} => Whole(v)

CompletedOK ==
  /\ tainted \subseteq CoreVersions /\ DOMAIN completed \subseteq CoreVersions
  /\ \A v \in DOMAIN completed : Whole(v) /\ completed[v] \subseteq DOMAIN completed \ {v}

\* What a run has yet to write is so: of what is new, when the version below was
\* whole as it was compared.
Writing == {"edges", "lifecycle"}
Due(f, u, v, doubtful) ==
  \/ /\ f.prop = "added" /\ f.node[2] = v /\ f.node[1] \in DOMAIN Table[v]
     /\ v \notin doubtful => f.node[1] \notin DOMAIN Table[u]
  \/ f.prop = "removed" /\ f.node[2] = u /\ f.node[1] \in Changes(u, v).removed
  \/ f.prop = "deprecated" /\ f.node[2] = v /\ f.node[1] \in Changes(u, v).deprecated
DiffsOK ==
  \A v \in CoreVersions : core[v].pc \in Writing =>
    /\ core[v].prev \in IndexedVersions /\ core[v].prev < v
    /\ \A f \in core[v].todo : Due(f, core[v].prev, v, tainted)
    /\ core[v].replaced \subseteq Changes(core[v].prev, v).replaced

\* What is written is so.
ValuesOK ==
  \A n \in DOMAIN symbols :
    /\ (symbols[n].added # NoVersion /\ n[2] \notin tainted) =>
         \E w \in IndexedVersions : w < n[2] /\ n[1] \notin DOMAIN Table[w]
    /\ symbols[n].removed # NoVersion =>
         symbols[n].removed > n[2] /\ n[1] \in Changes(n[2], symbols[n].removed).removed
    /\ symbols[n].deprecated # NoVersion => symbols[n].status = "deprecated"
EdgesOK ==
  /\ replacedBy \subseteq Symbols \X CoreVersions \X Symbols \X CoreVersions
  /\ \A e \in replacedBy : <<e[1], e[3]>> \in Changes(e[2], e[4]).replaced

SoundInv == SymbolsOK /\ RunsOK /\ CompletedOK /\ DiffsOK /\ ValuesOK /\ EdgesOK

\* One run at a time: what it compared with is still the version below, and what
\* has changed is yet to be written or already is.
OneRun == \A v, w \in CoreVersions : core[v].pc # "idle" /\ core[w].pc # "idle" => v = w

Task(prop, s, v) == [prop |-> prop, node |-> <<s, v>>]
Covered(u, v) ==
  /\ \A s \in Changes(u, v).added :
       Task("added", s, v) \in core[v].todo \/ symbols[<<s, v>>].added = v
  /\ \A s \in Changes(u, v).removed :
       Task("removed", s, u) \in core[v].todo \/ symbols[<<s, u>>].removed = v
  /\ \A s \in Changes(u, v).deprecated :
       Task("deprecated", s, v) \in core[v].todo \/ symbols[<<s, v>>].deprecated = v
  /\ \A p \in Changes(u, v).replaced :
       IF core[v].pc = "edges" THEN p \in core[v].replaced
                               ELSE <<p[1], u, p[2], v>> \in replacedBy
ProgressOK ==
  \A v \in CoreVersions : core[v].pc \in Writing =>
    /\ core[v].prev = FindPreviousIndexedVersion(v)
    /\ v \notin tainted => Whole(core[v].prev) /\ Covered(core[v].prev, v)

CompleteOK ==
  \A v \in DOMAIN completed \ tainted :
    LET u == FindPreviousIndexedVersion(v)
    IN  (u # NoVersion /\ After(v, u)) => Recorded(u, v)

ExactInv == OneRun /\ ProgressOK /\ CompleteOK

-----------------------------------------------------------------------------
(* What a diff finds                                                          *)

LEMMA ChangesIs ==
  ASSUME NEW u, NEW v
  PROVE  /\ Changes(u, v).added = DOMAIN Table[v] \ DOMAIN Table[u]
         /\ \A s : s \in Changes(u, v).removed <=>
              /\ s \in DOMAIN Table[u] \ DOMAIN Table[v]
              /\ Table[u][s].repl \notin DOMAIN Table[v]
         /\ \A s : s \in Changes(u, v).deprecated <=>
              /\ s \in DOMAIN Table[u] \cap DOMAIN Table[v]
              /\ Table[v][s].status = "deprecated" /\ Table[u][s].status # "deprecated"
         /\ \A p : p \in Changes(u, v).replaced <=>
              \E s \in DOMAIN Table[u] \ DOMAIN Table[v] :
                Table[u][s].repl \in DOMAIN Table[v] /\ p = <<s, Table[u][s].repl>>
BY DEF Changes, ComputeDiff, Replaced

LEMMA FetchedIs ==
  ASSUME SymbolsOK, NEW u \in CoreVersions
  PROVE  LET old == FetchCoreSymbols(u)
         IN  /\ \A s : s \in DOMAIN old <=> <<s, u>> \in DOMAIN symbols
             /\ \A s \in DOMAIN old :
                  /\ s \in DOMAIN Table[u]
                  /\ old[s].status = Table[u][s].status /\ old[s].repl = Table[u][s].repl
<1> DEFINE old == FetchCoreSymbols(u)
<1>1. DOMAIN old = {n[1] : n \in {n \in DOMAIN symbols : n[2] = u}}
  BY DEF FetchCoreSymbols
<1>2. \A n \in DOMAIN symbols : n = <<n[1], n[2]>>
  BY DEF SymbolsOK
<1>3. \A s : s \in DOMAIN old <=> <<s, u>> \in DOMAIN symbols
  BY <1>1, <1>2
<1>4. \A s \in DOMAIN old : old[s] = symbols[<<s, u>>]
  BY DEF FetchCoreSymbols
<1>5. ASSUME NEW s \in DOMAIN old
      PROVE  /\ s \in DOMAIN Table[u]
             /\ old[s].status = Table[u][s].status /\ old[s].repl = Table[u][s].repl
  <2>1. <<s, u>> \in DOMAIN symbols /\ old[s] = symbols[<<s, u>>]
    BY <1>3, <1>4
  <2>2. <<s, u>>[1] = s /\ <<s, u>>[2] = u
    OBVIOUS
  <2>3. QED
    BY <2>1, <2>2 DEF SymbolsOK
<1>6. QED
  BY <1>3, <1>5

\* A diff against a version that is partly there finds no change that is not one,
\* but for what is new; against a whole one it finds the changes.
LEMMA FoundChanges ==
  ASSUME SymbolsOK, NEW u \in CoreVersions, NEW v \in CoreVersions
  PROVE  LET d == ComputeDiff(FetchCoreSymbols(u), Table[v])
         IN  /\ d.added \subseteq DOMAIN Table[v]
             /\ Changes(u, v).added \subseteq d.added
             /\ d.removed \subseteq Changes(u, v).removed
             /\ d.deprecated \subseteq Changes(u, v).deprecated
             /\ d.replaced \subseteq Changes(u, v).replaced
             /\ Whole(u) => /\ d.added = Changes(u, v).added
                            /\ d.removed = Changes(u, v).removed
                            /\ d.deprecated = Changes(u, v).deprecated
                            /\ d.replaced = Changes(u, v).replaced
<1> DEFINE old == FetchCoreSymbols(u)
           d == ComputeDiff(old, Table[v])
<1>1. /\ \A s \in DOMAIN old : /\ s \in DOMAIN Table[u]
                               /\ old[s].status = Table[u][s].status
                               /\ old[s].repl = Table[u][s].repl
      /\ Whole(u) => DOMAIN old = DOMAIN Table[u]
  BY FetchedIs DEF Whole
<1> HIDE DEF old
<1>2. /\ d.added = DOMAIN Table[v] \ DOMAIN old
      /\ \A s : s \in d.removed <=>
           s \in DOMAIN old \ DOMAIN Table[v] /\ old[s].repl \notin DOMAIN Table[v]
      /\ \A s : s \in d.deprecated <=>
           /\ s \in DOMAIN old \cap DOMAIN Table[v]
           /\ Table[v][s].status = "deprecated" /\ old[s].status # "deprecated"
      /\ \A p : p \in d.replaced <=>
           \E s \in DOMAIN old \ DOMAIN Table[v] :
             old[s].repl \in DOMAIN Table[v] /\ p = <<s, old[s].repl>>
  BY DEF ComputeDiff, Replaced
<1> HIDE DEF d
<1>3. d.added \subseteq DOMAIN Table[v] /\ Changes(u, v).added \subseteq d.added
  BY <1>1, <1>2, ChangesIs
<1>4. d.removed \subseteq Changes(u, v).removed
  BY <1>1, <1>2, ChangesIs
<1>5. d.deprecated \subseteq Changes(u, v).deprecated
  BY <1>1, <1>2, ChangesIs
<1>6. d.replaced \subseteq Changes(u, v).replaced
  <2>1. ASSUME NEW p \in d.replaced PROVE p \in Changes(u, v).replaced
    <3>1. PICK s \in DOMAIN old \ DOMAIN Table[v] :
            old[s].repl \in DOMAIN Table[v] /\ p = <<s, old[s].repl>>
      BY <1>2
    <3>2. /\ s \in DOMAIN Table[u] \ DOMAIN Table[v]
          /\ Table[u][s].repl \in DOMAIN Table[v] /\ p = <<s, Table[u][s].repl>>
      BY <1>1, <3>1
    <3>3. QED
      BY <3>2, ChangesIs
  <2>2. QED
    BY <2>1
<1>7. ASSUME Whole(u)
      PROVE  /\ d.added = Changes(u, v).added
             /\ Changes(u, v).removed \subseteq d.removed
             /\ Changes(u, v).deprecated \subseteq d.deprecated
             /\ Changes(u, v).replaced \subseteq d.replaced
  <2>1. DOMAIN old = DOMAIN Table[u]
    BY <1>1, <1>7
  <2>2. d.added = Changes(u, v).added
    BY <1>2, <2>1, ChangesIs
  <2>3. Changes(u, v).removed \subseteq d.removed
    BY <1>1, <1>2, <2>1, ChangesIs
  <2>4. Changes(u, v).deprecated \subseteq d.deprecated
    BY <1>1, <1>2, <2>1, ChangesIs
  <2>5. ASSUME NEW p \in Changes(u, v).replaced PROVE p \in d.replaced
    <3>1. PICK s \in DOMAIN Table[u] \ DOMAIN Table[v] :
            Table[u][s].repl \in DOMAIN Table[v] /\ p = <<s, Table[u][s].repl>>
      BY ChangesIs
    <3>2. /\ s \in DOMAIN old \ DOMAIN Table[v]
          /\ old[s].repl \in DOMAIN Table[v] /\ p = <<s, old[s].repl>>
      BY <1>1, <2>1, <3>1
    <3>3. QED
      BY <1>2, <3>2
  <2>6. QED
    BY <2>2, <2>3, <2>4, <2>5
<1>8. QED
  BY <1>3, <1>4, <1>5, <1>6, <1>7 DEF d, old

\* The version below v of a set of versions.
Previous(V, v) ==
  LET lower == {w \in V : w < v} IN IF lower = {} THEN NoVersion ELSE Max(lower)

LEMMA PreviousOf ==
  ASSUME NEW V \in SUBSET CoreVersions, NEW v \in CoreVersions
  PROVE  /\ \A w \in V : w < v => Previous(V, v) # NoVersion /\ w <= Previous(V, v)
         /\ Previous(V, v) # NoVersion => Previous(V, v) \in V /\ Previous(V, v) < v
<1> DEFINE lower == {w \in V : w < v}
<1>1. CoreVersions \subseteq Nat \ {0}
  BY CoreAssumption
<1>2. v \in Nat /\ lower \subseteq 0 .. v
  <2>1. \A w \in lower : w \in Nat /\ w < v /\ v \in Nat
    BY <1>1
  <2>2. \A w \in lower : w \in 0 .. v
    BY <2>1
  <2>3. QED
    BY <1>1, <2>2
<1>3. CASE lower = {}
  BY <1>3 DEF Previous
<1>4. CASE lower # {}
  <2>1. Previous(V, v) = Max(lower)
    BY <1>4 DEF Previous
  <2>2. Max(lower) \in lower /\ \A w \in lower : w <= Max(lower)
    <3> HIDE DEF lower
    <3>1. QED
      BY <1>2, <1>4, MaxIs
  <2>3. Max(lower) # NoVersion
    BY <1>1, <2>2 DEF NoVersion
  <2>4. QED
    BY <2>1, <2>2, <2>3
<1>5. QED
  BY <1>3, <1>4

LEMMA IndexedIs ==
  ASSUME SymbolsOK
  PROVE  /\ IndexedVersions \subseteq CoreVersions
         /\ \A v : v \in IndexedVersions <=> \E s : <<s, v>> \in DOMAIN symbols
<1>1. \A n \in DOMAIN symbols : n = <<n[1], n[2]>> /\ n[2] \in CoreVersions
  BY DEF SymbolsOK
<1>2. QED
  BY <1>1 DEF IndexedVersions

\* The version below is the last one of which anything is there.
LEMMA PreviousIs ==
  ASSUME SymbolsOK, NEW v \in CoreVersions
  PROVE  LET u == FindPreviousIndexedVersion(v)
         IN  /\ \A w \in IndexedVersions : w < v => u # NoVersion /\ w <= u
             /\ u # NoVersion => u \in IndexedVersions /\ u < v
<1>1. FindPreviousIndexedVersion(v) = Previous(IndexedVersions, v)
  BY DEF FindPreviousIndexedVersion, Previous
<1>2. PICK V \in SUBSET CoreVersions : V = IndexedVersions
  BY IndexedIs
<1>3. QED
  BY <1>1, <1>2, PreviousOf

\* Versions added do not come between a version and one that stays below it.
LEMMA PreviousStays ==
  ASSUME SymbolsOK, IndexedVersions \subseteq IndexedVersions',
         IndexedVersions' \subseteq CoreVersions, NEW v \in CoreVersions,
         FindPreviousIndexedVersion(v)' \in IndexedVersions
  PROVE  FindPreviousIndexedVersion(v)' = FindPreviousIndexedVersion(v)
<1>1. /\ FindPreviousIndexedVersion(v) = Previous(IndexedVersions, v)
      /\ FindPreviousIndexedVersion(v)' = Previous(IndexedVersions', v)
  BY DEF FindPreviousIndexedVersion, Previous
<1>2. PICK V \in SUBSET CoreVersions, W \in SUBSET CoreVersions :
        V = IndexedVersions /\ W = IndexedVersions'
  BY IndexedIs
<1>3. PICK u : u = Previous(V, v)
  OBVIOUS
<1>4. PICK w : w = Previous(W, v)
  OBVIOUS
<1>5. w \in V /\ V \subseteq W
  BY <1>1, <1>2, <1>4
<1>6. w # NoVersion
  BY <1>5, CoreAssumption DEF NoVersion
<1>7. w < v /\ \A x \in W : x < v => x <= w
  BY <1>4, <1>6, PreviousOf
<1>8. u # NoVersion /\ w <= u
  BY <1>3, <1>5, <1>7, PreviousOf
<1>9. u \in V /\ u < v
  BY <1>3, <1>8, PreviousOf
<1>10. u <= w
  BY <1>5, <1>7, <1>9
<1>11. u = w
  BY <1>5, <1>8, <1>9, <1>10, CoreAssumption
<1>12. QED
  BY <1>1, <1>2, <1>3, <1>4, <1>11

LEMMA WholeIsIndexed ==
  ASSUME NotEmpty, Unambiguous, SymbolsOK, NEW v \in CoreVersions, Whole(v)
  PROVE  v \in IndexedVersions
<1>1. Len(Listed[v]) > 0
  <2>1. PICK l \in Seq(Item) : l = Listed[v]
    BY ListedIs
  <2>2. l # <<>>
    BY <2>1 DEF NotEmpty
  <2>3. Len(l) > 0
    BY <2>2
  <2>4. QED
    BY <2>1, <2>3
<1>2. Listed[v][1].symbol \in DOMAIN Table[v]
  BY <1>1, ListedIs, TableIs DEF Says
<1>3. QED
  BY <1>2, IndexedIs DEF Whole

-----------------------------------------------------------------------------
(* Steps keep what is recorded sound                                          *)

\* What may happen to the nodes in a step in which nothing is recorded.
NodesKept == /\ DOMAIN symbols \subseteq DOMAIN symbols'
        /\ \A n \in DOMAIN symbols : symbols'[n] = symbols[n]

\* A step of one run: its record is as it says, nothing that was whole is lost.
LEMMA RunBecomes ==
  ASSUME SoundInv, NEW v \in CoreVersions, NEW rec \in RunType,
         core' = [core EXCEPT ![v] = rec],
         DOMAIN symbols \subseteq DOMAIN symbols', IndexedVersions \subseteq IndexedVersions',
         \A w \in CoreVersions \ {v} : w \in tainted' <=> w \in tainted,
         rec.pc = "symbols" =>
           /\ rec.done <= Len(Listed[v])
           /\ \A i \in 1 .. rec.done : <<Listed[v][i].symbol, v>> \in DOMAIN symbols',
         rec.pc \notin {"idle", "symbols"} => \A s \in DOMAIN Table[v] : <<s, v>> \in DOMAIN symbols',
         rec.pc \in Writing =>
           /\ rec.prev \in IndexedVersions' /\ rec.prev < v
           /\ \A f \in rec.todo : Due(f, rec.prev, v, tainted')
           /\ rec.replaced \subseteq Changes(rec.prev, v).replaced
  PROVE  RunsOK' /\ DiffsOK'
<1>1. core \in [CoreVersions -> RunType]
  BY DEF SoundInv, RunsOK
<1>2. /\ core' \in [CoreVersions -> RunType] /\ core'[v] = rec
      /\ \A w \in CoreVersions \ {v} : core'[w] = core[w]
  BY <1>1
<1>3. RunsOK'
  <2>1. ASSUME NEW w \in CoreVersions
        PROVE  /\ core'[w].pc = "symbols" =>
                    /\ core'[w].done <= Len(Listed[w])
                    /\ \A i \in 1 .. core'[w].done : <<Listed[w][i].symbol, w>> \in DOMAIN symbols'
               /\ core'[w].pc \notin {"idle", "symbols"} =>
                    \A s \in DOMAIN Table[w] : <<s, w>> \in DOMAIN symbols'
    <3>1. CASE w = v
      BY <1>2, <3>1
    <3>2. CASE w # v
      BY <1>2, <3>2 DEF SoundInv, RunsOK, Whole
    <3>3. QED
      BY <3>1, <3>2
  <2>2. QED
    BY <1>2, <2>1 DEF RunsOK, Whole
<1>4. DiffsOK'
  <2>1. ASSUME NEW w \in CoreVersions, core'[w].pc \in Writing
        PROVE  /\ core'[w].prev \in IndexedVersions' /\ core'[w].prev < w
               /\ \A f \in core'[w].todo : Due(f, core'[w].prev, w, tainted')
               /\ core'[w].replaced \subseteq Changes(core'[w].prev, w).replaced
    <3>1. CASE w = v
      BY <1>2, <2>1, <3>1
    <3>2. CASE w # v
      <4>1. core'[w] = core[w] /\ (w \in tainted' <=> w \in tainted)
        BY <1>2, <3>2
      <4>2. /\ core[w].prev \in IndexedVersions /\ core[w].prev < w
            /\ \A f \in core[w].todo : Due(f, core[w].prev, w, tainted)
            /\ core[w].replaced \subseteq Changes(core[w].prev, w).replaced
        BY <2>1, <4>1 DEF SoundInv, DiffsOK
      <4>3. \A f \in core[w].todo : Due(f, core[w].prev, w, tainted')
        BY <4>1, <4>2 DEF Due
      <4>4. QED
        BY <4>1, <4>2, <4>3
    <3>3. QED
      BY <3>1, <3>2
  <2>2. QED
    BY <2>1 DEF DiffsOK, Due, Changes, ComputeDiff, Replaced
<1>5. QED
  BY <1>3, <1>4

\* The record of a run that goes to another phase, or is not there.
LEMMA IdleIs == IdleRun \in RunType /\ IdleRun.pc = "idle" /\ IdleRun.done = 0
BY DEF IdleRun, RunType, CorePhases, MaybeVersion

LEMMA AtPhase ==
  ASSUME NEW q \in RunType, NEW pc \in CorePhases
  PROVE  LET rec == [q EXCEPT !.pc = pc]
         IN  /\ rec \in RunType /\ rec.pc = pc /\ rec.done = q.done /\ rec.prev = q.prev
             /\ rec.todo = q.todo /\ rec.replaced = q.replaced
BY DEF RunType

LEMMA GotoIs ==
  ASSUME RunsOK, NEW v \in CoreVersions, NEW pc \in CorePhases, Goto(v, pc)
  PROVE  \E rec \in RunType :
           /\ core' = [core EXCEPT ![v] = rec]
           /\ rec.pc = pc /\ rec.prev = core[v].prev /\ rec.done = core[v].done
           /\ rec.todo = core[v].todo /\ rec.replaced = core[v].replaced
<1>1. PICK q \in RunType : q = core[v]
  BY DEF RunsOK
<1>2. PICK rec : rec = [q EXCEPT !.pc = pc]
  OBVIOUS
<1>3. /\ rec \in RunType /\ rec.pc = pc /\ rec.done = q.done /\ rec.prev = q.prev
      /\ rec.todo = q.todo /\ rec.replaced = q.replaced
  BY <1>2, AtPhase
<1>4. core' = [core EXCEPT ![v] = rec]
  BY <1>1, <1>2 DEF Goto
<1>5. QED
  BY <1>1, <1>3, <1>4

\* What is recorded stays as it is when the nodes do.
LEMMA RecordsKept ==
  ASSUME SoundInv, UNCHANGED symbols, tainted \subseteq tainted', tainted' \subseteq CoreVersions
  PROVE  SymbolsOK' /\ ValuesOK'
<1>1. SymbolsOK'
  BY DEF SoundInv, SymbolsOK
<1>2. IndexedVersions' = IndexedVersions
  BY DEF IndexedVersions
<1>3. ValuesOK'
  <2>1. ASSUME NEW n \in DOMAIN symbols
        PROVE  /\ (symbols[n].added # NoVersion /\ n[2] \notin tainted') =>
                    \E w \in IndexedVersions' : w < n[2] /\ n[1] \notin DOMAIN Table[w]
               /\ symbols[n].removed # NoVersion =>
                    /\ symbols[n].removed > n[2]
                    /\ n[1] \in Changes(n[2], symbols[n].removed).removed
               /\ symbols[n].deprecated # NoVersion => symbols[n].status = "deprecated"
    BY <1>2 DEF SoundInv, ValuesOK
  <2>2. QED
    BY <2>1 DEF ValuesOK, Changes, ComputeDiff, Replaced
<1>4. QED
  BY <1>1, <1>3

\* A run that leaves the nodes, the edges and the history alone.
LEMMA OnlyRunChanges ==
  ASSUME SoundInv, UNCHANGED <<symbols, replacedBy, completed, tainted>>,
         NEW v \in CoreVersions, NEW rec \in RunType, core' = [core EXCEPT ![v] = rec],
         rec.pc = "symbols" => rec.done = 0,
         rec.pc \notin {"idle", "symbols"} => Whole(v),
         rec.pc \in Writing =>
           /\ core[v].pc \in Writing /\ rec.prev = core[v].prev
           /\ rec.todo \subseteq core[v].todo /\ rec.replaced = core[v].replaced
  PROVE  SoundInv'
<1>1. SymbolsOK' /\ ValuesOK'
  BY RecordsKept DEF SoundInv, CompletedOK
<1>2. CompletedOK' /\ EdgesOK'
  BY DEF SoundInv, CompletedOK, EdgesOK, Whole, Changes, ComputeDiff, Replaced
<1>3. IndexedVersions' = IndexedVersions
  BY DEF IndexedVersions
<1>4. RunsOK' /\ DiffsOK'
  <2>1. rec.pc = "symbols" => rec.done <= Len(Listed[v]) /\ 1 .. rec.done = {}
    BY ListedIs
  <2>2. rec.pc \in Writing =>
          /\ rec.prev \in IndexedVersions' /\ rec.prev < v
          /\ \A f \in rec.todo : Due(f, rec.prev, v, tainted')
          /\ rec.replaced \subseteq Changes(rec.prev, v).replaced
    <3>1. SUFFICES ASSUME rec.pc \in Writing
                   PROVE  /\ rec.prev \in IndexedVersions' /\ rec.prev < v
                          /\ \A f \in rec.todo : Due(f, rec.prev, v, tainted')
                          /\ rec.replaced \subseteq Changes(rec.prev, v).replaced
      OBVIOUS
    <3>2. /\ rec.prev \in IndexedVersions /\ rec.prev < v
          /\ \A f \in rec.todo : Due(f, rec.prev, v, tainted)
          /\ rec.replaced \subseteq Changes(rec.prev, v).replaced
      BY <3>1 DEF SoundInv, DiffsOK
    <3>3. \A f \in rec.todo : Due(f, rec.prev, v, tainted')
      BY <3>2 DEF Due
    <3>4. QED
      BY <1>3, <3>2, <3>3
  <2>3. DOMAIN symbols \subseteq DOMAIN symbols' /\ symbols' = symbols /\ tainted' = tainted
    OBVIOUS
  <2>4. rec.pc \notin {"idle", "symbols"} => \A s \in DOMAIN Table[v] : <<s, v>> \in DOMAIN symbols'
    BY <2>3 DEF Whole
  <2>5. QED
    BY <1>3, <2>1, <2>2, <2>3, <2>4, RunBecomes
<1>5. QED
  BY <1>1, <1>2, <1>4 DEF SoundInv

LEMMA StartIndexCoreKeeps ==
  ASSUME SoundInv, NEW v \in CoreVersions, StartIndexCore(v)
  PROVE  SoundInv'
<1>1. PICK rec : rec = [IdleRun EXCEPT !.pc = "symbols"]
  OBVIOUS
<1>2. rec \in RunType /\ rec.pc = "symbols" /\ rec.done = 0
  BY <1>1 DEF IdleRun, RunType, CorePhases, MaybeVersion
<1>3. core' = [core EXCEPT ![v] = rec]
  BY <1>1 DEF StartIndexCore
<1>4. UNCHANGED <<symbols, replacedBy, completed, tainted>>
  BY DEF StartIndexCore
<1>5. QED
  BY <1>2, <1>3, <1>4, OnlyRunChanges DEF Writing

LEMMA KillIndexCoreKeeps ==
  ASSUME SoundInv, NEW v \in CoreVersions, KillIndexCore(v)
  PROVE  SoundInv'
<1>1. PICK rec \in RunType : rec = IdleRun /\ rec.pc = "idle"
  BY IdleIs
<1>2. core' = [core EXCEPT ![v] = rec] /\ UNCHANGED <<symbols, replacedBy, completed, tainted>>
  BY <1>1 DEF KillIndexCore
<1>3. QED
  BY <1>1, <1>2, OnlyRunChanges DEF Writing

\* The lint rules, commands and flags have nothing to do with the symbols.
LEMMA SideWritesKeep ==
  ASSUME SoundInv, NEW v \in CoreVersions,
         WriteLintRules(v) \/ WriteCliCommands(v) \/ WriteCliFlags(v)
  PROVE  SoundInv'
<1>1. /\ core[v].pc \in {"rules", "commands", "flags"}
      /\ UNCHANGED <<symbols, replacedBy, completed, tainted>>
      /\ \E pc \in {"commands", "flags", "diff"} : Goto(v, pc)
  BY DEF WriteLintRules, WriteCliCommands, WriteCliFlags
<1>2. PICK pc \in {"commands", "flags", "diff"} : Goto(v, pc)
  BY <1>1
<1>3. PICK rec \in RunType : core' = [core EXCEPT ![v] = rec] /\ rec.pc = pc
  BY <1>2, GotoIs DEF SoundInv, CorePhases
<1>4. Whole(v)
  BY <1>1 DEF SoundInv, RunsOK
<1>5. QED
  BY <1>1, <1>2, <1>3, <1>4, OnlyRunChanges DEF Writing

\* A run that is over is the last one.
LEMMA FinishKeeps ==
  ASSUME SoundInv, NEW v \in CoreVersions, Finish(v), core[v].pc \notin {"idle", "symbols"},
         UNCHANGED <<symbols, replacedBy, tainted>>
  PROVE  SoundInv'
<1>1. PICK rec \in RunType : rec = IdleRun /\ rec.pc = "idle"
  BY IdleIs
<1>2. core' = [core EXCEPT ![v] = rec]
  BY <1>1 DEF Finish
<1>3. Whole(v)
  BY DEF SoundInv, RunsOK
<1>4. /\ DOMAIN completed' = DOMAIN completed \cup {v}
      /\ \A w \in DOMAIN completed' :
           completed'[w] = (IF w = v THEN DOMAIN completed ELSE completed[w]) \ {v}
  BY DEF Finish
<1>5. CompletedOK'
  <2>1. tainted' \subseteq CoreVersions /\ DOMAIN completed' \subseteq CoreVersions
    BY <1>4 DEF SoundInv, CompletedOK
  <2>2. ASSUME NEW w \in DOMAIN completed'
        PROVE  Whole(w) /\ completed'[w] \subseteq DOMAIN completed' \ {w}
    BY <1>3, <1>4 DEF SoundInv, CompletedOK
  <2>3. QED
    BY <2>1, <2>2 DEF CompletedOK, Whole
<1>6. SymbolsOK' /\ ValuesOK'
  BY RecordsKept DEF SoundInv, CompletedOK
<1>7. EdgesOK'
  BY DEF SoundInv, EdgesOK, Changes, ComputeDiff, Replaced
<1>8. RunsOK' /\ DiffsOK'
  <2>1. /\ DOMAIN symbols \subseteq DOMAIN symbols' /\ tainted' = tainted
        /\ IndexedVersions \subseteq IndexedVersions'
    BY DEF IndexedVersions
  <2>2. QED
    BY <1>1, <1>2, <2>1, RunBecomes DEF Writing
<1>9. QED
  BY <1>5, <1>6, <1>7, <1>8 DEF SoundInv

\* The changes to write are those between the sources, when what was compared
\* with is whole.
LEMMA LifecycleIs ==
  ASSUME NEW d, NEW u, NEW v, NEW f \in LifecycleOf(d, u, v)
  PROVE  \/ f.prop = "added" /\ f.node[1] \in d.added /\ f.node[2] = v
         \/ f.prop = "removed" /\ f.node[1] \in d.removed /\ f.node[2] = u
         \/ f.prop = "deprecated" /\ f.node[1] \in d.deprecated /\ f.node[2] = v
BY DEF LifecycleOf

LEMMA LifecycleTyped ==
  ASSUME Unambiguous, SymbolsOK, NEW u \in CoreVersions, NEW v \in CoreVersions
  PROVE  LET d == ComputeDiff(FetchCoreSymbols(u), Table[v])
         IN  /\ LifecycleOf(d, u, v) \subseteq
                  [prop : Properties, node : Symbols \X CoreVersions]
             /\ d.replaced \subseteq Symbols \X (Symbols \cup {NoSymbol})
<1> DEFINE d == ComputeDiff(FetchCoreSymbols(u), Table[v])
<1>1. /\ d.added \subseteq DOMAIN Table[v] /\ d.removed \subseteq Changes(u, v).removed
      /\ d.deprecated \subseteq Changes(u, v).deprecated
      /\ d.replaced \subseteq Changes(u, v).replaced
  BY FoundChanges
<1> HIDE DEF d
<1>2. DOMAIN Table[v] \subseteq Symbols /\ DOMAIN Table[u] \subseteq Symbols
  BY TableIs
<1>3. d.added \subseteq Symbols /\ d.removed \subseteq Symbols /\ d.deprecated \subseteq Symbols
  BY <1>1, <1>2, ChangesIs
<1>4. LifecycleOf(d, u, v) \subseteq [prop : Properties, node : Symbols \X CoreVersions]
  BY <1>3 DEF LifecycleOf, Properties
<1>5. ASSUME NEW p \in d.replaced PROVE p \in Symbols \X (Symbols \cup {NoSymbol})
  <2>1. PICK s \in DOMAIN Table[u] : p = <<s, Table[u][s].repl>>
    BY <1>1, ChangesIs
  <2>2. Table[u][s].repl \in Symbols \cup {NoSymbol}
    BY <2>1, TableIs
  <2>3. QED
    BY <1>2, <2>1, <2>2
<1>6. QED
  BY <1>4, <1>5 DEF d

LEMMA DiffKeeps ==
  ASSUME Unambiguous, SoundInv, NEW v \in CoreVersions, DiffWithPrevious(v)
  PROVE  SoundInv'
<1> DEFINE u == FindPreviousIndexedVersion(v)
           d == ComputeDiff(FetchCoreSymbols(u), Table[v])
<1>1. core[v].pc = "diff" /\ UNCHANGED <<symbols, replacedBy>>
  BY DEF DiffWithPrevious
<1>2. CASE u = NoVersion /\ Finish(v) /\ UNCHANGED tainted
  BY <1>1, <1>2, FinishKeeps
<1>3. CASE /\ u # NoVersion
           /\ core' = [core EXCEPT ![v] = [IdleRun EXCEPT !.pc = "edges", !.prev = u,
                                             !.todo = LifecycleOf(d, u, v),
                                             !.replaced = d.replaced]]
           /\ tainted' = IF u \in DOMAIN completed THEN tainted ELSE tainted \cup {v}
           /\ UNCHANGED completed
  <2>1. SymbolsOK /\ u \in IndexedVersions /\ u < v /\ u \in CoreVersions
    BY <1>3, PreviousIs, IndexedIs DEF SoundInv
  <2>2. PICK todo, replaced : todo = LifecycleOf(d, u, v) /\ replaced = d.replaced
    OBVIOUS
  <2>3. /\ todo \subseteq [prop : Properties, node : Symbols \X CoreVersions]
        /\ replaced \subseteq Symbols \X (Symbols \cup {NoSymbol})
    BY <2>1, <2>2, LifecycleTyped
  <2>4. PICK prev \in CoreVersions : prev = u
    BY <2>1
  <2>5. PICK rec : rec = [IdleRun EXCEPT !.pc = "edges", !.prev = prev, !.todo = todo,
                                         !.replaced = replaced]
    OBVIOUS
  <2>6. /\ rec \in RunType /\ rec.pc = "edges" /\ rec.prev = prev /\ rec.todo = todo
        /\ rec.replaced = replaced
    BY <2>3, <2>5, IdleIs DEF IdleRun, RunType, CorePhases, MaybeVersion
  <2>7. core' = [core EXCEPT ![v] = rec]
    BY <1>3, <2>2, <2>4, <2>5
  <2>8. /\ \A w \in CoreVersions \ {v} : w \in tainted' <=> w \in tainted
        /\ tainted \subseteq tainted' /\ tainted' \subseteq CoreVersions
        /\ v \notin tainted' => u \in DOMAIN completed
    BY <1>3 DEF SoundInv, CompletedOK
  <2>9. ASSUME NEW f \in todo PROVE Due(f, prev, v, tainted')
    <3>1. /\ d.added \subseteq DOMAIN Table[v]
          /\ d.removed \subseteq Changes(u, v).removed
          /\ d.deprecated \subseteq Changes(u, v).deprecated
          /\ Whole(u) => d.added = Changes(u, v).added
      BY <2>1, FoundChanges
    <3>2. v \notin tainted' => Whole(u)
      BY <2>8 DEF SoundInv, CompletedOK
    <3>3. v \notin tainted' => d.added \cap DOMAIN Table[u] = {}
      BY <3>1, <3>2, ChangesIs
    <3>4. \/ f.prop = "added" /\ f.node[1] \in d.added /\ f.node[2] = v
          \/ f.prop = "removed" /\ f.node[1] \in d.removed /\ f.node[2] = u
          \/ f.prop = "deprecated" /\ f.node[1] \in d.deprecated /\ f.node[2] = v
      BY <2>2, LifecycleIs
    <3> HIDE DEF d, u
    <3>5. QED
      BY <2>4, <3>1, <3>3, <3>4 DEF Due
  <2>10. replaced \subseteq Changes(prev, v).replaced
    BY <2>1, <2>2, <2>4, FoundChanges
  <2>11. SymbolsOK' /\ ValuesOK'
    BY <1>1, <2>8, RecordsKept
  <2>12. CompletedOK' /\ EdgesOK'
    BY <1>1, <1>3, <2>8 DEF SoundInv, CompletedOK, EdgesOK, Whole, Changes, ComputeDiff, Replaced
  <2>13. RunsOK' /\ DiffsOK'
    <3>1. IndexedVersions' = IndexedVersions /\ DOMAIN symbols \subseteq DOMAIN symbols'
      BY <1>1 DEF IndexedVersions
    <3>2. prev \in IndexedVersions' /\ prev < v
      BY <2>1, <2>4, <3>1
    <3>3. \A s \in DOMAIN Table[v] : <<s, v>> \in DOMAIN symbols'
      BY <1>1 DEF SoundInv, RunsOK, Whole
    <3> HIDE DEF d, u
    <3>4. QED
      BY <2>6, <2>7, <2>8, <2>9, <2>10, <3>1, <3>2, <3>3, RunBecomes
  <2>14. QED
    BY <2>11, <2>12, <2>13 DEF SoundInv
<1>4. QED
  BY <1>2, <1>3 DEF DiffWithPrevious

\* The edges to write are those of the symbols replaced.
LEMMA WriteDiffEdgesKeeps ==
  ASSUME Unambiguous, SoundInv, NEW v \in CoreVersions, WriteDiffEdges(v)
  PROVE  SoundInv'
<1>1. core[v].pc = "edges" /\ UNCHANGED <<symbols, completed, tainted>> /\ Goto(v, "lifecycle")
  BY DEF WriteDiffEdges
<1>2. PICK u : u = core[v].prev
  OBVIOUS
<1>3. u \in CoreVersions /\ core[v].replaced \subseteq Changes(u, v).replaced
  BY <1>1, <1>2, IndexedIs DEF SoundInv, DiffsOK, Writing
<1>4. PICK rec \in RunType :
        /\ core' = [core EXCEPT ![v] = rec]
        /\ rec.pc = "lifecycle" /\ rec.prev = u /\ rec.done = core[v].done
        /\ rec.todo = core[v].todo /\ rec.replaced = core[v].replaced
  BY <1>1, <1>2, GotoIs DEF SoundInv, CorePhases
<1>5. Whole(v)
  BY <1>1 DEF SoundInv, RunsOK
<1>6. RunsOK' /\ DiffsOK'
  <2>1. IndexedVersions' = IndexedVersions /\ symbols' = symbols /\ tainted' = tainted
    BY <1>1 DEF IndexedVersions
  <2>2. /\ u \in IndexedVersions /\ u < v
        /\ \A f \in core[v].todo : Due(f, u, v, tainted)
    BY <1>1, <1>2 DEF SoundInv, DiffsOK, Writing
  <2>3. \A f \in rec.todo : Due(f, u, v, tainted')
    BY <1>4, <2>1, <2>2
  <2>4. \A s \in DOMAIN Table[v] : <<s, v>> \in DOMAIN symbols'
    BY <1>5, <2>1 DEF Whole
  <2>5. QED
    BY <1>3, <1>4, <2>1, <2>2, <2>3, <2>4, RunBecomes
<1>7. EdgesOK'
  <2>1. ASSUME NEW e \in replacedBy' \ replacedBy
        PROVE  /\ e \in Symbols \X CoreVersions \X Symbols \X CoreVersions
               /\ <<e[1], e[3]>> \in Changes(e[2], e[4]).replaced
    <3>1. PICK p \in core[v].replaced :
            <<p[2], v>> \in DOMAIN symbols /\ e = <<p[1], u, p[2], v>>
      BY <1>2 DEF WriteDiffEdges
    <3>2. p \in Changes(u, v).replaced
      BY <1>3, <3>1
    <3>3. PICK s \in DOMAIN Table[u] : p = <<s, Table[u][s].repl>>
      BY <3>2, ChangesIs
    <3>4. p[1] \in Symbols /\ p = <<p[1], p[2]>>
      BY <1>3, <3>3, TableIs
    <3>5. p[2] \in Symbols
      BY <3>1 DEF SoundInv, SymbolsOK
    <3>6. QED
      BY <1>3, <3>1, <3>2, <3>4, <3>5
  <2>2. QED
    BY <2>1 DEF SoundInv, EdgesOK, Changes, ComputeDiff, Replaced
<1>8. SymbolsOK' /\ ValuesOK'
  BY <1>1, RecordsKept DEF SoundInv, CompletedOK
<1>9. CompletedOK'
  BY <1>1 DEF SoundInv, CompletedOK, Whole
<1>10. QED
  BY <1>6, <1>7, <1>8, <1>9 DEF SoundInv

\* A property that is set, and the others.
LEMMA SetPropertyIs ==
  ASSUME NEW q \in NodeType, NEW prop \in Properties, NEW v \in MaybeVersion
  PROVE  LET r == SetProperty(q, prop, v)
         IN  /\ r \in NodeType /\ r.status = q.status /\ r.repl = q.repl
             /\ r.added = IF prop = "added" THEN v ELSE q.added
             /\ r.removed = IF prop = "removed" THEN v ELSE q.removed
             /\ r.deprecated = IF prop = "deprecated" THEN v ELSE q.deprecated
<1>1. CASE prop = "added"
  <2>1. SetProperty(q, prop, v) = [q EXCEPT !.added = v]
    BY <1>1 DEF SetProperty
  <2>2. QED
    BY <1>1, <2>1 DEF NodeType
<1>2. CASE prop = "removed"
  <2>1. SetProperty(q, prop, v) = [q EXCEPT !.removed = v]
    BY <1>2 DEF SetProperty
  <2>2. QED
    BY <1>2, <2>1 DEF NodeType
<1>3. CASE prop = "deprecated"
  <2>1. SetProperty(q, prop, v) = [q EXCEPT !.deprecated = v]
    BY <1>3 DEF SetProperty
  <2>2. QED
    BY <1>3, <2>1 DEF NodeType
<1>4. QED
  BY <1>1, <1>2, <1>3 DEF Properties

\* The nodes when one property of one of them is set.
LEMMA PropertySet ==
  ASSUME SymbolsOK, NEW f \in [prop : Properties, node : Symbols \X CoreVersions],
         NEW v \in CoreVersions, f.node \in DOMAIN symbols,
         symbols' = [symbols EXCEPT ![f.node] = SetProperty(@, f.prop, v)]
  PROVE  /\ DOMAIN symbols' = DOMAIN symbols
         /\ \A n \in DOMAIN symbols \ {f.node} : symbols'[n] = symbols[n]
         /\ symbols'[f.node] \in NodeType
         /\ symbols'[f.node].status = symbols[f.node].status
         /\ symbols'[f.node].repl = symbols[f.node].repl
         /\ symbols'[f.node].added = IF f.prop = "added" THEN v ELSE symbols[f.node].added
         /\ symbols'[f.node].removed = IF f.prop = "removed" THEN v ELSE symbols[f.node].removed
         /\ symbols'[f.node].deprecated =
              IF f.prop = "deprecated" THEN v ELSE symbols[f.node].deprecated
<1>1. PICK q \in NodeType : q = symbols[f.node]
  BY DEF SymbolsOK
<1>2. f.prop \in Properties /\ v \in MaybeVersion
  BY DEF MaybeVersion
<1>3. PICK r : r = SetProperty(q, f.prop, v)
  OBVIOUS
<1>4. /\ r \in NodeType /\ r.status = q.status /\ r.repl = q.repl
      /\ r.added = IF f.prop = "added" THEN v ELSE q.added
      /\ r.removed = IF f.prop = "removed" THEN v ELSE q.removed
      /\ r.deprecated = IF f.prop = "deprecated" THEN v ELSE q.deprecated
  BY <1>2, <1>3, SetPropertyIs
<1>5. symbols' = [symbols EXCEPT ![f.node] = r]
  BY <1>1, <1>3
<1>6. /\ DOMAIN symbols' = DOMAIN symbols /\ symbols'[f.node] = r
      /\ \A n \in DOMAIN symbols \ {f.node} : symbols'[n] = symbols[n]
  BY <1>5 DEF SymbolsOK
<1>7. QED
  BY <1>1, <1>4, <1>6

LEMMA WriteLifecycleKeeps ==
  ASSUME Unambiguous, SoundInv, NEW v \in CoreVersions, WriteLifecycleProperties(v)
  PROVE  SoundInv'
<1>1. core[v].pc = "lifecycle" /\ UNCHANGED <<replacedBy, tainted>>
  BY DEF WriteLifecycleProperties
<1>2. CASE Finish(v) /\ UNCHANGED symbols
  BY <1>1, <1>2, FinishKeeps
<1>3. CASE \E f \in core[v].todo :
             /\ symbols' = IF f.node \in DOMAIN symbols
                           THEN [symbols EXCEPT ![f.node] = SetProperty(@, f.prop, v)]
                           ELSE symbols
             /\ core' = [core EXCEPT ![v].todo = @ \ {f}]
             /\ UNCHANGED completed
  <2>1. PICK f \in core[v].todo :
          /\ symbols' = IF f.node \in DOMAIN symbols
                        THEN [symbols EXCEPT ![f.node] = SetProperty(@, f.prop, v)]
                        ELSE symbols
          /\ core' = [core EXCEPT ![v].todo = @ \ {f}]
          /\ UNCHANGED completed
    BY <1>3
  <2>2. PICK q \in RunType : q = core[v]
    BY DEF SoundInv, RunsOK
  <2>3. PICK rec : rec = [q EXCEPT !.todo = @ \ {f}]
    OBVIOUS
  <2>4. /\ rec \in RunType /\ rec.pc = "lifecycle" /\ rec.prev = q.prev
        /\ rec.todo = q.todo \ {f} /\ rec.replaced = q.replaced
    BY <1>1, <2>2, <2>3 DEF RunType
  <2>5. core' = [core EXCEPT ![v] = rec]
    BY <2>1, <2>2, <2>3
  <2>6. f \in [prop : Properties, node : Symbols \X CoreVersions]
    BY <2>1, <2>2 DEF RunType
  <2>7. PICK u : u = core[v].prev
    OBVIOUS
  <2>8. /\ u \in IndexedVersions /\ u < v /\ core[v].replaced \subseteq Changes(u, v).replaced
        /\ \A g \in core[v].todo : Due(g, u, v, tainted)
    BY <1>1, <2>7 DEF SoundInv, DiffsOK, Writing
  <2>9. CASE f.node \notin DOMAIN symbols
    <3>1. UNCHANGED <<symbols, replacedBy, completed, tainted>>
      BY <1>1, <2>1, <2>9
    <3>2. Whole(v)
      BY <1>1 DEF SoundInv, RunsOK
    <3>3. /\ rec.prev = core[v].prev /\ rec.todo \subseteq core[v].todo
          /\ rec.replaced = core[v].replaced
      BY <2>2, <2>4
    <3>4. QED
      BY <1>1, <2>4, <2>5, <3>1, <3>2, <3>3, OnlyRunChanges DEF Writing
  <2>10. CASE f.node \in DOMAIN symbols
    <3>1. symbols' = [symbols EXCEPT ![f.node] = SetProperty(@, f.prop, v)]
      BY <2>1, <2>10
    <3>2. /\ DOMAIN symbols' = DOMAIN symbols
          /\ \A n \in DOMAIN symbols \ {f.node} : symbols'[n] = symbols[n]
          /\ symbols'[f.node] \in NodeType
          /\ symbols'[f.node].status = symbols[f.node].status
          /\ symbols'[f.node].repl = symbols[f.node].repl
          /\ symbols'[f.node].added = IF f.prop = "added" THEN v ELSE symbols[f.node].added
          /\ symbols'[f.node].removed = IF f.prop = "removed" THEN v ELSE symbols[f.node].removed
          /\ symbols'[f.node].deprecated =
               IF f.prop = "deprecated" THEN v ELSE symbols[f.node].deprecated
      BY <2>6, <2>10, <3>1, PropertySet DEF SoundInv
    <3>3. IndexedVersions' = IndexedVersions
      BY <3>2 DEF IndexedVersions
    <3>4. SymbolsOK'
      <4>1. \A n \in DOMAIN symbols' :
              /\ symbols'[n] \in NodeType
              /\ symbols'[n].status = symbols[n].status /\ symbols'[n].repl = symbols[n].repl
        BY <3>2 DEF SoundInv, SymbolsOK
      <4>2. symbols' \in [DOMAIN symbols' -> NodeType]
        BY <3>1, <4>1 DEF SoundInv, SymbolsOK
      <4>3. QED
        BY <3>2, <4>1, <4>2 DEF SoundInv, SymbolsOK
    <3>5. CompletedOK' /\ EdgesOK'
      BY <1>1, <2>1, <3>2
      DEF SoundInv, CompletedOK, EdgesOK, Whole, Changes, ComputeDiff, Replaced
    <3>6. RunsOK' /\ DiffsOK'
      <4>1. tainted' = tainted
        BY <1>1
      <4>2. /\ rec.prev \in IndexedVersions' /\ rec.prev < v
            /\ rec.replaced \subseteq Changes(rec.prev, v).replaced
        BY <2>2, <2>4, <2>7, <2>8, <3>3
      <4>3. \A g \in rec.todo : Due(g, rec.prev, v, tainted')
        BY <2>2, <2>4, <2>7, <2>8, <4>1
      <4>4. \A s \in DOMAIN Table[v] : <<s, v>> \in DOMAIN symbols'
        BY <1>1, <3>2 DEF SoundInv, RunsOK, Whole
      <4>5. QED
        BY <2>4, <2>5, <3>2, <3>3, <4>1, <4>2, <4>3, <4>4, RunBecomes
    <3>7. Due(f, u, v, tainted)
      BY <2>8
    <3>8. v # NoVersion /\ u \in CoreVersions
      BY <2>8, CoreAssumption, IndexedIs DEF SoundInv, NoVersion
    <3>9. ValuesOK'
      <4>1. ASSUME NEW n \in DOMAIN symbols', symbols'[n].added # NoVersion, n[2] \notin tainted'
            PROVE  \E w \in IndexedVersions' : w < n[2] /\ n[1] \notin DOMAIN Table[w]
        <5>1. CASE n = f.node /\ f.prop = "added"
          BY <1>1, <2>8, <3>3, <3>7, <4>1, <5>1 DEF Due
        <5>2. CASE ~ (n = f.node /\ f.prop = "added")
          <6>1. symbols[n].added # NoVersion /\ n \in DOMAIN symbols
            BY <3>2, <4>1, <5>2
          <6>2. QED
            BY <1>1, <3>3, <4>1, <6>1 DEF SoundInv, ValuesOK
        <5>3. QED
          BY <5>1, <5>2
      <4>2. ASSUME NEW n \in DOMAIN symbols', symbols'[n].removed # NoVersion
            PROVE  /\ symbols'[n].removed > n[2]
                   /\ n[1] \in Changes(n[2], symbols'[n].removed).removed
        <5>1. CASE n = f.node /\ f.prop = "removed"
          <6>1. symbols'[n].removed = v
            BY <3>2, <5>1
          <6>2. n[2] = u /\ n[1] \in Changes(u, v).removed
            BY <3>7, <5>1 DEF Due
          <6>3. QED
            BY <2>8, <6>1, <6>2
        <5>2. CASE ~ (n = f.node /\ f.prop = "removed")
          <6>1. symbols'[n].removed = symbols[n].removed /\ n \in DOMAIN symbols
            BY <3>2, <4>2, <5>2
          <6>2. QED
            BY <4>2, <6>1 DEF SoundInv, ValuesOK
        <5>3. QED
          BY <5>1, <5>2
      <4>3. ASSUME NEW n \in DOMAIN symbols', symbols'[n].deprecated # NoVersion
            PROVE  symbols'[n].status = "deprecated"
        <5>1. symbols'[n].status = symbols[n].status /\ n \in DOMAIN symbols
          BY <3>2
        <5>2. CASE n = f.node /\ f.prop = "deprecated"
          <6>1. n[2] = v /\ n[1] \in Changes(u, v).deprecated
            BY <3>7, <5>2 DEF Due
          <6>2. Table[v][n[1]].status = "deprecated"
            BY <6>1, ChangesIs
          <6>3. QED
            BY <5>1, <6>1, <6>2 DEF SoundInv, SymbolsOK
        <5>3. CASE ~ (n = f.node /\ f.prop = "deprecated")
          BY <3>2, <4>3, <5>1, <5>3 DEF SoundInv, ValuesOK
        <5>4. QED
          BY <5>2, <5>3
      <4>4. QED
        BY <4>1, <4>2, <4>3 DEF ValuesOK, Changes, ComputeDiff, Replaced
    <3>10. QED
      BY <3>4, <3>5, <3>6, <3>9 DEF SoundInv
  <2>11. QED
    BY <2>9, <2>10
<1>4. QED
  BY <1>2, <1>3 DEF WriteLifecycleProperties

\* A batch is part of the table.
LEMMA BatchIs ==
  ASSUME Unambiguous, NEW v \in CoreVersions,
         NEW a \in 0 .. Len(Listed[v]), NEW b \in a .. Len(Listed[v])
  PROVE  LET t == SymbolTable(SubSeq(Listed[v], a + 1, b))
         IN  /\ DOMAIN t = {Listed[v][i].symbol : i \in a + 1 .. b}
             /\ \A s \in DOMAIN t : s \in DOMAIN Table[v] /\ t[s] = Table[v][s]
<1>1. PICK l \in Seq(Item) : l = Listed[v]
  BY ListedIs
<1>2. a \in Nat /\ b \in Nat /\ a <= b /\ b <= Len(l) /\ Len(l) \in Nat
  BY <1>1
<1>3. PICK k \in Seq(Item) : k = SubSeq(l, a + 1, b)
  <2>1. SubSeq(l, a + 1, b) \in Seq(Item)
    BY <1>2
  <2>2. QED
    BY <2>1
<1>4. Len(k) = b - a /\ \A i \in 1 .. b - a : k[i] = l[a + i]
  BY <1>2, <1>3
<1>5. PICK t : t = SymbolTable(k)
  OBVIOUS
<1>6. /\ DOMAIN t = {k[i].symbol : i \in 1 .. b - a}
      /\ \A s \in DOMAIN t : \E i \in 1 .. b - a :
           k[i].symbol = s /\ t[s] = [status |-> k[i].status, repl |-> k[i].repl]
  <2>1. /\ DOMAIN t = {k[i].symbol : i \in 1 .. Len(k)}
        /\ \A s \in DOMAIN t : \E i \in 1 .. Len(k) :
             k[i].symbol = s /\ t[s] = [status |-> k[i].status, repl |-> k[i].repl]
    BY <1>5, SymbolTableIs
  <2>2. PICK m : m = Len(k)
    OBVIOUS
  <2>3. m = b - a
    BY <1>4, <2>2
  <2>4. /\ DOMAIN t = {k[i].symbol : i \in 1 .. m}
        /\ \A s \in DOMAIN t : \E i \in 1 .. m :
             k[i].symbol = s /\ t[s] = [status |-> k[i].status, repl |-> k[i].repl]
    BY <2>1, <2>2
  <2>5. QED
    BY <2>3, <2>4
<1>7. DOMAIN t = {l[i].symbol : i \in a + 1 .. b}
  <2>1. \A i \in 1 .. b - a : a + i \in a + 1 .. b /\ k[i].symbol = l[a + i].symbol
    BY <1>2, <1>4
  <2>2. \A i \in a + 1 .. b : i - a \in 1 .. b - a /\ k[i - a].symbol = l[i].symbol
    <3>1. TAKE i \in a + 1 .. b
    <3>2. i - a \in 1 .. b - a /\ a + (i - a) = i
      BY <1>2
    <3>3. QED
      BY <1>4, <3>2
  <2>3. ASSUME NEW s \in DOMAIN t PROVE \E i \in a + 1 .. b : s = l[i].symbol
    <3>1. PICK i \in 1 .. b - a : s = k[i].symbol
      BY <1>6
    <3>2. QED
      BY <2>1, <3>1
  <2>4. ASSUME NEW i \in a + 1 .. b PROVE l[i].symbol \in DOMAIN t
    BY <1>6, <2>2
  <2>5. QED
    BY <2>3, <2>4
<1>8. ASSUME NEW s \in DOMAIN t
      PROVE  s \in DOMAIN Table[v] /\ t[s] = Table[v][s]
  <2>1. PICK i \in 1 .. b - a :
          l[a + i].symbol = s /\ t[s] = [status |-> l[a + i].status, repl |-> l[a + i].repl]
    <3>1. PICK i \in 1 .. b - a :
            k[i].symbol = s /\ t[s] = [status |-> k[i].status, repl |-> k[i].repl]
      BY <1>6
    <3>2. QED
      BY <1>4, <3>1
  <2>2. a + i \in 1 .. Len(l)
    BY <1>2
  <2>3. QED
    BY <1>1, <2>1, <2>2, TableIs DEF Says
<1>9. QED
  BY <1>1, <1>3, <1>5, <1>7, <1>8

\* The nodes after a batch: those that were there are as they were, a new one has
\* no lifecycle.
Merged(v, upto) ==
  /\ NodesKept
  /\ \A n \in DOMAIN symbols' \ DOMAIN symbols :
       /\ n \in Symbols \X {v} /\ n[1] \in DOMAIN Table[v]
       /\ symbols'[n] \in NodeType
       /\ symbols'[n].status = Table[v][n[1]].status /\ symbols'[n].repl = Table[v][n[1]].repl
       /\ symbols'[n].added = NoVersion /\ symbols'[n].removed = NoVersion
       /\ symbols'[n].deprecated = NoVersion
  /\ symbols' = [n \in DOMAIN symbols' |-> symbols'[n]]
  /\ \A i \in 1 .. upto : <<Listed[v][i].symbol, v>> \in DOMAIN symbols'

LEMMA BatchMerged ==
  ASSUME Unambiguous, SoundInv, NEW v \in CoreVersions, WriteCoreSymbols(v)
  PROVE  \E upto \in 0 .. Len(Listed[v]) : \E rec \in RunType :
           /\ core' = [core EXCEPT ![v] = rec] /\ rec.done = upto
           /\ rec.pc = IF upto = Len(Listed[v]) THEN "rules" ELSE "symbols"
           /\ Merged(v, upto)
<1>1. core[v].pc = "symbols"
  BY DEF WriteCoreSymbols
<1>2. PICK q \in RunType : q = core[v]
  BY DEF SoundInv, RunsOK
<1>3. /\ q.done \in Nat /\ q.done <= Len(Listed[v]) /\ Len(Listed[v]) \in Nat
      /\ \A i \in 1 .. q.done : <<Listed[v][i].symbol, v>> \in DOMAIN symbols
  BY <1>1, <1>2, ListedIs DEF RunType, SoundInv, RunsOK
<1>4. PICK upto : upto = Min({q.done + BatchSize, Len(Listed[v])})
  OBVIOUS
<1>5. upto \in q.done .. Len(Listed[v])
  <2>1. BatchSize \in Nat
    BY LayerAssumption
  <2>2. PICK x \in Nat : x = q.done + BatchSize /\ q.done <= x
    <3>1. q.done \in Nat /\ q.done + BatchSize \in Nat /\ q.done <= q.done + BatchSize
      BY <1>3, <2>1
    <3>2. QED
      BY <3>1
  <2>3. PICK y \in Nat : y = Len(Listed[v]) /\ q.done <= y
    BY <1>3
  <2>4. \E z \in {x, y} : \A w \in {x, y} : z <= w
    <3>1. CASE x <= y
      BY <3>1
    <3>2. CASE y <= x
      BY <3>2
    <3>3. QED
      BY <3>1, <3>2
  <2>5. Min({x, y}) \in {x, y} /\ \A w \in {x, y} : Min({x, y}) <= w
    BY <2>4 DEF Min
  <2>6. upto \in {x, y} /\ upto <= y
    BY <1>4, <2>2, <2>3, <2>5
  <2>7. QED
    BY <1>3, <2>2, <2>3, <2>6
<1>6. PICK batch : batch = SymbolTable(SubSeq(Listed[v], q.done + 1, upto))
  OBVIOUS
<1>7. /\ DOMAIN batch = {Listed[v][i].symbol : i \in q.done + 1 .. upto}
      /\ \A s \in DOMAIN batch : s \in DOMAIN Table[v] /\ batch[s] = Table[v][s]
  <2>1. q.done \in 0 .. Len(Listed[v])
    BY <1>3
  <2>2. QED
    BY <1>5, <1>6, <2>1, BatchIs
<1>8. symbols' =
        [n \in DOMAIN symbols \cup (DOMAIN batch) \X {v} |->
          IF n[2] # v \/ n[1] \notin DOMAIN batch THEN symbols[n]
          ELSE IF n \in DOMAIN symbols THEN Matched(symbols[n], batch[n[1]])
          ELSE Created(batch[n[1]])]
  BY <1>2, <1>4, <1>6 DEF WriteCoreSymbols
<1>9. /\ DOMAIN symbols' = DOMAIN symbols \cup (DOMAIN batch) \X {v}
      /\ symbols' = [n \in DOMAIN symbols' |-> symbols'[n]]
  BY <1>8
<1>10. NodesKept
  <2>1. ASSUME NEW n \in DOMAIN symbols PROVE symbols'[n] = symbols[n]
    <3>1. CASE n[2] # v \/ n[1] \notin DOMAIN batch
      BY <1>8, <3>1
    <3>2. CASE n[2] = v /\ n[1] \in DOMAIN batch
      <4>1. PICK x \in NodeType : x = symbols[n]
        BY DEF SoundInv, SymbolsOK
      <4>2. x.status = batch[n[1]].status /\ x.repl = batch[n[1]].repl
        BY <1>7, <3>2, <4>1 DEF SoundInv, SymbolsOK
      <4>3. symbols'[n] = Matched(x, batch[n[1]])
        BY <1>8, <3>2, <4>1
      <4>4. Matched(x, batch[n[1]]) = x
        BY <4>2 DEF Matched, NodeType
      <4>5. QED
        BY <4>1, <4>3, <4>4
    <3>3. QED
      BY <3>1, <3>2
  <2>2. QED
    BY <1>9, <2>1 DEF NodesKept
<1>11. ASSUME NEW n \in DOMAIN symbols' \ DOMAIN symbols
       PROVE  /\ n \in Symbols \X {v} /\ n[1] \in DOMAIN Table[v]
              /\ symbols'[n] \in NodeType
              /\ symbols'[n].status = Table[v][n[1]].status
              /\ symbols'[n].repl = Table[v][n[1]].repl
              /\ symbols'[n].added = NoVersion /\ symbols'[n].removed = NoVersion
              /\ symbols'[n].deprecated = NoVersion
  <2>1. n \in (DOMAIN batch) \X {v}
    BY <1>9
  <2>2. PICK s \in DOMAIN batch : n = <<s, v>>
    BY <2>1
  <2>3. /\ s \in DOMAIN Table[v] /\ batch[s] = Table[v][s] /\ s \in Symbols
        /\ Table[v][s] \in [status : Statuses, repl : Symbols \cup {NoSymbol}]
    BY <1>7, <2>2, TableIs
  <2>4. symbols'[n] = [status |-> Table[v][s].status, repl |-> Table[v][s].repl,
                       added |-> NoVersion, removed |-> NoVersion, deprecated |-> NoVersion]
    <3>1. symbols'[n] = Created(batch[s])
      BY <1>8, <1>9, <2>2, <2>3
    <3>2. QED
      BY <2>3, <3>1 DEF Created
  <2>5. n[1] = s
    BY <2>2
  <2>6. QED
    BY <2>2, <2>3, <2>4, <2>5 DEF NodeType, MaybeVersion
<1>12. ASSUME NEW i \in 1 .. upto PROVE <<Listed[v][i].symbol, v>> \in DOMAIN symbols'
  <2>1. CASE i <= q.done
    BY <1>3, <1>9, <2>1
  <2>2. CASE ~ (i <= q.done)
    <3>1. i \in q.done + 1 .. upto
      BY <1>3, <1>5, <2>2
    <3>2. QED
      BY <1>7, <1>9, <3>1
  <2>3. QED
    BY <2>1, <2>2
<1>13. Merged(v, upto)
  BY <1>9, <1>10, <1>11, <1>12 DEF Merged
<1>14. PICK pc \in CorePhases : pc = IF upto = Len(Listed[v]) THEN "rules" ELSE "symbols"
  BY DEF CorePhases
<1>15. PICK rec : rec = [q EXCEPT !.done = upto, !.pc = pc]
  OBVIOUS
<1>16. rec \in RunType /\ rec.done = upto /\ rec.pc = pc
  <2>1. upto \in Nat
    BY <1>3, <1>5
  <2>2. QED
    BY <1>15, <2>1 DEF RunType
<1>17. core' = [core EXCEPT ![v] = rec]
  <2>1. core' = [core EXCEPT ![v] = [core[v] EXCEPT !.done = upto, !.pc = pc]]
    BY <1>2, <1>4, <1>14 DEF WriteCoreSymbols
  <2>2. QED
    BY <1>2, <1>15, <2>1
<1>18. upto \in 0 .. Len(Listed[v])
  BY <1>3, <1>5
<1>19. QED
  BY <1>13, <1>14, <1>16, <1>17, <1>18

LEMMA WriteCoreSymbolsKeeps ==
  ASSUME Unambiguous, SoundInv, NEW v \in CoreVersions, WriteCoreSymbols(v)
  PROVE  SoundInv'
<1>1. UNCHANGED <<replacedBy, completed, tainted>>
  BY DEF WriteCoreSymbols
<1>2. PICK upto \in 0 .. Len(Listed[v]) : \E rec \in RunType :
        /\ core' = [core EXCEPT ![v] = rec] /\ rec.done = upto
        /\ rec.pc = IF upto = Len(Listed[v]) THEN "rules" ELSE "symbols"
        /\ Merged(v, upto)
  BY BatchMerged
<1>3. PICK rec \in RunType :
        /\ core' = [core EXCEPT ![v] = rec] /\ rec.done = upto
        /\ rec.pc = IF upto = Len(Listed[v]) THEN "rules" ELSE "symbols"
        /\ Merged(v, upto)
  BY <1>2
<1>4. /\ DOMAIN symbols \subseteq DOMAIN symbols'
      /\ \A n \in DOMAIN symbols : symbols'[n] = symbols[n]
  BY <1>3 DEF Merged, NodesKept
<1>5. IndexedVersions \subseteq IndexedVersions'
  BY <1>4 DEF IndexedVersions
<1>6. SymbolsOK'
  <2>1. ASSUME NEW n \in DOMAIN symbols'
        PROVE  /\ symbols'[n] \in NodeType /\ n \in Symbols \X CoreVersions
               /\ n[1] \in DOMAIN Table[n[2]]
               /\ symbols'[n].status = Table[n[2]][n[1]].status
               /\ symbols'[n].repl = Table[n[2]][n[1]].repl
    <3>1. CASE n \in DOMAIN symbols
      BY <1>4, <3>1 DEF SoundInv, SymbolsOK
    <3>2. CASE n \notin DOMAIN symbols
      <4>1. /\ n \in Symbols \X {v} /\ n[1] \in DOMAIN Table[v]
            /\ symbols'[n] \in NodeType
            /\ symbols'[n].status = Table[v][n[1]].status
            /\ symbols'[n].repl = Table[v][n[1]].repl
        BY <1>3, <3>2 DEF Merged
      <4>2. n[2] = v /\ n \in Symbols \X CoreVersions
        BY <4>1
      <4>3. QED
        BY <4>1, <4>2
    <3>3. QED
      BY <3>1, <3>2
  <2>2. symbols' = [n \in DOMAIN symbols' |-> symbols'[n]]
    BY <1>3 DEF Merged
  <2>3. symbols' \in [DOMAIN symbols' -> NodeType]
    BY <2>1, <2>2
  <2>4. QED
    BY <2>1, <2>3 DEF SymbolsOK
<1>7. ValuesOK'
  <2>1. ASSUME NEW n \in DOMAIN symbols'
        PROVE  /\ (symbols'[n].added # NoVersion /\ n[2] \notin tainted') =>
                    \E w \in IndexedVersions' : w < n[2] /\ n[1] \notin DOMAIN Table[w]
               /\ symbols'[n].removed # NoVersion =>
                    /\ symbols'[n].removed > n[2]
                    /\ n[1] \in Changes(n[2], symbols'[n].removed).removed
               /\ symbols'[n].deprecated # NoVersion => symbols'[n].status = "deprecated"
    <3>1. CASE n \in DOMAIN symbols
      BY <1>1, <1>4, <1>5, <3>1 DEF SoundInv, ValuesOK
    <3>2. CASE n \notin DOMAIN symbols
      BY <1>3, <3>2 DEF Merged
    <3>3. QED
      BY <3>1, <3>2
  <2>2. QED
    BY <2>1 DEF ValuesOK, Changes, ComputeDiff, Replaced
<1>8. CompletedOK' /\ EdgesOK'
  BY <1>1, <1>4 DEF SoundInv, CompletedOK, EdgesOK, Whole, Changes, ComputeDiff, Replaced
<1>9. RunsOK' /\ DiffsOK'
  <2>1. rec.done <= Len(Listed[v]) /\ rec.pc \notin Writing
    BY <1>3, ListedIs DEF Writing
  <2>2. \A i \in 1 .. rec.done : <<Listed[v][i].symbol, v>> \in DOMAIN symbols'
    BY <1>3 DEF Merged
  <2>3. rec.pc \notin {"idle", "symbols"} => \A s \in DOMAIN Table[v] : <<s, v>> \in DOMAIN symbols'
    <3>1. SUFFICES ASSUME rec.pc \notin {"idle", "symbols"}, NEW s \in DOMAIN Table[v]
                   PROVE  <<s, v>> \in DOMAIN symbols'
      OBVIOUS
    <3>2. rec.done = Len(Listed[v])
      BY <1>3, <3>1
    <3>3. PICK i \in 1 .. Len(Listed[v]) : s = Listed[v][i].symbol
      BY TableIs
    <3>4. QED
      BY <2>2, <3>2, <3>3
  <2>4. QED
    BY <1>1, <1>3, <1>4, <1>5, <2>1, <2>2, <2>3, RunBecomes
<1>10. QED
  BY <1>6, <1>7, <1>8, <1>9 DEF SoundInv

\* No step reads or writes the nodes of another version but those of the version
\* below that a symbol is gone from, and the writes of the code graph none.
LEMMA SoundStep ==
  ASSUME Unambiguous, SoundInv, [Next]_vars
  PROVE  SoundInv'
<1>1. CASE \E v \in CoreVersions : CoreStep(v)
  <2>1. PICK v \in CoreVersions : CoreStep(v)
    BY <1>1
  <2>2. CASE StartIndexCore(v)
    BY <2>2, StartIndexCoreKeeps
  <2>3. CASE WriteCoreSymbols(v)
    BY <2>3, WriteCoreSymbolsKeeps
  <2>4. CASE WriteLintRules(v) \/ WriteCliCommands(v) \/ WriteCliFlags(v)
    BY <2>4, SideWritesKeep
  <2>5. CASE DiffWithPrevious(v)
    BY <2>5, DiffKeeps
  <2>6. CASE WriteDiffEdges(v)
    BY <2>6, WriteDiffEdgesKeeps
  <2>7. CASE WriteLifecycleProperties(v)
    BY <2>7, WriteLifecycleKeeps
  <2>8. CASE KillIndexCore(v)
    BY <2>8, KillIndexCoreKeeps
  <2>9. QED
    BY <2>1, <2>2, <2>3, <2>4, <2>5, <2>6, <2>7, <2>8 DEF CoreStep
<1>2. CASE UNCHANGED coreVars
  <2>1. UNCHANGED <<symbols, replacedBy, core, completed, tainted>>
    BY <1>2 DEF coreVars
  <2>2. QED
    BY <2>1 DEF SoundInv, SymbolsOK, RunsOK, CompletedOK, DiffsOK, ValuesOK, EdgesOK,
                Whole, IndexedVersions, Due, Changes, ComputeDiff, Replaced
<1>3. QED
  BY <1>1, <1>2 DEF Next, vars

LEMMA SoundInit ==
  ASSUME Init
  PROVE  SoundInv
<1>1. /\ DOMAIN symbols = {} /\ replacedBy = {} /\ core = [v \in CoreVersions |-> IdleRun]
      /\ DOMAIN completed = {} /\ tainted = {} /\ symbols = [n \in {} |-> n]
  BY DEF Init, CoreInit
<1>2. core \in [CoreVersions -> RunType] /\ \A v \in CoreVersions : core[v].pc = "idle"
  BY <1>1, IdleIs
<1>3. symbols \in [DOMAIN symbols -> NodeType]
  BY <1>1
<1>4. QED
  BY <1>1, <1>2, <1>3 DEF SoundInv, SymbolsOK, RunsOK, CompletedOK, DiffsOK, ValuesOK,
                          EdgesOK, Writing

LEMMA SoundIsSound ==
  ASSUME SoundInv
  PROVE  LifecycleIsSound
<1>1. ASSUME NEW n \in DOMAIN symbols
      PROVE  /\ (symbols[n].added # NoVersion /\ n[2] \notin tainted) =>
                  \E w \in IndexedVersions : w < n[2] /\ n[1] \notin DOMAIN Table[w]
             /\ symbols[n].removed # NoVersion =>
                  /\ symbols[n].removed > n[2]
                  /\ n[1] \notin DOMAIN Table[symbols[n].removed]
             /\ symbols[n].deprecated # NoVersion => symbols[n].status = "deprecated"
  BY ChangesIs DEF SoundInv, ValuesOK
<1>2. ASSUME NEW e \in replacedBy
      PROVE  /\ e[1] \in DOMAIN Table[e[2]] \ DOMAIN Table[e[4]]
             /\ e[3] \in DOMAIN Table[e[4]]
  <2>1. <<e[1], e[3]>> \in Changes(e[2], e[4]).replaced
    BY DEF SoundInv, EdgesOK
  <2>2. PICK s \in DOMAIN Table[e[2]] \ DOMAIN Table[e[4]] :
          /\ Table[e[2]][s].repl \in DOMAIN Table[e[4]]
          /\ <<e[1], e[3]>> = <<s, Table[e[2]][s].repl>>
    BY <2>1, ChangesIs
  <2>3. QED
    BY <2>2
<1>3. QED
  BY <1>1, <1>2 DEF LifecycleIsSound

\* Whatever order the versions are indexed in, several at a time or not, and
\* wherever a run is killed: no symbol is said to be new, gone, deprecated or
\* replaced in a version when the sources do not say so (index_core, compute_diff,
\* write_diff_edges, write_lifecycle_properties).
THEOREM LifecycleIsAlwaysSound == Unambiguous /\ Spec => []LifecycleIsSound
<1> SUFFICES ASSUME Unambiguous PROVE Spec => []LifecycleIsSound
  OBVIOUS
<1>1. Init => SoundInv
  BY SoundInit
<1>2. SoundInv /\ [Next]_vars => SoundInv'
  BY SoundStep
<1>3. SoundInv => LifecycleIsSound
  BY SoundIsSound
<1>4. QED
  BY <1>1, <1>2, <1>3, PTL DEF Spec

-----------------------------------------------------------------------------
(* One run at a time: what is recorded is all that changed                    *)

LEMMA RecordedIs ==
  ASSUME NEW u, NEW v
  PROVE  Recorded(u, v) <=>
           /\ \A s \in Changes(u, v).added      : symbols[<<s, v>>].added = v
           /\ \A s \in Changes(u, v).removed    : symbols[<<s, u>>].removed = v
           /\ \A s \in Changes(u, v).deprecated : symbols[<<s, v>>].deprecated = v
           /\ \A p \in Changes(u, v).replaced   : /\ <<p[1], u, p[2], v>> \in replacedBy
                                                  /\ symbols[<<p[1], u>>].removed # v
BY DEF Recorded, Changes

\* What is recorded when these formulas hold of the nodes and edges after a step.
LEMMA RecordedAfter ==
  ASSUME NEW u, NEW v,
         \A s \in Changes(u, v).added      : symbols'[<<s, v>>].added = v,
         \A s \in Changes(u, v).removed    : symbols'[<<s, u>>].removed = v,
         \A s \in Changes(u, v).deprecated : symbols'[<<s, v>>].deprecated = v,
         \A p \in Changes(u, v).replaced   : /\ <<p[1], u, p[2], v>> \in replacedBy'
                                             /\ symbols'[<<p[1], u>>].removed # v
  PROVE  Recorded(u, v)'
BY DEF Recorded, Changes, ComputeDiff, Replaced

\* The nodes a change is about are there when both versions are whole.
LEMMA ChangedNodes ==
  ASSUME NEW u, NEW v, Whole(u), Whole(v)
  PROVE  /\ \A s \in Changes(u, v).added      : <<s, v>> \in DOMAIN symbols
         /\ \A s \in Changes(u, v).removed    : <<s, u>> \in DOMAIN symbols
         /\ \A s \in Changes(u, v).deprecated : <<s, v>> \in DOMAIN symbols
         /\ \A p \in Changes(u, v).replaced   : /\ <<p[1], u>> \in DOMAIN symbols
                                                /\ <<p[2], v>> \in DOMAIN symbols
                                                /\ p[1] \notin Changes(u, v).removed
<1>1. \A s \in Changes(u, v).added : s \in DOMAIN Table[v]
  BY ChangesIs
<1>2. \A s \in Changes(u, v).removed : s \in DOMAIN Table[u]
  BY ChangesIs
<1>3. \A s \in Changes(u, v).deprecated : s \in DOMAIN Table[v]
  BY ChangesIs
<1>4. ASSUME NEW p \in Changes(u, v).replaced
      PROVE  /\ p[1] \in DOMAIN Table[u] /\ p[2] \in DOMAIN Table[v]
             /\ p[1] \notin Changes(u, v).removed
  <2>1. PICK s \in DOMAIN Table[u] \ DOMAIN Table[v] :
          Table[u][s].repl \in DOMAIN Table[v] /\ p = <<s, Table[u][s].repl>>
    BY ChangesIs
  <2>2. p[1] = s /\ p[2] = Table[u][s].repl
    BY <2>1
  <2>3. s \notin Changes(u, v).removed
    BY <2>1, ChangesIs
  <2>4. QED
    BY <2>1, <2>2, <2>3
<1>5. QED
  BY <1>1, <1>2, <1>3, <1>4 DEF Whole

\* A run under way is alone before and after a step of it.
LEMMA StaysAlone ==
  ASSUME OneRun, SoundInv, NEW v \in CoreVersions, NEW rec \in RunType,
         core' = [core EXCEPT ![v] = rec], core[v].pc # "idle"
  PROVE  /\ OneRun' /\ core'[v] = rec
         /\ \A w \in CoreVersions \ {v} : core'[w] = core[w] /\ core[w].pc = "idle"
<1>1. core \in [CoreVersions -> RunType]
  BY DEF SoundInv, RunsOK
<1>2. core'[v] = rec /\ \A w \in CoreVersions \ {v} : core'[w] = core[w]
  BY <1>1
<1>3. \A w \in CoreVersions \ {v} : core[w].pc = "idle"
  BY DEF OneRun
<1>4. OneRun'
  BY <1>2, <1>3 DEF OneRun
<1>5. QED
  BY <1>2, <1>3, <1>4

\* What was recorded of a version and the one still below it is so after a step
\* that only adds nodes.
LEMMA StillRecorded ==
  ASSUME Unambiguous, NotEmpty, SoundInv, SoundInv', CompleteOK, NodesKept,
         replacedBy \subseteq replacedBy', NEW w \in DOMAIN completed, w \notin tainted,
         NEW u, u = FindPreviousIndexedVersion(w)', u \in completed[w]
  PROVE  Recorded(u, w)'
<1>1. w \in CoreVersions /\ u \in CoreVersions /\ Whole(u) /\ Whole(w)
  BY DEF SoundInv, CompletedOK
<1>2. u \in IndexedVersions /\ u # NoVersion
  BY <1>1, WholeIsIndexed, CoreAssumption DEF SoundInv, NoVersion
<1>3. IndexedVersions \subseteq IndexedVersions'
  BY DEF NodesKept, IndexedVersions
<1>4. IndexedVersions' \subseteq CoreVersions
  BY DEF SoundInv, SymbolsOK, IndexedVersions
<1>5. u = FindPreviousIndexedVersion(w)
  BY <1>1, <1>2, <1>3, <1>4, PreviousStays DEF SoundInv
<1>6. Recorded(u, w)
  BY <1>2, <1>5 DEF CompleteOK, After
<1>7. \A n \in DOMAIN symbols : symbols'[n] = symbols[n]
  BY DEF NodesKept
<1>8. QED
  <2>1. /\ \A s \in Changes(u, w).added      : symbols[<<s, w>>].added = w
        /\ \A s \in Changes(u, w).removed    : symbols[<<s, u>>].removed = w
        /\ \A s \in Changes(u, w).deprecated : symbols[<<s, w>>].deprecated = w
        /\ \A p \in Changes(u, w).replaced   : /\ <<p[1], u, p[2], w>> \in replacedBy
                                               /\ symbols[<<p[1], u>>].removed # w
    BY <1>6, RecordedIs
  <2>2. \A s \in Changes(u, w).added : symbols'[<<s, w>>].added = w
    BY <1>1, <1>7, <2>1, ChangedNodes
  <2>3. \A s \in Changes(u, w).removed : symbols'[<<s, u>>].removed = w
    BY <1>1, <1>7, <2>1, ChangedNodes
  <2>4. \A s \in Changes(u, w).deprecated : symbols'[<<s, w>>].deprecated = w
    BY <1>1, <1>7, <2>1, ChangedNodes
  <2>5. \A p \in Changes(u, w).replaced : /\ <<p[1], u, p[2], w>> \in replacedBy'
                                          /\ symbols'[<<p[1], u>>].removed # w
    BY <1>1, <1>7, <2>1, ChangedNodes
  <2>6. QED
    BY <2>2, <2>3, <2>4, <2>5, RecordedAfter

LEMMA CompleteKept ==
  ASSUME Unambiguous, NotEmpty, SoundInv, SoundInv', CompleteOK, NodesKept,
         replacedBy \subseteq replacedBy', completed' = completed, tainted \subseteq tainted'
  PROVE  CompleteOK'
<1>1. ASSUME NEW w \in DOMAIN completed' \ tainted', NEW u, u = FindPreviousIndexedVersion(w)',
             u # NoVersion, u \in completed'[w]
      PROVE  Recorded(u, w)'
  BY <1>1, StillRecorded
<1>2. QED
  BY <1>1 DEF CompleteOK, After, Recorded

\* What the run under way has yet to write, or has written, after a step of it.
LEMMA CoveredAfter ==
  ASSUME NEW u, NEW v, NEW rec, core'[v] = rec,
         \A s \in Changes(u, v).added :
           Task("added", s, v) \in rec.todo \/ symbols'[<<s, v>>].added = v,
         \A s \in Changes(u, v).removed :
           Task("removed", s, u) \in rec.todo \/ symbols'[<<s, u>>].removed = v,
         \A s \in Changes(u, v).deprecated :
           Task("deprecated", s, v) \in rec.todo \/ symbols'[<<s, v>>].deprecated = v,
         \A p \in Changes(u, v).replaced :
           IF rec.pc = "edges" THEN p \in rec.replaced
                               ELSE <<p[1], u, p[2], v>> \in replacedBy'
  PROVE  Covered(u, v)'
BY DEF Covered, Changes, ComputeDiff, Replaced, Task

LEMMA ProgressAfter ==
  ASSUME NEW v \in CoreVersions, NEW u,
         \A w \in CoreVersions \ {v} : core'[w].pc = "idle",
         core'[v].pc \in Writing =>
           /\ core'[v].prev = u /\ u = FindPreviousIndexedVersion(v)'
           /\ v \notin tainted' => Whole(u)' /\ Covered(u, v)'
  PROVE  ProgressOK'
<1>1. ASSUME NEW w \in CoreVersions, core'[w].pc \in Writing
      PROVE  /\ core'[w].prev = FindPreviousIndexedVersion(w)'
             /\ w \notin tainted' => (Whole(core[w].prev))' /\ (Covered(core[w].prev, w))'
  <2>1. w = v
    BY <1>1 DEF Writing
  <2>2. core'[v].prev = u /\ u = FindPreviousIndexedVersion(v)'
    BY <1>1, <2>1
  <2>3. v \notin tainted' => Whole(u)' /\ Covered(u, v)'
    BY <1>1, <2>1
  <2>4. v \notin tainted' => (Whole(core[v].prev))'
    BY <2>2, <2>3 DEF Whole
  <2>5. v \notin tainted' => (Covered(core[v].prev, v))'
    BY <2>2, <2>3 DEF Covered, Changes, ComputeDiff, Replaced
  <2>6. QED
    BY <2>1, <2>2, <2>4, <2>5
<1>2. QED
  BY <1>1 DEF ProgressOK

\* The steps before the diff, and the end of the process.
LEMMA EarlyStepsExact ==
  ASSUME ~ CoreOverlap, Unambiguous, NotEmpty, SoundInv, SoundInv', ExactInv,
         NEW v \in CoreVersions,
         \/ StartIndexCore(v) \/ WriteCoreSymbols(v) \/ WriteLintRules(v)
         \/ WriteCliCommands(v) \/ WriteCliFlags(v) \/ KillIndexCore(v)
  PROVE  ExactInv'
<1>1. UNCHANGED <<replacedBy, completed, tainted>>
  BY DEF StartIndexCore, WriteCoreSymbols, WriteLintRules, WriteCliCommands, WriteCliFlags,
         KillIndexCore
<1>2. NodesKept
  <2>1. CASE WriteCoreSymbols(v)
    BY <2>1, BatchMerged DEF Merged
  <2>2. CASE UNCHANGED symbols
    BY <2>2 DEF NodesKept
  <2>3. QED
    BY <2>1, <2>2 DEF StartIndexCore, WriteLintRules, WriteCliCommands, WriteCliFlags,
                      KillIndexCore
<1>3. \E rec \in RunType : core' = [core EXCEPT ![v] = rec] /\ rec.pc \notin Writing
  <2>1. CASE StartIndexCore(v)
    <3>1. PICK rec : rec = [IdleRun EXCEPT !.pc = "symbols"]
      OBVIOUS
    <3>2. rec \in RunType /\ rec.pc = "symbols"
      BY <3>1 DEF IdleRun, RunType, CorePhases, MaybeVersion
    <3>3. QED
      BY <2>1, <3>1, <3>2 DEF StartIndexCore, Writing
  <2>2. CASE WriteCoreSymbols(v)
    BY <2>2, BatchMerged DEF Writing
  <2>3. CASE WriteLintRules(v) \/ WriteCliCommands(v) \/ WriteCliFlags(v)
    <3>1. \E pc \in {"commands", "flags", "diff"} : Goto(v, pc)
      BY <2>3 DEF WriteLintRules, WriteCliCommands, WriteCliFlags
    <3>2. PICK pc \in {"commands", "flags", "diff"} : Goto(v, pc)
      BY <3>1
    <3>3. PICK rec \in RunType : core' = [core EXCEPT ![v] = rec] /\ rec.pc = pc
      BY <3>2, GotoIs DEF SoundInv, CorePhases
    <3>4. QED
      BY <3>2, <3>3 DEF Writing
  <2>4. CASE KillIndexCore(v)
    BY <2>4, IdleIs DEF KillIndexCore, Writing
  <2>5. QED
    BY <2>1, <2>2, <2>3, <2>4
<1>4. PICK rec \in RunType : core' = [core EXCEPT ![v] = rec] /\ rec.pc \notin Writing
  BY <1>3
<1>5. \A w \in CoreVersions \ {v} : core[w].pc = "idle"
  <2>1. CASE StartIndexCore(v)
    BY <2>1 DEF StartIndexCore
  <2>2. CASE core[v].pc # "idle"
    BY <2>2 DEF ExactInv, OneRun
  <2>3. QED
    BY <2>1, <2>2 DEF WriteCoreSymbols, WriteLintRules, WriteCliCommands, WriteCliFlags,
                      KillIndexCore
<1>6. core'[v] = rec /\ \A w \in CoreVersions \ {v} : core'[w] = core[w]
  BY <1>4 DEF SoundInv, RunsOK
<1>7. OneRun'
  BY <1>5, <1>6 DEF OneRun
<1>8. ProgressOK'
  BY <1>4, <1>5, <1>6 DEF ProgressOK, Writing
<1>9. CompleteOK'
  BY <1>1, <1>2, CompleteKept DEF ExactInv
<1>10. QED
  BY <1>7, <1>8, <1>9 DEF ExactInv

\* A run that is over: its own version is judged by what it has written.
LEMMA FinishExact ==
  ASSUME Unambiguous, NotEmpty, SoundInv, SoundInv', ExactInv, NEW v \in CoreVersions,
         core[v].pc # "idle", Finish(v), UNCHANGED <<symbols, replacedBy, tainted>>,
         LET u == FindPreviousIndexedVersion(v)
         IN  u # NoVersion /\ v \notin tainted => Recorded(u, v)
  PROVE  ExactInv'
<1>1. PICK rec \in RunType : rec = IdleRun /\ rec.pc = "idle"
  BY IdleIs
<1>2. core' = [core EXCEPT ![v] = rec]
  BY <1>1 DEF Finish
<1>3. /\ OneRun' /\ core'[v] = rec
      /\ \A w \in CoreVersions \ {v} : core'[w] = core[w] /\ core[w].pc = "idle"
  BY <1>2, StaysAlone DEF ExactInv
<1>4. ProgressOK'
  BY <1>1, <1>3 DEF ProgressOK, Writing
<1>5. /\ DOMAIN completed' = DOMAIN completed \cup {v}
      /\ \A w \in DOMAIN completed' :
           completed'[w] = (IF w = v THEN DOMAIN completed ELSE completed[w]) \ {v}
  BY DEF Finish
<1>6. NodesKept /\ replacedBy \subseteq replacedBy' /\ tainted' = tainted
  BY DEF NodesKept
<1>7. ASSUME NEW w \in DOMAIN completed' \ tainted', NEW u, u = FindPreviousIndexedVersion(w)',
             u # NoVersion, u \in completed'[w]
      PROVE  Recorded(u, w)'
  <2>1. CASE w = v
    <3>1. u = FindPreviousIndexedVersion(v)
      BY <1>7, <2>1 DEF FindPreviousIndexedVersion, IndexedVersions
    <3>2. Recorded(u, v)
      BY <1>6, <1>7, <2>1, <3>1
    <3>3. QED
      BY <2>1, <3>2 DEF Recorded
  <2>2. CASE w # v
    <3>1. w \in DOMAIN completed /\ w \notin tainted /\ u \in completed[w]
      BY <1>5, <1>6, <1>7, <2>2
    <3>2. QED
      BY <1>6, <1>7, <3>1, StillRecorded DEF ExactInv
  <2>3. QED
    BY <2>1, <2>2
<1>8. CompleteOK'
  BY <1>7 DEF CompleteOK, After, Recorded
<1>9. QED
  BY <1>3, <1>4, <1>8 DEF ExactInv

LEMMA DiffExact ==
  ASSUME Unambiguous, NotEmpty, SoundInv, SoundInv', ExactInv, NEW v \in CoreVersions,
         DiffWithPrevious(v)
  PROVE  ExactInv'
<1> DEFINE u == FindPreviousIndexedVersion(v)
           d == ComputeDiff(FetchCoreSymbols(u), Table[v])
<1>1. core[v].pc = "diff" /\ UNCHANGED <<symbols, replacedBy>>
  BY DEF DiffWithPrevious
<1>2. CASE u = NoVersion /\ Finish(v) /\ UNCHANGED tainted
  BY <1>1, <1>2, FinishExact
<1>3. CASE /\ u # NoVersion
           /\ core' = [core EXCEPT ![v] = [IdleRun EXCEPT !.pc = "edges", !.prev = u,
                                             !.todo = LifecycleOf(d, u, v),
                                             !.replaced = d.replaced]]
           /\ tainted' = IF u \in DOMAIN completed THEN tainted ELSE tainted \cup {v}
           /\ UNCHANGED completed
  <2>1. SymbolsOK /\ u \in IndexedVersions /\ u < v /\ u \in CoreVersions
    BY <1>3, PreviousIs, IndexedIs DEF SoundInv
  <2>2. PICK todo, replaced : todo = LifecycleOf(d, u, v) /\ replaced = d.replaced
    OBVIOUS
  <2>3. /\ todo \subseteq [prop : Properties, node : Symbols \X CoreVersions]
        /\ replaced \subseteq Symbols \X (Symbols \cup {NoSymbol})
    BY <2>1, <2>2, LifecycleTyped
  <2>4. PICK prev \in CoreVersions : prev = u
    BY <2>1
  <2>5. PICK rec : rec = [IdleRun EXCEPT !.pc = "edges", !.prev = prev, !.todo = todo,
                                         !.replaced = replaced]
    OBVIOUS
  <2>6. /\ rec \in RunType /\ rec.pc = "edges" /\ rec.prev = prev /\ rec.todo = todo
        /\ rec.replaced = replaced
    BY <2>3, <2>5, IdleIs DEF IdleRun, RunType, CorePhases, MaybeVersion
  <2>7. core' = [core EXCEPT ![v] = rec]
    BY <1>3, <2>2, <2>4, <2>5
  <2>8. /\ OneRun' /\ core'[v] = rec
        /\ \A w \in CoreVersions \ {v} : core'[w] = core[w] /\ core[w].pc = "idle"
    BY <1>1, <2>6, <2>7, StaysAlone DEF ExactInv
  <2>9. CompleteOK'
    <3>1. NodesKept
      BY <1>1 DEF NodesKept
    <3>2. tainted \subseteq tainted' /\ replacedBy \subseteq replacedBy' /\ completed' = completed
      BY <1>1, <1>3
    <3> HIDE DEF d, u
    <3>3. QED
      BY <3>1, <3>2, CompleteKept DEF ExactInv
  <2>10. ASSUME v \notin tainted' PROVE Whole(prev)' /\ Covered(prev, v)'
    <3>1. Whole(u)
      BY <1>3, <2>10 DEF SoundInv, CompletedOK
    <3>2. /\ d.added = Changes(u, v).added /\ d.removed = Changes(u, v).removed
          /\ d.deprecated = Changes(u, v).deprecated /\ d.replaced = Changes(u, v).replaced
      BY <2>1, <3>1, FoundChanges
    <3>3. Whole(prev)'
      BY <1>1, <2>4, <3>1 DEF Whole
    <3> HIDE DEF d, u
    <3>4. \A s \in Changes(prev, v).added : Task("added", s, v) \in rec.todo
      BY <2>2, <2>4, <2>6, <3>2 DEF LifecycleOf, Task
    <3>5. \A s \in Changes(prev, v).removed : Task("removed", s, prev) \in rec.todo
      BY <2>2, <2>4, <2>6, <3>2 DEF LifecycleOf, Task
    <3>6. \A s \in Changes(prev, v).deprecated : Task("deprecated", s, v) \in rec.todo
      BY <2>2, <2>4, <2>6, <3>2 DEF LifecycleOf, Task
    <3>7. \A p \in Changes(prev, v).replaced : rec.pc = "edges" /\ p \in rec.replaced
      BY <2>2, <2>4, <2>6, <3>2
    <3>8. Covered(prev, v)'
      BY <2>8, <3>4, <3>5, <3>6, <3>7, CoveredAfter
    <3>9. QED
      BY <3>3, <3>8
  <2>11. prev = FindPreviousIndexedVersion(v)'
    BY <1>1, <2>4 DEF FindPreviousIndexedVersion, IndexedVersions
  <2>12. ProgressOK'
    <3> HIDE DEF d, u
    <3>1. QED
      BY <2>6, <2>8, <2>10, <2>11, ProgressAfter
  <2>13. QED
    BY <2>8, <2>9, <2>12 DEF ExactInv
<1>4. QED
  BY <1>2, <1>3 DEF DiffWithPrevious

\* What a run is about to write, in a state and after a step that keeps the nodes.
LEMMA WhatIsLeft ==
  ASSUME SoundInv, ExactInv, NEW v \in CoreVersions, core[v].pc \in Writing, v \notin tainted,
         NEW u, u = core[v].prev
  PROVE  /\ Whole(u) /\ Whole(v)
         /\ \A s \in Changes(u, v).added :
              Task("added", s, v) \in core[v].todo \/ symbols[<<s, v>>].added = v
         /\ \A s \in Changes(u, v).removed :
              Task("removed", s, u) \in core[v].todo \/ symbols[<<s, u>>].removed = v
         /\ \A s \in Changes(u, v).deprecated :
              Task("deprecated", s, v) \in core[v].todo \/ symbols[<<s, v>>].deprecated = v
         /\ \A p \in Changes(u, v).replaced :
              IF core[v].pc = "edges" THEN p \in core[v].replaced
                                      ELSE <<p[1], u, p[2], v>> \in replacedBy
<1>1. Whole(v)
  BY DEF SoundInv, RunsOK, Writing
<1>2. Whole(u) /\ Covered(u, v)
  BY DEF ExactInv, ProgressOK
<1>3. QED
  BY <1>1, <1>2 DEF Covered

LEMMA WriteDiffEdgesExact ==
  ASSUME Unambiguous, NotEmpty, SoundInv, SoundInv', ExactInv, NEW v \in CoreVersions,
         WriteDiffEdges(v)
  PROVE  ExactInv'
<1>1. core[v].pc = "edges" /\ UNCHANGED <<symbols, completed, tainted>> /\ Goto(v, "lifecycle")
  BY DEF WriteDiffEdges
<1>2. PICK u : u = core[v].prev
  OBVIOUS
<1>3. PICK rec \in RunType :
        /\ core' = [core EXCEPT ![v] = rec]
        /\ rec.pc = "lifecycle" /\ rec.prev = u /\ rec.done = core[v].done
        /\ rec.todo = core[v].todo /\ rec.replaced = core[v].replaced
  BY <1>1, <1>2, GotoIs DEF SoundInv, CorePhases
<1>4. /\ OneRun' /\ core'[v] = rec
      /\ \A w \in CoreVersions \ {v} : core'[w] = core[w] /\ core[w].pc = "idle"
  BY <1>1, <1>3, StaysAlone DEF ExactInv
<1>5. replacedBy' = replacedBy \cup
        {<<p[1], u, p[2], v>> :
           p \in {p \in core[v].replaced : /\ <<p[1], u>> \in DOMAIN symbols
                                           /\ <<p[2], v>> \in DOMAIN symbols}}
  BY <1>2 DEF WriteDiffEdges
<1>6. CompleteOK'
  <2>1. NodesKept
    BY <1>1 DEF NodesKept
  <2>2. replacedBy \subseteq replacedBy'
    BY <1>5
  <2>3. QED
    BY <1>1, <2>1, <2>2, CompleteKept DEF ExactInv
<1>7. u = FindPreviousIndexedVersion(v)'
  <2>1. u = FindPreviousIndexedVersion(v)
    BY <1>1, <1>2 DEF ExactInv, ProgressOK, Writing
  <2>2. QED
    BY <1>1, <2>1 DEF FindPreviousIndexedVersion, IndexedVersions
<1>8. ASSUME v \notin tainted' PROVE Whole(u)' /\ Covered(u, v)'
  <2>1. core[v].pc \in Writing /\ v \notin tainted
    BY <1>1, <1>8 DEF Writing
  <2>2. /\ Whole(u) /\ Whole(v)
        /\ \A s \in Changes(u, v).added :
             Task("added", s, v) \in core[v].todo \/ symbols[<<s, v>>].added = v
        /\ \A s \in Changes(u, v).removed :
             Task("removed", s, u) \in core[v].todo \/ symbols[<<s, u>>].removed = v
        /\ \A s \in Changes(u, v).deprecated :
             Task("deprecated", s, v) \in core[v].todo \/ symbols[<<s, v>>].deprecated = v
        /\ \A p \in Changes(u, v).replaced : p \in core[v].replaced
    BY <1>1, <1>2, <2>1, WhatIsLeft
  <2>3. \A p \in Changes(u, v).replaced : <<p[1], u, p[2], v>> \in replacedBy'
    BY <1>5, <2>2, ChangedNodes
  <2>4. Covered(u, v)'
    BY <1>1, <1>3, <1>4, <2>2, <2>3, CoveredAfter
  <2>5. Whole(u)'
    BY <1>1, <2>2 DEF Whole
  <2>6. QED
    BY <2>4, <2>5
<1>9. ProgressOK'
  BY <1>3, <1>4, <1>7, <1>8, ProgressAfter
<1>10. QED
  BY <1>4, <1>6, <1>9 DEF ExactInv

\* The property set last does not unsay what was recorded of another version: two
\* versions indexed are not both right above the same one.
LEMMA OthersStayRecorded ==
  ASSUME Unambiguous, NotEmpty, SoundInv, NEW v \in CoreVersions, Whole(v),
         NEW f \in [prop : Properties, node : Symbols \X CoreVersions],
         Due(f, FindPreviousIndexedVersion(v), v, tainted), f.node \in DOMAIN symbols,
         symbols' = [symbols EXCEPT ![f.node] = SetProperty(@, f.prop, v)],
         UNCHANGED replacedBy, NEW w \in DOMAIN completed,
         NEW u \in completed[w], u = FindPreviousIndexedVersion(w), Recorded(u, w)
  PROVE  Recorded(u, w)'
<1>1. /\ v \in IndexedVersions /\ w \in IndexedVersions /\ w \in CoreVersions
      /\ Whole(w) /\ Whole(u) /\ u \in CoreVersions /\ u \in IndexedVersions
  BY WholeIsIndexed DEF SoundInv, CompletedOK
<1>2. PICK prev : prev = FindPreviousIndexedVersion(v)
  OBVIOUS
<1>3. w # v => u # prev
  <2>1. SUFFICES ASSUME w # v, u = prev PROVE FALSE
    OBVIOUS
  <2>2. v \in Nat /\ w \in Nat /\ u \in Nat
    BY <1>1, CoreAssumption
  <2>3. u # NoVersion
    BY <1>1, CoreAssumption DEF NoVersion
  <2>4. u < w /\ \A x \in IndexedVersions : x < w => x <= u
    BY <1>1, <2>3, PreviousIs DEF SoundInv
  <2>5. u < v /\ \A x \in IndexedVersions : x < v => x <= u
    BY <1>1, <1>2, <2>1, <2>3, PreviousIs DEF SoundInv
  <2>6. CASE v < w
    <3>1. v <= u
      BY <1>1, <2>4, <2>6
    <3>2. QED
      BY <2>2, <2>5, <3>1
  <2>7. CASE w < v
    <3>1. w <= u
      BY <1>1, <2>5, <2>7
    <3>2. QED
      BY <2>2, <2>4, <3>1
  <2>8. QED
    BY <2>1, <2>2, <2>6, <2>7
<1>4. /\ \A n \in DOMAIN symbols \ {f.node} : symbols'[n] = symbols[n]
      /\ symbols'[f.node].added = IF f.prop = "added" THEN v ELSE symbols[f.node].added
      /\ symbols'[f.node].removed = IF f.prop = "removed" THEN v ELSE symbols[f.node].removed
      /\ symbols'[f.node].deprecated =
           IF f.prop = "deprecated" THEN v ELSE symbols[f.node].deprecated
  BY PropertySet DEF SoundInv
<1>5. Due(f, prev, v, tainted)
  BY <1>2
<1>6. /\ \A s \in Changes(u, w).added      : symbols[<<s, w>>].added = w
      /\ \A s \in Changes(u, w).removed    : symbols[<<s, u>>].removed = w
      /\ \A s \in Changes(u, w).deprecated : symbols[<<s, w>>].deprecated = w
      /\ \A p \in Changes(u, w).replaced   : /\ <<p[1], u, p[2], w>> \in replacedBy
                                             /\ symbols[<<p[1], u>>].removed # w
  BY RecordedIs
<1>7. ASSUME NEW s \in Changes(u, w).added PROVE symbols'[<<s, w>>].added = w
  <2>1. <<s, w>> \in DOMAIN symbols
    BY <1>1, ChangedNodes
  <2>2. CASE <<s, w>> = f.node /\ f.prop = "added"
    <3>1. f.node[2] = v
      BY <1>5, <2>2 DEF Due
    <3>2. QED
      BY <1>4, <2>2, <3>1
  <2>3. CASE ~ (<<s, w>> = f.node /\ f.prop = "added")
    BY <1>4, <1>6, <2>1, <2>3
  <2>4. QED
    BY <2>2, <2>3
<1>8. ASSUME NEW s \in Changes(u, w).removed PROVE symbols'[<<s, u>>].removed = w
  <2>1. <<s, u>> \in DOMAIN symbols
    BY <1>1, ChangedNodes
  <2>2. CASE <<s, u>> = f.node /\ f.prop = "removed"
    <3>1. f.node[2] = prev
      BY <1>5, <2>2 DEF Due
    <3>2. w = v
      BY <1>3, <2>2, <3>1
    <3>3. QED
      BY <1>4, <2>2, <3>2
  <2>3. CASE ~ (<<s, u>> = f.node /\ f.prop = "removed")
    BY <1>4, <1>6, <2>1, <2>3
  <2>4. QED
    BY <2>2, <2>3
<1>9. ASSUME NEW s \in Changes(u, w).deprecated PROVE symbols'[<<s, w>>].deprecated = w
  <2>1. <<s, w>> \in DOMAIN symbols
    BY <1>1, ChangedNodes
  <2>2. CASE <<s, w>> = f.node /\ f.prop = "deprecated"
    <3>1. f.node[2] = v
      BY <1>5, <2>2 DEF Due
    <3>2. QED
      BY <1>4, <2>2, <3>1
  <2>3. CASE ~ (<<s, w>> = f.node /\ f.prop = "deprecated")
    BY <1>4, <1>6, <2>1, <2>3
  <2>4. QED
    BY <2>2, <2>3
<1>10. ASSUME NEW p \in Changes(u, w).replaced
       PROVE  <<p[1], u, p[2], w>> \in replacedBy' /\ symbols'[<<p[1], u>>].removed # w
  <2>1. /\ <<p[1], u>> \in DOMAIN symbols /\ p[1] \notin Changes(u, w).removed
        /\ <<p[1], u, p[2], w>> \in replacedBy' /\ symbols[<<p[1], u>>].removed # w
    BY <1>1, <1>6, ChangedNodes
  <2>2. CASE <<p[1], u>> = f.node /\ f.prop = "removed"
    <3>1. f.node[2] = prev /\ f.node[1] \in Changes(prev, v).removed
      BY <1>5, <2>2 DEF Due
    <3>2. u = prev /\ p[1] \in Changes(prev, v).removed
      BY <2>2, <3>1
    <3>3. w # v
      BY <2>1, <3>2
    <3>4. QED
      BY <1>3, <3>2, <3>3
  <2>3. CASE ~ (<<p[1], u>> = f.node /\ f.prop = "removed")
    BY <1>4, <2>1, <2>3
  <2>4. QED
    BY <2>2, <2>3
<1>11. QED
  BY <1>7, <1>8, <1>9, <1>10, RecordedAfter

LEMMA WriteLifecycleExact ==
  ASSUME Unambiguous, NotEmpty, SoundInv, SoundInv', ExactInv, NEW v \in CoreVersions,
         WriteLifecycleProperties(v)
  PROVE  ExactInv'
<1>1. core[v].pc = "lifecycle" /\ UNCHANGED <<replacedBy, tainted>>
  BY DEF WriteLifecycleProperties
<1>2. PICK u : u = core[v].prev
  OBVIOUS
<1>3. /\ u = FindPreviousIndexedVersion(v) /\ u < v /\ u \in IndexedVersions /\ u \in CoreVersions
      /\ \A g \in core[v].todo : Due(g, u, v, tainted)
  BY <1>1, <1>2, IndexedIs DEF ExactInv, ProgressOK, SoundInv, DiffsOK, Writing
<1>4. v \notin tainted =>
        /\ Whole(u) /\ Whole(v)
        /\ \A s \in Changes(u, v).added :
             Task("added", s, v) \in core[v].todo \/ symbols[<<s, v>>].added = v
        /\ \A s \in Changes(u, v).removed :
             Task("removed", s, u) \in core[v].todo \/ symbols[<<s, u>>].removed = v
        /\ \A s \in Changes(u, v).deprecated :
             Task("deprecated", s, v) \in core[v].todo \/ symbols[<<s, v>>].deprecated = v
        /\ \A p \in Changes(u, v).replaced : <<p[1], u, p[2], v>> \in replacedBy
  BY <1>1, <1>2, WhatIsLeft DEF Writing
<1>5. CASE core[v].todo = {} /\ Finish(v) /\ UNCHANGED symbols
  <2>1. ASSUME v \notin tainted PROVE Recorded(u, v)
    <3>1. ASSUME NEW p \in Changes(u, v).replaced PROVE symbols[<<p[1], u>>].removed # v
      <4>1. <<p[1], u>> \in DOMAIN symbols /\ p[1] \notin Changes(u, v).removed
        BY <1>4, <2>1, ChangedNodes
      <4>2. v # NoVersion
        BY CoreAssumption DEF NoVersion
      <4>3. PICK n \in DOMAIN symbols : n = <<p[1], u>> /\ n[1] = p[1] /\ n[2] = u
        BY <4>1
      <4>4. symbols[n].removed = v => n[1] \in Changes(n[2], v).removed
        BY <4>2 DEF SoundInv, ValuesOK
      <4>5. QED
        BY <4>1, <4>3, <4>4
    <3>2. QED
      BY <1>4, <1>5, <2>1, <3>1, RecordedIs
  <2>2. core[v].pc # "idle"
    BY <1>1
  <2>3. QED
    BY <1>1, <1>3, <1>5, <2>1, <2>2, FinishExact
<1>6. CASE \E f \in core[v].todo :
             /\ symbols' = IF f.node \in DOMAIN symbols
                           THEN [symbols EXCEPT ![f.node] = SetProperty(@, f.prop, v)]
                           ELSE symbols
             /\ core' = [core EXCEPT ![v].todo = @ \ {f}]
             /\ UNCHANGED completed
  <2>1. PICK f \in core[v].todo :
          /\ symbols' = IF f.node \in DOMAIN symbols
                        THEN [symbols EXCEPT ![f.node] = SetProperty(@, f.prop, v)]
                        ELSE symbols
          /\ core' = [core EXCEPT ![v].todo = @ \ {f}]
          /\ UNCHANGED completed
    BY <1>6
  <2>2. PICK q \in RunType : q = core[v]
    BY DEF SoundInv, RunsOK
  <2>3. PICK rec : rec = [q EXCEPT !.todo = @ \ {f}]
    OBVIOUS
  <2>4. /\ rec \in RunType /\ rec.pc = "lifecycle" /\ rec.prev = u
        /\ rec.todo = core[v].todo \ {f}
    BY <1>1, <1>2, <2>2, <2>3 DEF RunType
  <2>5. core' = [core EXCEPT ![v] = rec]
    BY <2>1, <2>2, <2>3
  <2>6. /\ OneRun' /\ core'[v] = rec
        /\ \A w \in CoreVersions \ {v} : core'[w] = core[w] /\ core[w].pc = "idle"
    BY <1>1, <2>4, <2>5, StaysAlone DEF ExactInv
  <2>7. f \in [prop : Properties, node : Symbols \X CoreVersions] /\ Due(f, u, v, tainted)
    BY <1>3, <2>1, <2>2 DEF RunType
  <2>8. DOMAIN symbols' = DOMAIN symbols
    BY <2>1
  <2>9. ASSUME NEW w \in CoreVersions
        PROVE  FindPreviousIndexedVersion(w)' = FindPreviousIndexedVersion(w)
    BY <2>8 DEF FindPreviousIndexedVersion, IndexedVersions
  <2>10. CompleteOK'
    <3>1. ASSUME NEW w \in DOMAIN completed' \ tainted', NEW x,
                 x = FindPreviousIndexedVersion(w)', x # NoVersion, x \in completed'[w]
          PROVE  Recorded(x, w)'
      <4>1. w \in DOMAIN completed /\ w \notin tainted /\ x \in completed[w]
        BY <1>1, <2>1, <3>1
      <4>2. w \in CoreVersions
        BY <4>1 DEF SoundInv, CompletedOK
      <4>3. x = FindPreviousIndexedVersion(w)
        BY <2>9, <3>1, <4>2
      <4>4. Recorded(x, w)
        BY <3>1, <4>1, <4>3 DEF ExactInv, CompleteOK, After
      <4>5. CASE f.node \notin DOMAIN symbols
        BY <1>1, <2>1, <4>4, <4>5 DEF Recorded
      <4>6. CASE f.node \in DOMAIN symbols
        <5>1. Whole(v)
          BY <1>1 DEF SoundInv, RunsOK
        <5>2. symbols' = [symbols EXCEPT ![f.node] = SetProperty(@, f.prop, v)]
          BY <2>1, <4>6
        <5>3. QED
          BY <1>1, <1>3, <2>7, <4>1, <4>3, <4>4, <4>6, <5>1, <5>2, OthersStayRecorded
      <4>7. QED
        BY <4>5, <4>6
    <3>2. QED
      BY <3>1 DEF CompleteOK, After, Recorded
  <2>11. ASSUME v \notin tainted' PROVE Whole(u)' /\ Covered(u, v)'
    <3>1. v \notin tainted
      BY <1>1, <2>11
    <3>2. Whole(u)'
      BY <1>4, <2>8, <3>1 DEF Whole
    <3>3. /\ f.node \in DOMAIN symbols =>
               symbols' = [symbols EXCEPT ![f.node] = SetProperty(@, f.prop, v)]
          /\ f.node \notin DOMAIN symbols => symbols' = symbols
      BY <2>1
    <3>4. /\ \A n \in DOMAIN symbols \ {f.node} : symbols'[n] = symbols[n]
          /\ f.node \in DOMAIN symbols =>
               /\ symbols'[f.node].added =
                    IF f.prop = "added" THEN v ELSE symbols[f.node].added
               /\ symbols'[f.node].removed =
                    IF f.prop = "removed" THEN v ELSE symbols[f.node].removed
               /\ symbols'[f.node].deprecated =
                    IF f.prop = "deprecated" THEN v ELSE symbols[f.node].deprecated
      <4>1. CASE f.node \in DOMAIN symbols
        BY <2>7, <3>3, <4>1, PropertySet DEF SoundInv
      <4>2. CASE f.node \notin DOMAIN symbols
        BY <3>3, <4>2
      <4>3. QED
        BY <4>1, <4>2
    <3>5. ASSUME NEW s \in Changes(u, v).added
          PROVE  Task("added", s, v) \in rec.todo \/ symbols'[<<s, v>>].added = v
      <4>1. <<s, v>> \in DOMAIN symbols
        BY <1>4, <3>1, ChangedNodes
      <4>2. CASE Task("added", s, v) = f
        <5>1. f.prop = "added" /\ f.node = <<s, v>>
          BY <4>2 DEF Task
        <5>2. QED
          BY <3>4, <4>1, <5>1
      <4>3. CASE Task("added", s, v) \in core[v].todo \ {f}
        BY <2>4, <4>3
      <4>4. CASE symbols[<<s, v>>].added = v
        BY <3>4, <4>1, <4>4
      <4>5. QED
        BY <1>4, <3>1, <4>2, <4>3, <4>4
    <3>6. ASSUME NEW s \in Changes(u, v).removed
          PROVE  Task("removed", s, u) \in rec.todo \/ symbols'[<<s, u>>].removed = v
      <4>1. <<s, u>> \in DOMAIN symbols
        BY <1>4, <3>1, ChangedNodes
      <4>2. CASE Task("removed", s, u) = f
        <5>1. f.prop = "removed" /\ f.node = <<s, u>>
          BY <4>2 DEF Task
        <5>2. QED
          BY <3>4, <4>1, <5>1
      <4>3. CASE Task("removed", s, u) \in core[v].todo \ {f}
        BY <2>4, <4>3
      <4>4. CASE symbols[<<s, u>>].removed = v
        BY <3>4, <4>1, <4>4
      <4>5. QED
        BY <1>4, <3>1, <4>2, <4>3, <4>4
    <3>7. ASSUME NEW s \in Changes(u, v).deprecated
          PROVE  Task("deprecated", s, v) \in rec.todo \/ symbols'[<<s, v>>].deprecated = v
      <4>1. <<s, v>> \in DOMAIN symbols
        BY <1>4, <3>1, ChangedNodes
      <4>2. CASE Task("deprecated", s, v) = f
        <5>1. f.prop = "deprecated" /\ f.node = <<s, v>>
          BY <4>2 DEF Task
        <5>2. QED
          BY <3>4, <4>1, <5>1
      <4>3. CASE Task("deprecated", s, v) \in core[v].todo \ {f}
        BY <2>4, <4>3
      <4>4. CASE symbols[<<s, v>>].deprecated = v
        BY <3>4, <4>1, <4>4
      <4>5. QED
        BY <1>4, <3>1, <4>2, <4>3, <4>4
    <3>8. rec.pc # "edges" /\ \A p \in Changes(u, v).replaced : <<p[1], u, p[2], v>> \in replacedBy'
      BY <1>1, <1>4, <2>4, <3>1
    <3>9. Covered(u, v)'
      BY <2>6, <3>5, <3>6, <3>7, <3>8, CoveredAfter
    <3>10. QED
      BY <3>2, <3>9
  <2>12. ProgressOK'
    BY <1>3, <2>4, <2>6, <2>9, <2>11, ProgressAfter
  <2>13. QED
    BY <2>6, <2>10, <2>12 DEF ExactInv
<1>7. QED
  BY <1>5, <1>6 DEF WriteLifecycleProperties

LEMMA ExactStep ==
  ASSUME ~ CoreOverlap, Unambiguous, NotEmpty, SoundInv, SoundInv', ExactInv, [Next]_vars
  PROVE  ExactInv'
<1>1. CASE \E v \in CoreVersions : CoreStep(v)
  <2>1. PICK v \in CoreVersions : CoreStep(v)
    BY <1>1
  <2>2. CASE \/ StartIndexCore(v) \/ WriteCoreSymbols(v) \/ WriteLintRules(v)
             \/ WriteCliCommands(v) \/ WriteCliFlags(v) \/ KillIndexCore(v)
    BY <2>2, EarlyStepsExact
  <2>3. CASE DiffWithPrevious(v)
    BY <2>3, DiffExact
  <2>4. CASE WriteDiffEdges(v)
    BY <2>4, WriteDiffEdgesExact
  <2>5. CASE WriteLifecycleProperties(v)
    BY <2>5, WriteLifecycleExact
  <2>6. QED
    BY <2>1, <2>2, <2>3, <2>4, <2>5 DEF CoreStep
<1>2. CASE UNCHANGED coreVars
  <2>1. UNCHANGED <<symbols, replacedBy, core, completed, tainted>>
    BY <1>2 DEF coreVars
  <2>2. OneRun' /\ CompleteOK'
    BY <2>1 DEF ExactInv, OneRun, CompleteOK, After, Recorded, FindPreviousIndexedVersion,
                IndexedVersions
  <2>3. ProgressOK'
    BY <2>1 DEF ExactInv, ProgressOK, Whole, Covered, FindPreviousIndexedVersion,
                IndexedVersions, Changes, ComputeDiff, Replaced, Task
  <2>4. QED
    BY <2>2, <2>3 DEF ExactInv
<1>3. QED
  BY <1>1, <1>2 DEF Next, vars

LEMMA ExactInit ==
  ASSUME Init
  PROVE  ExactInv
<1>1. core = [v \in CoreVersions |-> IdleRun] /\ DOMAIN completed = {}
  BY DEF Init, CoreInit
<1>2. \A v \in CoreVersions : core[v].pc = "idle"
  BY <1>1, IdleIs
<1>3. QED
  BY <1>1, <1>2 DEF ExactInv, OneRun, ProgressOK, CompleteOK, Writing

\* One version indexed at a time: whatever the order of the versions and wherever
\* runs are killed, a version completed after the one right below it has every
\* symbol that is new, gone, deprecated or replaced recorded, and nothing recorded
\* is not so (index_core, _find_previous_indexed_version, compute_diff,
\* write_lifecycle_properties).
THEOREM LifecycleIsAlwaysExact ==
  ~ CoreOverlap /\ Unambiguous /\ NotEmpty /\ Spec => []LifecycleIsExact
<1> SUFFICES ASSUME ~ CoreOverlap, Unambiguous, NotEmpty PROVE Spec => []LifecycleIsExact
  OBVIOUS
<1>1. Init => SoundInv /\ ExactInv
  BY SoundInit, ExactInit
<1>2. SoundInv /\ ExactInv /\ [Next]_vars => (SoundInv /\ ExactInv)'
  BY SoundStep, ExactStep
<1>3. SoundInv /\ ExactInv => LifecycleIsExact
  BY SoundIsSound DEF LifecycleIsExact, ExactInv, CompleteOK
<1>4. QED
  BY <1>1, <1>2, <1>3, PTL DEF Spec

-----------------------------------------------------------------------------
(* A completed version is there, as its files were parsed                     *)

\* What the layer holds of a version is what its parsers and curated files list.
HoldsSources(v) ==
  /\ {n \in DOMAIN symbols : n[2] = v} = (DOMAIN Table[v]) \X {v}
  /\ \A s \in DOMAIN Table[v] : /\ symbols[<<s, v>>].status = Table[v][s].status
                               /\ symbols[<<s, v>>].repl = Table[v][s].repl
  /\ {x \in DOMAIN rules : x[2] = v} = (DOMAIN RuleTable[v]) \X {v}
  /\ \A id \in DOMAIN RuleTable[v] : rules[<<id, v>>] = RuleTable[v][id]
  /\ {e \in checks : e[3] = v} =
       {<<r.id, r.symbol, v>> : r \in {r \in ToSet(LintRules[v]) : r.symbol \in DOMAIN Table[v]}}
  /\ {x \in commands : x[2] = v} = Commands[v] \X {v}
  /\ {x \in DOMAIN flags : x[3] = v} = {<<k[1], k[2], v>> : k \in DOMAIN FlagTable[v]}
  /\ \A k \in DOMAIN FlagTable[v] : flags[<<k[1], k[2], v>>] = FlagTable[v][k]

LayerIsWhole == \A v \in DOMAIN completed : HoldsSources(v)

\* The rules, commands and flags of a version are entries of its tables.
SidesOK ==
  /\ \A x \in DOMAIN rules : \E v \in CoreVersions : \E id \in DOMAIN RuleTable[v] :
       x = <<id, v>> /\ rules[x] = RuleTable[v][id]
  /\ \A e \in checks : \E v \in CoreVersions : \E r \in ToSet(LintRules[v]) :
       e = <<r.id, r.symbol, v>> /\ r.symbol \in DOMAIN Table[v]
  /\ \A x \in commands : \E v \in CoreVersions : \E c \in Commands[v] : x = <<c, v>>
  /\ \A x \in DOMAIN flags : \E v \in CoreVersions : \E k \in DOMAIN FlagTable[v] :
       x = <<k[1], k[2], v>> /\ flags[x] = FlagTable[v][k]

RulesThere(v) ==
  /\ \A id \in DOMAIN RuleTable[v] : <<id, v>> \in DOMAIN rules
  /\ \A r \in ToSet(LintRules[v]) :
       r.symbol \in DOMAIN Table[v] => <<r.id, r.symbol, v>> \in checks
CommandsThere(v) == Commands[v] \X {v} \subseteq commands
FlagsThere(v) == \A k \in DOMAIN FlagTable[v] : <<k[1], k[2], v>> \in DOMAIN flags

\* What a run has written by its phase is there, and all of it once it completed.
Reached(v, before) == v \in DOMAIN completed \/ core[v].pc \notin before
StagesOK ==
  \A v \in CoreVersions :
    /\ Reached(v, {"idle", "symbols", "rules"}) => RulesThere(v)
    /\ Reached(v, {"idle", "symbols", "rules", "commands"}) => CommandsThere(v)
    /\ Reached(v, {"idle", "symbols", "rules", "commands", "flags"}) => FlagsThere(v)

LayerInv == SidesOK /\ StagesOK

\* A phase of a run is reached by that run alone, from what it has written.
LEMMA StagesAfter ==
  ASSUME SoundInv, LayerInv, NEW v \in CoreVersions, NEW pc,
         core' \in [CoreVersions -> RunType], core'[v].pc = pc,
         \A w \in CoreVersions \ {v} : core'[w] = core[w],
         DOMAIN completed' = DOMAIN completed,
         DOMAIN rules \subseteq DOMAIN rules', checks \subseteq checks',
         commands \subseteq commands', DOMAIN flags \subseteq DOMAIN flags',
         pc \notin {"idle", "symbols", "rules"} => RulesThere(v)',
         pc \notin {"idle", "symbols", "rules", "commands"} => CommandsThere(v)',
         pc \notin {"idle", "symbols", "rules", "commands", "flags"} => FlagsThere(v)'
  PROVE  StagesOK'
<1>1. ASSUME NEW w \in CoreVersions
      PROVE  /\ RulesThere(w) => RulesThere(w)'
             /\ CommandsThere(w) => CommandsThere(w)'
             /\ FlagsThere(w) => FlagsThere(w)'
  BY DEF RulesThere, CommandsThere, FlagsThere
<1>2. ASSUME NEW w \in CoreVersions
      PROVE  /\ Reached(w, {"idle", "symbols", "rules"})' => RulesThere(w)'
             /\ Reached(w, {"idle", "symbols", "rules", "commands"})' => CommandsThere(w)'
             /\ Reached(w, {"idle", "symbols", "rules", "commands", "flags"})' => FlagsThere(w)'
  <2>1. CASE w = v
    BY <1>1, <2>1 DEF LayerInv, StagesOK, Reached
  <2>2. CASE w # v
    BY <1>1, <2>2 DEF LayerInv, StagesOK, Reached
  <2>3. QED
    BY <2>1, <2>2
<1>3. QED
  BY <1>2 DEF StagesOK

\* A step that writes no rule, command or flag, and completes none or one that
\* has written them all.
LEMMA SidesKept ==
  ASSUME SoundInv, LayerInv, NEW v \in CoreVersions,
         UNCHANGED <<rules, checks, commands, flags>>,
         core' \in [CoreVersions -> RunType],
         \A w \in CoreVersions \ {v} : core'[w] = core[w],
         \/ core'[v].pc \in {"idle", "symbols", "rules"}
         \/ core[v].pc \in {"diff", "edges", "lifecycle"},
         \/ DOMAIN completed' = DOMAIN completed
         \/ /\ DOMAIN completed' = DOMAIN completed \cup {v}
            /\ core[v].pc \in {"diff", "edges", "lifecycle"}
  PROVE  LayerInv'
<1>1. SidesOK'
  BY DEF LayerInv, SidesOK
<1>2. ASSUME NEW w \in CoreVersions
      PROVE  /\ RulesThere(w)' <=> RulesThere(w)
             /\ CommandsThere(w)' <=> CommandsThere(w)
             /\ FlagsThere(w)' <=> FlagsThere(w)
  BY DEF RulesThere, CommandsThere, FlagsThere
<1>3. ASSUME NEW w \in CoreVersions
      PROVE  /\ Reached(w, {"idle", "symbols", "rules"})' => RulesThere(w)'
             /\ Reached(w, {"idle", "symbols", "rules", "commands"})' => CommandsThere(w)'
             /\ Reached(w, {"idle", "symbols", "rules", "commands", "flags"})' => FlagsThere(w)'
  <2>1. /\ Reached(w, {"idle", "symbols", "rules"}) => RulesThere(w)
        /\ Reached(w, {"idle", "symbols", "rules", "commands"}) => CommandsThere(w)
        /\ Reached(w, {"idle", "symbols", "rules", "commands", "flags"}) => FlagsThere(w)
    BY DEF LayerInv, StagesOK
  <2>2. CASE w # v
    BY <1>2, <2>1, <2>2 DEF Reached
  <2>3. CASE w = v /\ core[v].pc \in {"diff", "edges", "lifecycle"}
    BY <1>2, <2>1, <2>3 DEF Reached
  <2>4. CASE w = v /\ core[v].pc \notin {"diff", "edges", "lifecycle"}
    <3>1. core'[v].pc \in {"idle", "symbols", "rules"} /\ DOMAIN completed' = DOMAIN completed
      BY <2>4
    <3>2. QED
      BY <1>2, <2>1, <2>4, <3>1 DEF Reached
  <2>5. QED
    BY <2>2, <2>3, <2>4
<1>4. QED
  BY <1>1, <1>3 DEF LayerInv, StagesOK

\* A run at one of these phases is past those before it.
LEMMA PhaseReached ==
  ASSUME LayerInv, NEW v \in CoreVersions
  PROVE  /\ core[v].pc \in {"commands", "flags"} => RulesThere(v)
         /\ core[v].pc = "flags" => CommandsThere(v)
BY DEF LayerInv, StagesOK, Reached

LEMMA WriteLintRulesLayer ==
  ASSUME SoundInv, LayerInv, NEW v \in CoreVersions, WriteLintRules(v)
  PROVE  LayerInv'
<1> DEFINE ids == DOMAIN RuleTable[v]
           linked == {r \in ToSet(LintRules[v]) : <<r.symbol, v>> \in DOMAIN symbols}
<1>1. PICK rec \in RunType : core' = [core EXCEPT ![v] = rec] /\ rec.pc = "commands"
  BY GotoIs DEF SoundInv, CorePhases, WriteLintRules
<1>2. /\ core' \in [CoreVersions -> RunType] /\ core'[v].pc = "commands"
      /\ \A w \in CoreVersions \ {v} : core'[w] = core[w]
  BY <1>1 DEF SoundInv, RunsOK
<1>3. /\ rules' = [x \in DOMAIN rules \cup ids \X {v} |->
                     IF x[2] = v /\ x[1] \in ids THEN RuleTable[v][x[1]] ELSE rules[x]]
      /\ checks' = checks \cup {<<r.id, r.symbol, v>> : r \in linked}
      /\ UNCHANGED <<symbols, commands, flags, completed>>
      /\ core[v].pc = "rules"
  BY DEF WriteLintRules
<1>4. \A s : <<s, v>> \in DOMAIN symbols <=> s \in DOMAIN Table[v]
  BY <1>3 DEF SoundInv, RunsOK, Whole, SymbolsOK
<1>5. SidesOK'
  <2>1. ASSUME NEW x \in DOMAIN rules'
        PROVE  \E w \in CoreVersions : \E id \in DOMAIN RuleTable[w] :
                 x = <<id, w>> /\ rules'[x] = RuleTable[w][id]
    <3>1. CASE x \in DOMAIN rules
      <4>0. PICK w \in CoreVersions : \E id \in DOMAIN RuleTable[w] :
              x = <<id, w>> /\ rules[x] = RuleTable[w][id]
        BY <3>1 DEF LayerInv, SidesOK
      <4>1. PICK id \in DOMAIN RuleTable[w] : x = <<id, w>> /\ rules[x] = RuleTable[w][id]
        BY <4>0
      <4>2. rules'[x] = RuleTable[w][id]
        BY <1>3, <3>1, <4>1
      <4>3. QED
        BY <4>1, <4>2
    <3>2. CASE x \notin DOMAIN rules
      <4>1. x \in ids \X {v}
        BY <1>3, <3>2
      <4>2. PICK id \in ids : x = <<id, v>>
        BY <4>1
      <4>3. rules'[x] = RuleTable[v][id]
        BY <1>3, <4>2
      <4>4. QED
        BY <4>2, <4>3
    <3>3. QED
      BY <3>1, <3>2
  <2>2. ASSUME NEW e \in checks'
        PROVE  \E w \in CoreVersions : \E r \in ToSet(LintRules[w]) :
                 e = <<r.id, r.symbol, w>> /\ r.symbol \in DOMAIN Table[w]
    <3>1. CASE e \in checks
      BY <3>1 DEF LayerInv, SidesOK
    <3>2. CASE e \notin checks
      <4>1. PICK r \in linked : e = <<r.id, r.symbol, v>>
        BY <1>3, <3>2
      <4>2. QED
        BY <1>4, <4>1
    <3>3. QED
      BY <3>1, <3>2
  <2>3. /\ \A x \in commands' : \E w \in CoreVersions : \E c \in Commands[w] : x = <<c, w>>
        /\ \A x \in DOMAIN flags' : \E w \in CoreVersions : \E k \in DOMAIN FlagTable[w] :
             x = <<k[1], k[2], w>> /\ flags'[x] = FlagTable[w][k]
    BY <1>3 DEF LayerInv, SidesOK
  <2>4. QED
    BY <2>1, <2>2, <2>3 DEF SidesOK
<1>6. RulesThere(v)'
  <2>1. \A id \in ids : <<id, v>> \in DOMAIN rules'
    BY <1>3
  <2>2. ASSUME NEW r \in ToSet(LintRules[v]), r.symbol \in DOMAIN Table[v]
        PROVE  <<r.id, r.symbol, v>> \in checks'
    <3>1. r \in linked
      BY <1>4, <2>2
    <3>2. QED
      BY <1>3, <3>1
  <2>3. QED
    BY <2>1, <2>2 DEF RulesThere
<1>7. StagesOK'
  <2>1. DOMAIN rules \subseteq DOMAIN rules' /\ checks \subseteq checks'
    BY <1>3
  <2>2. QED
    BY <1>2, <1>3, <1>6, <2>1, StagesAfter
<1>8. QED
  BY <1>5, <1>7 DEF LayerInv

LEMMA WriteCliCommandsLayer ==
  ASSUME SoundInv, LayerInv, NEW v \in CoreVersions, WriteCliCommands(v)
  PROVE  LayerInv'
<1>1. PICK rec \in RunType : core' = [core EXCEPT ![v] = rec] /\ rec.pc = "flags"
  BY GotoIs DEF SoundInv, CorePhases, WriteCliCommands
<1>2. /\ core' \in [CoreVersions -> RunType] /\ core'[v].pc = "flags"
      /\ \A w \in CoreVersions \ {v} : core'[w] = core[w]
  BY <1>1 DEF SoundInv, RunsOK
<1>3. /\ commands' = commands \cup Commands[v] \X {v} /\ core[v].pc = "commands"
      /\ UNCHANGED <<symbols, rules, checks, flags, completed>>
  BY DEF WriteCliCommands
<1>4. SidesOK'
  <2>1. ASSUME NEW x \in commands'
        PROVE  \E w \in CoreVersions : \E c \in Commands[w] : x = <<c, w>>
    <3>1. CASE x \in commands
      BY <3>1 DEF LayerInv, SidesOK
    <3>2. CASE x \in Commands[v] \X {v}
      BY <3>2
    <3>3. QED
      BY <1>3, <3>1, <3>2
  <2>2. /\ \A x \in DOMAIN rules' : \E w \in CoreVersions : \E id \in DOMAIN RuleTable[w] :
             x = <<id, w>> /\ rules'[x] = RuleTable[w][id]
        /\ \A e \in checks' : \E w \in CoreVersions : \E r \in ToSet(LintRules[w]) :
             e = <<r.id, r.symbol, w>> /\ r.symbol \in DOMAIN Table[w]
        /\ \A x \in DOMAIN flags' : \E w \in CoreVersions : \E k \in DOMAIN FlagTable[w] :
             x = <<k[1], k[2], w>> /\ flags'[x] = FlagTable[w][k]
    BY <1>3 DEF LayerInv, SidesOK
  <2>3. QED
    BY <2>1, <2>2 DEF SidesOK
<1>5. RulesThere(v)' /\ CommandsThere(v)'
  <2>1. RulesThere(v)
    BY <1>3, PhaseReached
  <2>2. QED
    BY <1>3, <2>1 DEF RulesThere, CommandsThere
<1>6. StagesOK'
  BY <1>2, <1>3, <1>5, StagesAfter
<1>7. QED
  BY <1>4, <1>6 DEF LayerInv

LEMMA WriteCliFlagsLayer ==
  ASSUME SoundInv, LayerInv, NEW v \in CoreVersions, WriteCliFlags(v)
  PROVE  LayerInv'
<1> DEFINE new == {<<f.command, f.name, v>> : f \in ToSet(Flags[v])}
<1>1. PICK rec \in RunType : core' = [core EXCEPT ![v] = rec] /\ rec.pc = "diff"
  BY GotoIs DEF SoundInv, CorePhases, WriteCliFlags
<1>2. /\ core' \in [CoreVersions -> RunType] /\ core'[v].pc = "diff"
      /\ \A w \in CoreVersions \ {v} : core'[w] = core[w]
  BY <1>1 DEF SoundInv, RunsOK
<1>3. /\ flags' = [x \in DOMAIN flags \cup new |->
                     IF x[3] = v /\ <<x[1], x[2]>> \in DOMAIN FlagTable[v]
                     THEN FlagTable[v][<<x[1], x[2]>>] ELSE flags[x]]
      /\ UNCHANGED <<symbols, rules, checks, commands, completed>> /\ core[v].pc = "flags"
  BY DEF WriteCliFlags
<1>4. DOMAIN FlagTable[v] = {<<f.command, f.name>> : f \in ToSet(Flags[v])}
  BY DEF FlagTable
<1>5. SidesOK'
  <2>1. ASSUME NEW x \in DOMAIN flags'
        PROVE  \E w \in CoreVersions : \E k \in DOMAIN FlagTable[w] :
                 x = <<k[1], k[2], w>> /\ flags'[x] = FlagTable[w][k]
    <3>1. CASE x \in new
      <4>1. PICK f \in ToSet(Flags[v]) : x = <<f.command, f.name, v>>
        BY <3>1
      <4>2. PICK k \in DOMAIN FlagTable[v] : k = <<f.command, f.name>>
        BY <1>4
      <4>3. x[3] = v /\ <<x[1], x[2]>> = k /\ x = <<k[1], k[2], v>>
        BY <4>1, <4>2
      <4>4. flags'[x] = FlagTable[v][k]
        BY <1>3, <3>1, <4>3
      <4>5. QED
        BY <4>3, <4>4
    <3>2. CASE x \in DOMAIN flags /\ x \notin new
      <4>0. PICK w \in CoreVersions : \E k \in DOMAIN FlagTable[w] :
              x = <<k[1], k[2], w>> /\ flags[x] = FlagTable[w][k]
        BY <3>2 DEF LayerInv, SidesOK
      <4>1. PICK k \in DOMAIN FlagTable[w] : x = <<k[1], k[2], w>> /\ flags[x] = FlagTable[w][k]
        BY <4>0
      <4>2. CASE x[3] = v /\ <<x[1], x[2]>> \in DOMAIN FlagTable[v]
        <5>1. PICK f \in ToSet(Flags[v]) : <<x[1], x[2]>> = <<f.command, f.name>>
          BY <1>4, <4>2
        <5>2. x = <<f.command, f.name, v>>
          BY <4>1, <4>2, <5>1
        <5>3. QED
          BY <3>2, <5>2
      <4>3. CASE ~ (x[3] = v /\ <<x[1], x[2]>> \in DOMAIN FlagTable[v])
        <5>1. flags'[x] = flags[x]
          BY <1>3, <3>2, <4>3
        <5>2. QED
          BY <4>1, <5>1
      <4>4. QED
        BY <4>2, <4>3
    <3>3. QED
      BY <1>3, <3>1, <3>2
  <2>2. /\ \A x \in DOMAIN rules' : \E w \in CoreVersions : \E id \in DOMAIN RuleTable[w] :
             x = <<id, w>> /\ rules'[x] = RuleTable[w][id]
        /\ \A e \in checks' : \E w \in CoreVersions : \E r \in ToSet(LintRules[w]) :
             e = <<r.id, r.symbol, w>> /\ r.symbol \in DOMAIN Table[w]
        /\ \A x \in commands' : \E w \in CoreVersions : \E c \in Commands[w] : x = <<c, w>>
    BY <1>3 DEF LayerInv, SidesOK
  <2>3. QED
    BY <2>1, <2>2 DEF SidesOK
<1>6. FlagsThere(v)'
  <2>1. ASSUME NEW k \in DOMAIN FlagTable[v] PROVE <<k[1], k[2], v>> \in DOMAIN flags'
    <3>1. PICK f \in ToSet(Flags[v]) : k = <<f.command, f.name>>
      BY <1>4
    <3>2. <<k[1], k[2], v>> \in new
      BY <3>1
    <3>3. QED
      BY <1>3, <3>2
  <2>2. QED
    BY <2>1 DEF FlagsThere
<1>7. RulesThere(v)' /\ CommandsThere(v)'
  <2>1. RulesThere(v) /\ CommandsThere(v)
    BY <1>3, PhaseReached
  <2>2. QED
    BY <1>3, <2>1 DEF RulesThere, CommandsThere
<1>8. StagesOK'
  <2>1. DOMAIN flags \subseteq DOMAIN flags'
    BY <1>3
  <2>2. QED
    BY <1>2, <1>3, <1>6, <1>7, <2>1, StagesAfter
<1>9. QED
  BY <1>5, <1>8 DEF LayerInv

LEMMA LayerStep ==
  ASSUME Unambiguous, SoundInv, SoundInv', LayerInv, [Next]_vars
  PROVE  LayerInv'
<1>1. CASE \E v \in CoreVersions : CoreStep(v)
  <2>1. PICK v \in CoreVersions : CoreStep(v)
    BY <1>1
  <2>2. core \in [CoreVersions -> RunType] /\ core' \in [CoreVersions -> RunType]
    BY DEF SoundInv, RunsOK
  <2>3. CASE WriteLintRules(v)
    BY <2>3, WriteLintRulesLayer
  <2>4. CASE WriteCliCommands(v)
    BY <2>4, WriteCliCommandsLayer
  <2>5. CASE WriteCliFlags(v)
    BY <2>5, WriteCliFlagsLayer
  <2>6. CASE StartIndexCore(v) \/ KillIndexCore(v)
    <3>1. /\ UNCHANGED <<rules, checks, commands, flags, completed>>
          /\ \E rec : /\ core' = [core EXCEPT ![v] = rec] /\ rec.pc \in {"idle", "symbols"}
      BY <2>6 DEF StartIndexCore, KillIndexCore, IdleRun
    <3>2. QED
      BY <2>2, <3>1, SidesKept
  <2>7. CASE WriteCoreSymbols(v)
    <3>1. PICK upto \in 0 .. Len(Listed[v]) : \E rec \in RunType :
            /\ core' = [core EXCEPT ![v] = rec]
            /\ rec.pc = IF upto = Len(Listed[v]) THEN "rules" ELSE "symbols"
      BY <2>7, BatchMerged
    <3>2. UNCHANGED <<rules, checks, commands, flags, completed>>
      BY <2>7 DEF WriteCoreSymbols
    <3>3. QED
      BY <2>2, <3>1, <3>2, SidesKept
  <2>8. CASE DiffWithPrevious(v) \/ WriteDiffEdges(v) \/ WriteLifecycleProperties(v)
    <3>1. /\ core[v].pc \in {"diff", "edges", "lifecycle"}
          /\ UNCHANGED <<rules, checks, commands, flags>>
      BY <2>8 DEF DiffWithPrevious, WriteDiffEdges, WriteLifecycleProperties
    <3>2. \A w \in CoreVersions \ {v} : core'[w] = core[w]
      BY <2>2, <2>8 DEF DiffWithPrevious, WriteDiffEdges, WriteLifecycleProperties, Finish, Goto
    <3>3. completed' = completed \/ DOMAIN completed' = DOMAIN completed \cup {v}
      BY <2>8 DEF DiffWithPrevious, WriteDiffEdges, WriteLifecycleProperties, Finish
    <3>4. QED
      BY <2>2, <3>1, <3>2, <3>3, SidesKept
  <2>9. QED
    BY <2>1, <2>3, <2>4, <2>5, <2>6, <2>7, <2>8 DEF CoreStep
<1>2. CASE UNCHANGED coreVars
  <2>1. UNCHANGED <<rules, checks, commands, flags, core, completed>>
    BY <1>2 DEF coreVars
  <2>2. QED
    BY <2>1 DEF LayerInv, SidesOK, StagesOK, Reached, RulesThere, CommandsThere, FlagsThere
<1>3. QED
  BY <1>1, <1>2 DEF Next, vars

LEMMA LayerInit ==
  ASSUME Init
  PROVE  LayerInv
<1>1. /\ DOMAIN rules = {} /\ checks = {} /\ commands = {} /\ DOMAIN flags = {}
      /\ core = [v \in CoreVersions |-> IdleRun] /\ DOMAIN completed = {}
  BY DEF Init, CoreInit
<1>2. \A v \in CoreVersions : core[v].pc = "idle"
  BY <1>1, IdleIs
<1>3. QED
  BY <1>1, <1>2 DEF LayerInv, SidesOK, StagesOK, Reached

\* Every phase of a completed run was passed: what is there is what was to be.
LEMMA LayerIs ==
  ASSUME SoundInv, LayerInv
  PROVE  LayerIsWhole
<1> SUFFICES ASSUME NEW v \in DOMAIN completed PROVE HoldsSources(v)
  BY DEF LayerIsWhole
<1>1. v \in CoreVersions /\ Whole(v) /\ RulesThere(v) /\ CommandsThere(v) /\ FlagsThere(v)
  BY DEF SoundInv, CompletedOK, LayerInv, StagesOK, Reached
<1>2. {n \in DOMAIN symbols : n[2] = v} = (DOMAIN Table[v]) \X {v}
  <2>1. ASSUME NEW n \in DOMAIN symbols, n[2] = v PROVE n \in (DOMAIN Table[v]) \X {v}
    <3>1. n = <<n[1], n[2]>> /\ n[1] \in DOMAIN Table[v]
      BY <2>1 DEF SoundInv, SymbolsOK
    <3>2. QED
      BY <2>1, <3>1
  <2>2. ASSUME NEW n \in (DOMAIN Table[v]) \X {v} PROVE n \in DOMAIN symbols /\ n[2] = v
    BY <1>1 DEF Whole
  <2>3. QED
    BY <2>1, <2>2
<1>3. ASSUME NEW s \in DOMAIN Table[v]
      PROVE  /\ symbols[<<s, v>>].status = Table[v][s].status
             /\ symbols[<<s, v>>].repl = Table[v][s].repl
  <2>1. PICK n \in DOMAIN symbols : n = <<s, v>>
    BY <1>1 DEF Whole
  <2>2. n[1] = s /\ n[2] = v
    BY <2>1
  <2>3. QED
    BY <2>1, <2>2 DEF SoundInv, SymbolsOK
<1>4. {x \in DOMAIN rules : x[2] = v} = (DOMAIN RuleTable[v]) \X {v}
  <2>1. ASSUME NEW x \in DOMAIN rules, x[2] = v PROVE x \in (DOMAIN RuleTable[v]) \X {v}
    <3>1. PICK w \in CoreVersions : \E id \in DOMAIN RuleTable[w] : x = <<id, w>>
      BY DEF LayerInv, SidesOK
    <3>2. w = v
      BY <2>1, <3>1
    <3>3. QED
      BY <3>1, <3>2
  <2>2. ASSUME NEW x \in (DOMAIN RuleTable[v]) \X {v} PROVE x \in DOMAIN rules /\ x[2] = v
    BY <1>1 DEF RulesThere
  <2>3. QED
    BY <2>1, <2>2
<1>5. ASSUME NEW id \in DOMAIN RuleTable[v] PROVE rules[<<id, v>>] = RuleTable[v][id]
  <2>1. PICK x \in DOMAIN rules : x = <<id, v>>
    BY <1>1 DEF RulesThere
  <2>2. PICK w \in CoreVersions : \E i \in DOMAIN RuleTable[w] :
          x = <<i, w>> /\ rules[x] = RuleTable[w][i]
    BY DEF LayerInv, SidesOK
  <2>3. QED
    BY <2>1, <2>2
<1>6. {e \in checks : e[3] = v} =
        {<<r.id, r.symbol, v>> : r \in {r \in ToSet(LintRules[v]) : r.symbol \in DOMAIN Table[v]}}
  <2> DEFINE linked == {r \in ToSet(LintRules[v]) : r.symbol \in DOMAIN Table[v]}
  <2>1. ASSUME NEW e \in checks, e[3] = v PROVE \E r \in linked : e = <<r.id, r.symbol, v>>
    <3>1. PICK w \in CoreVersions : \E r \in ToSet(LintRules[w]) :
            e = <<r.id, r.symbol, w>> /\ r.symbol \in DOMAIN Table[w]
      BY DEF LayerInv, SidesOK
    <3>2. w = v
      BY <2>1, <3>1
    <3>3. QED
      BY <3>1, <3>2
  <2>2. ASSUME NEW r \in linked PROVE <<r.id, r.symbol, v>> \in checks
    BY <1>1 DEF RulesThere
  <2>3. ASSUME NEW r \in linked PROVE <<r.id, r.symbol, v>>[3] = v
    OBVIOUS
  <2> HIDE DEF linked
  <2>4. {e \in checks : e[3] = v} = {<<r.id, r.symbol, v>> : r \in linked}
    BY <2>1, <2>2, <2>3
  <2>5. QED
    BY <2>4 DEF linked
<1>7. {x \in commands : x[2] = v} = Commands[v] \X {v}
  <2>1. ASSUME NEW x \in commands, x[2] = v PROVE x \in Commands[v] \X {v}
    <3>1. PICK w \in CoreVersions : \E c \in Commands[w] : x = <<c, w>>
      BY DEF LayerInv, SidesOK
    <3>2. w = v
      BY <2>1, <3>1
    <3>3. QED
      BY <3>1, <3>2
  <2>2. QED
    BY <1>1, <2>1 DEF CommandsThere
<1>8. {x \in DOMAIN flags : x[3] = v} = {<<k[1], k[2], v>> : k \in DOMAIN FlagTable[v]}
  <2>1. ASSUME NEW x \in DOMAIN flags, x[3] = v
        PROVE  \E k \in DOMAIN FlagTable[v] : x = <<k[1], k[2], v>>
    <3>1. PICK w \in CoreVersions : \E k \in DOMAIN FlagTable[w] : x = <<k[1], k[2], w>>
      BY DEF LayerInv, SidesOK
    <3>2. w = v
      BY <2>1, <3>1
    <3>3. QED
      BY <3>1, <3>2
  <2>2. ASSUME NEW k \in DOMAIN FlagTable[v]
        PROVE  <<k[1], k[2], v>> \in DOMAIN flags /\ <<k[1], k[2], v>>[3] = v
    BY <1>1 DEF FlagsThere
  <2>3. QED
    BY <2>1, <2>2
<1>9. ASSUME NEW k \in DOMAIN FlagTable[v]
      PROVE  flags[<<k[1], k[2], v>>] = FlagTable[v][k]
  <2>1. PICK x \in DOMAIN flags : x = <<k[1], k[2], v>>
    BY <1>1 DEF FlagsThere
  <2>2. PICK w \in CoreVersions : \E j \in DOMAIN FlagTable[w] :
          x = <<j[1], j[2], w>> /\ flags[x] = FlagTable[w][j]
    BY DEF LayerInv, SidesOK
  <2>3. w = v
    BY <2>1, <2>2
  <2>4. PICK j \in DOMAIN FlagTable[v] : x = <<j[1], j[2], v>> /\ flags[x] = FlagTable[v][j]
    BY <2>2, <2>3
  <2>5. j = <<j[1], j[2]>> /\ k = <<k[1], k[2]>>
    <3>1. DOMAIN FlagTable[v] = {<<f.command, f.name>> : f \in ToSet(Flags[v])}
      BY <1>1 DEF FlagTable
    <3>2. QED
      BY <3>1
  <2>6. j = k
    BY <2>1, <2>4, <2>5
  <2>7. QED
    BY <2>1, <2>4, <2>6
<1>10. QED
  BY <1>2, <1>3, <1>4, <1>5, <1>6, <1>7, <1>8, <1>9 DEF HoldsSources

\* Whatever order the versions are indexed in, several at a time or not, and
\* wherever runs of them are killed: of a version that completed once, the layer
\* holds each symbol, rule, command and flag that its parsers and curated files
\* list, as they list it, each rule linked to its symbol, and nothing else; a
\* later run of the version never leaves less (index_core, write_core_symbols,
\* write_lint_rules, write_cli_commands, write_cli_flags).
THEOREM LayerIsAlwaysWhole == Unambiguous /\ Spec => []LayerIsWhole
<1> SUFFICES ASSUME Unambiguous PROVE Spec => []LayerIsWhole
  OBVIOUS
<1>1. Init => SoundInv /\ LayerInv
  BY SoundInit, LayerInit
<1>2. SoundInv /\ LayerInv /\ [Next]_vars => (SoundInv /\ LayerInv)'
  BY SoundStep, LayerStep
<1>3. SoundInv /\ LayerInv => LayerIsWhole
  BY LayerIs
<1>4. QED
  BY <1>1, <1>2, <1>3, PTL DEF Spec

-----------------------------------------------------------------------------
(* The answers, when the parsers read the files as they are written           *)

\* Only a symbol's own node answers to its qualified name.
LEMMA NamedIs ==
  ASSUME Unambiguous, Qualified, NEW v \in CoreVersions, HoldsSources(v), NEW s \in Symbols
  PROVE  Named(s, v) = IF s \in DOMAIN Table[v] THEN {s} ELSE {}
<1>1. \A t : <<t, v>> \in DOMAIN symbols <=> t \in DOMAIN Table[v]
  <2>1. ASSUME NEW t PROVE <<t, v>> \in DOMAIN symbols <=> t \in DOMAIN Table[v]
    <3>1. <<t, v>> \in {n \in DOMAIN symbols : n[2] = v} <=> <<t, v>> \in (DOMAIN Table[v]) \X {v}
      BY DEF HoldsSources
    <3>2. QED
      BY <3>1
  <2>2. QED
    BY <2>1
<1>2. Named(s, v) = {t \in Symbols : t \in DOMAIN Table[v] /\ s = t}
  BY <1>1 DEF Named, Qualified
<1>3. QED
  BY <1>2

\* A definition is found by its name alone, as it is marked, and a curated symbol
\* that is not defined as it is listed.
LEMMA SymbolsAnswered ==
  ASSUME Unambiguous, Qualified, NEW v \in CoreVersions, HoldsSources(v), Parsed(v)
  PROVE  /\ \A d \in Definitions(v) :
              /\ LookupCoreApi(d.symbol, v) = {d.symbol}
              /\ \E e \in Definitions(v) :
                   /\ e.symbol = d.symbol
                   /\ (symbols[<<d.symbol, v>>].status = "deprecated") <=> (e.deprecated # {})
         /\ \A e \in ToSet(LoadToolsSymbols(v)) :
              \/ \E d \in Definitions(v) : d.symbol = e.symbol
              \/ symbols[<<e.symbol, v>>].status = e.status
<1>1. \A s \in DOMAIN Table[v] : s \in Symbols /\ symbols[<<s, v>>].status = Table[v][s].status
  BY TableIs DEF HoldsSources
<1>2. ASSUME NEW d \in Definitions(v)
      PROVE  /\ LookupCoreApi(d.symbol, v) = {d.symbol}
             /\ \E e \in Definitions(v) :
                  /\ e.symbol = d.symbol
                  /\ (symbols[<<d.symbol, v>>].status = "deprecated") <=> (e.deprecated # {})
  <2>1. d.symbol \in DOMAIN Table[v] /\ d.symbol \in Symbols
    BY <1>1 DEF Parsed
  <2>2. Named(d.symbol, v) = {d.symbol}
    BY <2>1, NamedIs
  <2>3. LookupCoreApi(d.symbol, v) = {d.symbol}
    BY <2>1, <2>2, LayerAssumption DEF LookupCoreApi
  <2>4. PICK e \in Definitions(v) :
          /\ e.symbol = d.symbol
          /\ (Table[v][d.symbol].status = "deprecated") <=> (e.deprecated # {})
    BY DEF Parsed
  <2>5. QED
    BY <1>1, <2>1, <2>3, <2>4
<1>3. ASSUME NEW e \in ToSet(LoadToolsSymbols(v)), ~ \E d \in Definitions(v) : d.symbol = e.symbol
      PROVE  symbols[<<e.symbol, v>>].status = e.status
  <2>1. e.symbol \in DOMAIN Table[v] /\ Table[v][e.symbol].status = e.status
    BY <1>3 DEF Parsed
  <2>2. QED
    BY <1>1, <2>1
<1>4. QED
  BY <1>2, <1>3

\* Two completed versions compare as their tables do.
LEMMA VersionsCompared ==
  ASSUME Unambiguous, Qualified, NEW u \in CoreVersions, NEW v \in CoreVersions, u # v,
         HoldsSources(u), HoldsSources(v), NEW s \in Symbols
  PROVE  /\ ApiVersionDiff(s, u, v) = "removed" <=> s \in DOMAIN Table[u] \ DOMAIN Table[v]
         /\ ApiVersionDiff(s, u, v) = "added" <=> s \in DOMAIN Table[v] \ DOMAIN Table[u]
<1>1. Named(s, u) = IF s \in DOMAIN Table[u] THEN {s} ELSE {}
  BY NamedIs
<1>2. Named(s, v) = IF s \in DOMAIN Table[v] THEN {s} ELSE {}
  BY NamedIs
<1>3. CASE s \in DOMAIN Table[u] /\ s \in DOMAIN Table[v]
  <2>1. Named(s, u) # {} /\ Named(s, v) # {}
    BY <1>1, <1>2, <1>3
  <2>2. ApiVersionDiff(s, u, v) = "both"
    BY <2>1 DEF ApiVersionDiff
  <2>3. QED
    BY <1>3, <2>2
<1>4. CASE s \in DOMAIN Table[u] /\ s \notin DOMAIN Table[v]
  <2>1. Named(s, u) # {} /\ Named(s, v) = {}
    BY <1>1, <1>2, <1>4
  <2>2. ApiVersionDiff(s, u, v) = "removed"
    BY <2>1 DEF ApiVersionDiff
  <2>3. QED
    BY <1>4, <2>2
<1>5. CASE s \notin DOMAIN Table[u] /\ s \in DOMAIN Table[v]
  <2>1. Named(s, u) = {} /\ Named(s, v) # {}
    BY <1>1, <1>2, <1>5
  <2>2. ApiVersionDiff(s, u, v) = "added"
    BY <2>1 DEF ApiVersionDiff
  <2>3. QED
    BY <1>5, <2>2
<1>6. CASE s \notin DOMAIN Table[u] /\ s \notin DOMAIN Table[v]
  <2>1. Named(s, u) = {} /\ Named(s, v) = {}
    BY <1>1, <1>2, <1>6
  <2>2. ApiVersionDiff(s, u, v) = "not found"
    BY <2>1 DEF ApiVersionDiff
  <2>3. QED
    BY <1>6, <2>2
<1>7. QED
  BY <1>3, <1>4, <1>5, <1>6

\* Of the kinds of an id the last is kept: a rule whose id no other has is.
LEMMA RuleKept ==
  ASSUME NEW v \in CoreVersions, Parsed(v), NEW r \in RulesOf(v)
  PROVE  /\ r \in ToSet(LintRules[v]) /\ r.id \in DOMAIN RuleTable[v]
         /\ RuleTable[v][r.id].kind = r.kind /\ RuleTable[v][r.id].words = r.words
<1> DEFINE l == LintRules[v]
           S == {i \in DOMAIN l : l[i].id = r.id}
<1>1. r \in ToSet(l) /\ DOMAIN l = 1 .. Len(l) /\ Len(l) \in Nat
  BY DEF Parsed
<1>2. \A q \in ToSet(l) : q.id = r.id => q = r
  BY DEF RulesOf
<1>3. RuleTable[v] = [id \in {q.id : q \in ToSet(l)} |->
                        LET kept == Max({i \in DOMAIN l : l[i].id = id})
                        IN  [kind |-> l[kept].kind, words |-> l[kept].words]]
  BY DEF RuleTable
<1> HIDE DEF l
<1>4. r.id \in DOMAIN RuleTable[v]
        /\ RuleTable[v][r.id] = [kind |-> l[Max(S)].kind, words |-> l[Max(S)].words]
  BY <1>1, <1>3
<1>5. S \subseteq 0 .. Len(l) /\ S # {}
  BY <1>1 DEF ToSet
<1>6. Max(S) \in S
  <2> HIDE DEF S
  <2>1. QED
    BY <1>1, <1>5, MaxIs
<1>7. l[Max(S)] \in ToSet(l) /\ l[Max(S)].id = r.id
  BY <1>6 DEF ToSet
<1>8. l[Max(S)] = r
  BY <1>2, <1>7
<1>9. QED
  BY <1>1, <1>4, <1>8 DEF l

\* A message that shares two words with a line shares them with the whole code.
LEMMA FiresInAll ==
  ASSUME NEW r, IsFiniteSet(r), NEW words, NEW all, words \subseteq all, Fires(r, words)
  PROVE  Fires(r, all)
<1>1. IsFiniteSet(r \cap all)
  BY FS_Intersection
<1>2. r \cap words \in SUBSET (r \cap all)
  OBVIOUS
<1>3. Cardinality(r \cap words) <= Cardinality(r \cap all)
  BY <1>1, <1>2, FS_Subset
<1>4. Cardinality(r \cap words) \in Nat /\ Cardinality(r \cap all) \in Nat
  BY <1>1, <1>2, FS_Subset, FS_CardinalityType
<1>5. QED
  BY <1>3, <1>4 DEF Fires

LEMMA LineReported ==
  ASSUME NEW v \in CoreVersions, HoldsSources(v), Parsed(v), NEW r \in RulesOf(v), NEW code,
         r.kind \in KindsOf(code.language),
         NEW i \in DOMAIN code.lines, Fires(r.words, code.lines[i].words),
         r.id \notin code.lines[i].noqa
  PROVE  r.id \in LintCheck(code, v)
<1>1. /\ r \in ToSet(LintRules[v]) /\ r.id \in DOMAIN RuleTable[v]
      /\ RuleTable[v][r.id].kind = r.kind /\ RuleTable[v][r.id].words = r.words
  BY RuleKept
<1>2. <<r.id, v>> \in DOMAIN rules /\ rules[<<r.id, v>>] = RuleTable[v][r.id]
  <2>1. <<r.id, v>> \in {x \in DOMAIN rules : x[2] = v}
    BY <1>1 DEF HoldsSources
  <2>2. QED
    BY <1>1, <2>1 DEF HoldsSources
<1>3. i \in HitLines(r.words, code.lines)
  <2> DEFINE hit == {j \in DOMAIN code.lines : Fires(r.words, code.lines[j].words)}
  <2>1. IsFiniteSet(r.words)
    BY <1>1 DEF Parsed
  <2>2. code.lines[i].words \subseteq UNION {code.lines[j].words : j \in DOMAIN code.lines}
    OBVIOUS
  <2>3. Fires(r.words, UNION {code.lines[j].words : j \in DOMAIN code.lines})
    BY <2>1, <2>2, FiresInAll
  <2>4. i \in hit
    OBVIOUS
  <2>5. HitLines(r.words, code.lines) = hit
    BY <2>3, <2>4 DEF HitLines
  <2>6. QED
    BY <2>4, <2>5
<1>4. PICK x \in DOMAIN rules : x = <<r.id, v>>
  BY <1>2
<1>5. /\ x[1] = r.id /\ x[2] = v /\ rules[x].kind \in KindsOf(code.language)
      /\ \E j \in HitLines(rules[x].words, code.lines) : x[1] \notin code.lines[j].noqa
  BY <1>1, <1>2, <1>3, <1>4
<1>6. QED
  BY <1>4, <1>5 DEF LintCheck

LEMMA FlagsListed ==
  ASSUME NEW v \in CoreVersions, HoldsSources(v), Parsed(v), NEW c \in ParseCliCommands(v)
  PROVE  CliHelp(c, v) = FlagsOf(v, c)
<1> DEFINE listed == {f \in ToSet(Flags[v]) : f.command = c}
           shown == {f \in DOMAIN flags : f[1] = c /\ f[3] = v}
<1>1. <<c, v>> \in commands
  <2>1. <<c, v>> \in {x \in commands : x[2] = v}
    BY DEF HoldsSources, Commands
  <2>2. QED
    BY <2>1
<1>2. DOMAIN FlagTable[v] = {<<f.command, f.name>> : f \in ToSet(Flags[v])}
  BY DEF FlagTable
<1>3. ASSUME NEW f \in ToSet(Flags[v])
      PROVE  /\ <<f.command, f.name, v>> \in DOMAIN flags
             /\ flags[<<f.command, f.name, v>>] = f.status
  <2>1. PICK k \in DOMAIN FlagTable[v] : k = <<f.command, f.name>>
    BY <1>2
  <2>2. FlagTable[v][k] = (CHOOSE g \in ToSet(Flags[v]) : <<g.command, g.name>> = k).status
    BY <2>1 DEF FlagTable
  <2>3. PICK g \in ToSet(Flags[v]) : <<g.command, g.name>> = k /\ FlagTable[v][k] = g.status
    BY <2>1, <2>2
  <2>4. g.status = f.status
    BY <2>1, <2>3 DEF Parsed
  <2>5. /\ <<k[1], k[2], v>> \in {x \in DOMAIN flags : x[3] = v}
        /\ flags[<<k[1], k[2], v>>] = FlagTable[v][k]
    BY DEF HoldsSources
  <2>6. k[1] = f.command /\ k[2] = f.name
    BY <2>1
  <2>7. QED
    BY <2>3, <2>4, <2>5, <2>6
<1>4. ASSUME NEW x \in shown
      PROVE  \E f \in listed : <<x[2], flags[x]>> = <<f.name, f.status>>
  <2>1. x \in {<<k[1], k[2], v>> : k \in DOMAIN FlagTable[v]}
    BY DEF HoldsSources
  <2>2. PICK k \in DOMAIN FlagTable[v] : x = <<k[1], k[2], v>>
    BY <2>1
  <2>3. PICK f \in ToSet(Flags[v]) : k = <<f.command, f.name>>
    BY <1>2
  <2>4. x = <<f.command, f.name, v>>
    BY <2>2, <2>3
  <2>5. f.command = c /\ x[2] = f.name /\ flags[x] = f.status
    BY <1>3, <2>4
  <2>6. QED
    BY <2>5
<1>5. ASSUME NEW f \in listed
      PROVE  \E x \in shown : <<x[2], flags[x]>> = <<f.name, f.status>>
  <2>1. PICK x \in DOMAIN flags : x = <<f.command, f.name, v>> /\ flags[x] = f.status
    BY <1>3
  <2>2. x \in shown /\ x[2] = f.name
    BY <2>1
  <2>3. QED
    BY <2>1, <2>2
<1>6. CliHelp(c, v) = {<<x[2], flags[x]>> : x \in shown}
  BY <1>1 DEF CliHelp
<1>7. FlagsOf(v, c) = {<<f.name, f.status>> : f \in listed}
  BY DEF Parsed
<1> HIDE DEF listed, shown
<1>8. QED
  BY <1>4, <1>5, <1>6, <1>7

\* A layer that is whole answers as the files say.
LEMMA LayerAnswers ==
  ASSUME Unambiguous, Qualified, \A v \in CoreVersions : Parsed(v), SoundInv, LayerInv
  PROVE  CoreIsAnswered
<1>1. \A v \in DOMAIN completed : v \in CoreVersions /\ HoldsSources(v)
  BY LayerIs DEF LayerIsWhole, SoundInv, CompletedOK
<1>2. ASSUME NEW v \in DOMAIN completed
      PROVE  /\ \A d \in Definitions(v) :
                  /\ LookupCoreApi(d.symbol, v) = {d.symbol}
                  /\ \E e \in Definitions(v) :
                       /\ e.symbol = d.symbol
                       /\ (symbols[<<d.symbol, v>>].status = "deprecated") <=> (e.deprecated # {})
             /\ \A e \in ToSet(LoadToolsSymbols(v)) :
                  \/ \E d \in Definitions(v) : d.symbol = e.symbol
                  \/ symbols[<<e.symbol, v>>].status = e.status
  BY <1>1, SymbolsAnswered
<1>3. ASSUME NEW v \in DOMAIN completed, NEW u \in DOMAIN completed \ {v}, NEW s \in Symbols
      PROVE  /\ (ApiVersionDiff(s, u, v) = "removed") <=>
                   (s \in DOMAIN Table[u] \ DOMAIN Table[v])
             /\ ApiVersionDiff(s, u, v) = "added" <=> ApiVersionDiff(s, v, u) = "removed"
  <2>1. u # v /\ u \in CoreVersions /\ v \in CoreVersions /\ HoldsSources(u) /\ HoldsSources(v)
    BY <1>1
  <2>2. /\ ApiVersionDiff(s, u, v) = "removed" <=> s \in DOMAIN Table[u] \ DOMAIN Table[v]
        /\ ApiVersionDiff(s, u, v) = "added" <=> s \in DOMAIN Table[v] \ DOMAIN Table[u]
    BY <2>1, VersionsCompared
  <2>3. ApiVersionDiff(s, v, u) = "removed" <=> s \in DOMAIN Table[v] \ DOMAIN Table[u]
    BY <2>1, VersionsCompared
  <2>4. QED
    BY <2>2, <2>3
<1>4. ASSUME NEW v \in DOMAIN completed, NEW r \in RulesOf(v)
      PROVE  /\ r.symbol \in DOMAIN Table[v] => <<r.id, r.symbol, v>> \in checks
             /\ \A code \in Snippets :
                  (/\ r.kind \in KindsOf(code.language)
                   /\ \E i \in DOMAIN code.lines : /\ Fires(r.words, code.lines[i].words)
                                                   /\ r.id \notin code.lines[i].noqa)
                    => r.id \in LintCheck(code, v)
  <2>1. v \in CoreVersions /\ HoldsSources(v) /\ Parsed(v)
    BY <1>1
  <2>2. ASSUME r.symbol \in DOMAIN Table[v] PROVE <<r.id, r.symbol, v>> \in checks
    <3>1. r \in ToSet(LintRules[v])
      BY <2>1, RuleKept
    <3>2. <<r.id, r.symbol, v>> \in {e \in checks : e[3] = v}
      BY <2>1, <2>2, <3>1 DEF HoldsSources
    <3>3. QED
      BY <3>2
  <2>3. ASSUME NEW code \in Snippets, r.kind \in KindsOf(code.language),
               NEW i \in DOMAIN code.lines, Fires(r.words, code.lines[i].words),
               r.id \notin code.lines[i].noqa
        PROVE  r.id \in LintCheck(code, v)
    BY <2>1, <2>3, LineReported
  <2>4. QED
    BY <2>2, <2>3
<1>5. ASSUME NEW v \in DOMAIN completed, NEW c \in ParseCliCommands(v)
      PROVE  CliHelp(c, v) = FlagsOf(v, c)
  BY <1>1, FlagsListed
<1>6. QED
  BY <1>2, <1>3, <1>4, <1>5 DEF CoreIsAnswered

\* When the parsers list what the files say, the tools answer what they say of
\* every version completed once, whatever is indexed meanwhile and wherever runs
\* are killed: a definition is found by its name and deprecated as it is marked,
\* versions compare as their sources do, a rule is linked to its symbol and
\* reported on the lines that break it, a command lists its flags (index_core,
\* lookup_core_api, api_version_diff, lint_check, cli_help).
THEOREM CoreIsAlwaysAnswered ==
  Unambiguous /\ Qualified /\ (\A v \in CoreVersions : Parsed(v)) /\ Spec => []CoreIsAnswered
<1> SUFFICES ASSUME Unambiguous, Qualified, \A v \in CoreVersions : Parsed(v)
             PROVE  Spec => []CoreIsAnswered
  OBVIOUS
<1>1. Init => SoundInv /\ LayerInv
  BY SoundInit, LayerInit
<1>2. SoundInv /\ LayerInv /\ [Next]_vars => (SoundInv /\ LayerInv)'
  BY SoundStep, LayerStep
<1>3. SoundInv /\ LayerInv => CoreIsAnswered
  BY LayerAnswers
<1>4. QED
  BY <1>1, <1>2, <1>3, PTL DEF Spec

=============================================================================
